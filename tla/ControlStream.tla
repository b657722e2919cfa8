----------------------------- MODULE ControlStream -----------------------------
(***************************************************************************)
(* The way of a touch from its sender to the devices: the broadcast        *)
(* channel, a ring in which a slow receiver loses the oldest messages, and *)
(* control_writer of src/src/scrcpy/connection.rs, which scales each touch *)
(* to the size of its device and writes it.                                *)
(*                                                                         *)
(* The size comes from two sources: rotations, which control_reader stores *)
(* in the registry and hands to the writer, and the video stream, which    *)
(* stores each new size from a task of its own.  Width and height are      *)
(* handled alike and together; the model has one dimension.                *)
(***************************************************************************)
EXTENDS Integers, Sequences

CONSTANTS
  Conns,       \* control connections, each of its own session
  Pointers,
  Points,      \* the positions of touches, with the size they refer to
  DeviceSizes, \* the sizes a device may report
  Cap,         \* the capacity of the broadcast channel
  Word,        \* 2^31: an i32 is in -Word..Word-1
  Half,        \* 2^16: a u16 is below it
  MaxReports,  \* bound on the sizes a device reports
  None         \* no message, no size, not registered

Point == [x : (-Word)..(Word - 1), w : 0..(Half - 1)]
Touch == [what : {"down", "up"}, pointer : Pointers, x : (-Word)..(Word - 1), w : 0..(Half - 1)]
Other == [what : {"other"}]
Message == Touch \cup Other

\* What control_writer and control_reader are working on, and a task of the
\* video stream.
Work     == [msg : Message, stage : {"registry", "watch", "write"}]
Rotated  == [size : DeviceSizes, stage : {"store", "share"}]
Task     == [size : DeviceSizes, nth : 0..MaxReports]

ASSUME WidthAssumption == Word \in Nat \ {0} /\ Half \in Nat \ {0}
ASSUME CapAssumption   == Cap \in Nat \ {0} /\ MaxReports \in Nat
ASSUME PointAssumption == Points \subseteq Point
ASSUME SizeAssumption  == DeviceSizes \subseteq 1..(Word - 1)
ASSUME NoneAssumption  == None \notin 0..(Word - 1) /\ None \notin Work /\ None \notin Rotated

VARIABLES
  held,        \* the pointers the senders have put down
  phase,       \* where each connection stands
  queue,       \* what its receiver has yet to take from the channel
  lagged,      \* its next recv returns Lagged
  hand,        \* the message control_writer works on
  device,      \* the pointers that are down on the device
  known,       \* device_size in the registry, None without an entry
  watch,       \* the size control_reader has handed to control_writer
  busy,        \* the rotation control_reader works on
  late,        \* the tasks, spawned by the video stream, that have yet to store their size
  reports,     \* how many sizes the device has reported
  lost,        \* history: pointers whose last touch the connection did not get
  told,        \* history: the size the device reported last
  raced        \* history: it did so before the one before was stored

writerVars == <<phase, queue, lagged, hand, device, lost>>
sizeVars   == <<known, watch, busy, late, reports, told, raced>>
vars       == <<held, writerVars, sizeVars>>

Listening == {"subscribed", "open", "broken"}

TypeOK ==
  /\ held \subseteq Pointers
  /\ phase \in [Conns -> {"none", "subscribed", "open", "broken", "ended"}]
  /\ queue \in [Conns -> Seq(Message)]
  /\ \A c \in Conns : Len(queue[c]) <= Cap
  /\ lagged \in [Conns -> BOOLEAN]
  /\ hand \in [Conns -> Work \cup {None}]
  /\ device \in [Conns -> SUBSET Pointers] /\ lost \in [Conns -> SUBSET Pointers]
  /\ known \in [Conns -> DeviceSizes \cup {0, None}]
  /\ watch \in [Conns -> DeviceSizes \cup {0}] /\ told \in [Conns -> DeviceSizes \cup {0}]
  /\ busy \in [Conns -> Rotated \cup {None}]
  /\ late \in [Conns -> SUBSET Task]
  /\ reports \in [Conns -> 0..MaxReports]
  /\ raced \in [Conns -> BOOLEAN]

\* A session is registered before its connections.
Init ==
  /\ held = {}
  /\ phase = [c \in Conns |-> "none"]
  /\ queue = [c \in Conns |-> <<>>] /\ lagged = [c \in Conns |-> FALSE]
  /\ hand = [c \in Conns |-> None]
  /\ device = [c \in Conns |-> {}] /\ lost = [c \in Conns |-> {}]
  /\ known = [c \in Conns |-> 0] /\ watch = [c \in Conns |-> 0] /\ told = [c \in Conns |-> 0]
  /\ busy = [c \in Conns |-> None] /\ late = [c \in Conns |-> {}]
  /\ reports = [c \in Conns |-> 0] /\ raced = [c \in Conns |-> FALSE]

-----------------------------------------------------------------------------
(* The broadcast channel.                                                   *)

About(m, p) == m.what # "other" /\ m.pointer = p

\* What a touch does to the pointers that are down.
Applied(down, m) ==
  CASE m.what = "down" -> down \cup {m.pointer}
    [] m.what = "up"   -> down \ {m.pointer}
    [] OTHER           -> down

\* (variant) a full channel refuses the newest message.
Queued_Refused(q, m) == IF Len(q) = Cap THEN q ELSE Append(q, m)

\* A full channel overwrites the oldest message.
Queued(q, m) == IF Len(q) = Cap THEN Append(Tail(q), m) ELSE Append(q, m)

\* The pointer whose last touch is overwritten.
Overwritten(q) ==
  {p \in Pointers : Len(q) = Cap /\ About(q[1], p) /\ \A i \in 2..Len(q) : ~About(q[i], p)}

\* ControlMsgHelper::send_touch and whoever else sends a message: every
\* receiver gets it.
Send(m) ==
  /\ held' = Applied(held, m)
  /\ queue' = [c \in Conns |-> IF phase[c] \in Listening THEN Queued(queue[c], m) ELSE queue[c]]
  /\ lagged' = [c \in Conns |-> lagged[c] \/ (phase[c] \in Listening /\ Len(queue[c]) = Cap)]
  /\ lost' = [c \in Conns |->
       IF phase[c] \in Listening
       THEN {p \in lost[c] \cup Overwritten(queue[c]) : ~About(m, p)} ELSE lost[c]]
  /\ UNCHANGED <<phase, hand, device, sizeVars>>

Sent ==
  \/ \E what \in {"down", "up"}, p \in Pointers, at \in Points :
       Send([what |-> what, pointer |-> p, x |-> at.x, w |-> at.w])
  \/ Send([what |-> "other"])

-----------------------------------------------------------------------------
(* The connection.                                                          *)

\* The command loop subscribes before it accepts the socket.
Subscribe(c) ==
  /\ phase[c] = "none"
  /\ phase' = [phase EXCEPT ![c] = "subscribed"]
  /\ lost' = [lost EXCEPT ![c] = held]
  /\ UNCHANGED <<held, queue, lagged, hand, device, sizeVars>>

\* The socket is accepted, the device name read, the mask told.
Open(c) ==
  /\ phase[c] = "subscribed"
  /\ phase' = [phase EXCEPT ![c] = "open"]
  /\ UNCHANGED <<held, queue, lagged, hand, device, lost, sizeVars>>

\* The device is gone; a write that fails is logged.
Breaks(c) ==
  /\ phase[c] = "open"
  /\ phase' = [phase EXCEPT ![c] = "broken"]
  /\ UNCHANGED <<held, queue, lagged, hand, device, lost, sizeVars>>

\* The token is cancelled, or the reader ends: writer and reader are dropped
\* where they stand.
Ends(c) ==
  /\ phase[c] \in Listening
  /\ phase' = [phase EXCEPT ![c] = "ended"]
  /\ queue' = [queue EXCEPT ![c] = <<>>] /\ lagged' = [lagged EXCEPT ![c] = FALSE]
  /\ hand' = [hand EXCEPT ![c] = None] /\ busy' = [busy EXCEPT ![c] = None]
  /\ device' = [device EXCEPT ![c] = {}] /\ lost' = [lost EXCEPT ![c] = {}]
  /\ UNCHANGED <<held, known, watch, late, reports, told, raced>>

-----------------------------------------------------------------------------
(* control_writer.                                                          *)

\* recv returns Lagged once, then what is left.
LagSeen(c) ==
  /\ phase[c] \in {"open", "broken"} /\ hand[c] = None /\ lagged[c]
  /\ lagged' = [lagged EXCEPT ![c] = FALSE]
  /\ UNCHANGED <<held, phase, queue, hand, device, lost, sizeVars>>

Receive(c) ==
  /\ phase[c] \in {"open", "broken"} /\ hand[c] = None /\ ~lagged[c] /\ queue[c] # <<>>
  /\ hand' = [hand EXCEPT ![c] =
       [msg |-> Head(queue[c]), stage |-> IF Head(queue[c]).what = "other" THEN "write" ELSE "registry"]]
  /\ queue' = [queue EXCEPT ![c] = Tail(queue[c])]
  /\ UNCHANGED <<held, phase, lagged, device, lost, sizeVars>>

\* (variant) a size is sent as it is.
Narrow_Not(n) == n

\* An i32 wraps, as in a release build; a cast to u16 keeps the low bits.
Wrap(n)   == ((n + Word) % (2 * Word)) - Word
Narrow(n) == n % Half

\* Division truncates towards zero.
Quotient(a, b) == IF a >= 0 THEN a \div b ELSE -((-a) \div b)

ScaledX(m, size) == IF m.w > 0 THEN Quotient(Wrap(m.x * size), m.w) ELSE m.x

Scaled(m, size) ==
  [what |-> m.what, pointer |-> m.pointer, x |-> ScaledX(m, size), w |-> Narrow(size)]

\* The size of the registry, if there is an entry and it has one.
ReadRegistry(c) ==
  /\ hand[c] # None /\ hand[c].stage = "registry"
  /\ hand' = [hand EXCEPT ![c] =
       IF known[c] \in {0, None} THEN [msg |-> hand[c].msg, stage |-> "watch"]
       ELSE [msg |-> Scaled(hand[c].msg, known[c]), stage |-> "write"]]
  /\ UNCHANGED <<held, phase, queue, lagged, device, lost, sizeVars>>

\* Otherwise that of the last rotation, perhaps none.
ReadWatch(c) ==
  /\ hand[c] # None /\ hand[c].stage = "watch"
  /\ hand' = [hand EXCEPT ![c] = [msg |-> Scaled(hand[c].msg, watch[c]), stage |-> "write"]]
  /\ UNCHANGED <<held, phase, queue, lagged, device, lost, sizeVars>>

Write(c) ==
  /\ hand[c] # None /\ hand[c].stage = "write"
  /\ hand' = [hand EXCEPT ![c] = None]
  /\ device' = [device EXCEPT ![c] = IF phase[c] = "open" THEN Applied(@, hand[c].msg) ELSE @]
  /\ UNCHANGED <<held, phase, queue, lagged, lost, sizeVars>>

-----------------------------------------------------------------------------
(* The size of the device.                                                  *)

\* (variant) the first size stays.
Updated_Once(old, size) == IF old = 0 THEN size ELSE old

\* update_device_size: nothing without an entry.
Updated(old, size) == IF old = None THEN None ELSE size

\* Sizes that have been reported and not stored.
Outstanding(c) == busy[c] # None \/ late[c] # {}

Report(c, size) ==
  /\ reports[c] < MaxReports
  /\ reports' = [reports EXCEPT ![c] = @ + 1]
  /\ told' = [told EXCEPT ![c] = size]
  /\ raced' = [raced EXCEPT ![c] = Outstanding(c)]
  /\ UNCHANGED <<held, writerVars, known, watch>>

\* control_reader: the device has been rotated.
Rotation(c, size) ==
  /\ phase[c] = "open" /\ busy[c] = None
  /\ busy' = [busy EXCEPT ![c] = [size |-> size, stage |-> "store"]]
  /\ Report(c, size)
  /\ UNCHANGED late

ReaderStores(c) ==
  /\ busy[c] # None /\ busy[c].stage = "store"
  /\ known' = [known EXCEPT ![c] = Updated(known[c], busy[c].size)]
  /\ busy' = [busy EXCEPT ![c] = [size |-> busy[c].size, stage |-> "share"]]
  /\ UNCHANGED <<held, writerVars, watch, late, reports, told, raced>>

ReaderShares(c) ==
  /\ busy[c] # None /\ busy[c].stage = "share"
  /\ watch' = [watch EXCEPT ![c] = busy[c].size]
  /\ busy' = [busy EXCEPT ![c] = None]
  /\ UNCHANGED <<held, writerVars, known, late, reports, told, raced>>

\* video_handler: the metadata, or a frame of another size.  The video
\* connection is served before the control connection is accepted.
VideoSized(c, size) ==
  /\ phase[c] # "ended"
  /\ late' = [late EXCEPT ![c] = @ \cup {[size |-> size, nth |-> reports[c]]}]
  /\ Report(c, size)
  /\ UNCHANGED busy

\* The tasks it spawns run in any order.
VideoTask(c, task) ==
  /\ task \in late[c]
  /\ late' = [late EXCEPT ![c] = @ \ {task}]
  /\ known' = [known EXCEPT ![c] = Updated(known[c], task.size)]
  /\ UNCHANGED <<held, writerVars, watch, busy, reports, told, raced>>

\* The web server removes the entry whenever it likes.
Remove(c) ==
  /\ known[c] # None
  /\ known' = [known EXCEPT ![c] = None]
  /\ UNCHANGED <<held, writerVars, watch, busy, late, reports, told, raced>>

Step(c) ==
  \/ Subscribe(c) \/ Open(c) \/ Breaks(c) \/ Ends(c)
  \/ LagSeen(c) \/ Receive(c) \/ ReadRegistry(c) \/ ReadWatch(c) \/ Write(c)
  \/ ReaderStores(c) \/ ReaderShares(c) \/ Remove(c)
  \/ \E size \in DeviceSizes : Rotation(c, size) \/ VideoSized(c, size)
  \/ \E task \in late[c] : VideoTask(c, task)

Next == Sent \/ \E c \in Conns : Step(c)

Spec == Init /\ [][Next]_vars

-----------------------------------------------------------------------------
(* Properties.                                                              *)

\* The touches of a pointer that wait, by their place in the queue.
Waiting(q, p) == {i \in DOMAIN q : About(q[i], p)}

\* Whether a pointer is down once all that waits is written is what the last
\* touch of it in the queue says, or the one in hand, or what it is on the
\* device.
WillBe(q, h, d, p, isDown) ==
  IF Waiting(q, p) # {}
  THEN \A i \in Waiting(q, p) :
         (\A j \in Waiting(q, p) : j <= i) => (q[i].what = "down" <=> isDown)
  ELSE IF h # None /\ About(h.msg, p) THEN h.msg.what = "down" <=> isDown
  ELSE p \in d <=> isDown

\* Lag loses messages (connection.rs:195), yet a pointer is left behind only if
\* its very last touch was overwritten, or came before the connection
\* subscribed (controller.rs:165): all others will be on the device as the
\* senders have them, whatever was lost, however often and in between.
DeviceFollows ==
  \A c \in Conns : phase[c] \in {"subscribed", "open"} =>
    \A p \in Pointers \ lost[c] : WillBe(queue[c], hand[c], device[c], p, p \in held)

\* The registry has been told all there is, one size after the other.
Settled(c) == known[c] # None /\ told[c] # 0 /\ ~Outstanding(c) /\ ~raced[c]

\* A touch inside its mask whose size is read once the reports have settled is
\* scaled, in the step that reads it, to a place inside the size the device
\* reported last (connection.rs:134-151), which is the size it is sent with, if
\* that fits a u16 and the product an i32.  Not so when two reports were
\* stored in the other order (connection.rs:444), nor when the registry was
\* read too early and had none: what control_reader shared may be older.
ScaledRight ==
  [][\A c \in Conns :
       hand[c] # None /\ hand[c].stage = "registry" /\ hand'[c] # hand[c]
       /\ hand'[c] # None /\ Settled(c) =>
         LET m    == hand[c].msg
             size == told[c]
         IN  m.w > 0 /\ m.x \in 0..m.w /\ size < Half /\ m.x * size < Word =>
               hand'[c].stage = "write" /\ hand'[c].msg.w = size /\ hand'[c].msg.x \in 0..size]_vars
=============================================================================
