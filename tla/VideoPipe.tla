------------------------------ MODULE VideoPipe ------------------------------
(***************************************************************************)
(* The frame path between the video connections (scrcpy/connection.rs) and *)
(* the Bevy main thread (mask/video.rs): the bounded message channel, the  *)
(* bounded channel that brings frame buffers back, and the script systems  *)
(* (mask/mask_command.rs, mask/mapping/script.rs) that report through the  *)
(* message channel too.                                                    *)
(*                                                                         *)
(* A frame buffer is one unit, whatever its size: what matters is who owns *)
(* it.  The size of a frame only chooses between a new image and the old   *)
(* one, and both take the buffer of the old image back first.  The text of *)
(* a script error and the statistics of a stream are not modelled.         *)
(***************************************************************************)
EXTENDS Naturals, Sequences, FiniteSets

CONSTANTS
  Streams,     \* video connections alive at once; an ended one is reused
  VCap,        \* capacity of the message channel
  RCap,        \* capacity of the recycle channel
  MaxScripts,  \* scripts running in the background at once; 0: no scripts
  None         \* no stream

ASSUME CapacityAssumption ==
  /\ VCap \in Nat \ {0} /\ RCap \in Nat /\ MaxScripts \in Nat
  /\ IsFiniteSet(Streams) /\ None \notin Streams

VARIABLES
  v,        \* the message channel
  recycle,  \* how many buffers the recycle channel holds
  task,     \* where each video connection stands
  bevy,     \* where the main thread stands in its frame
  last,     \* how many frames handle_video_msg holds in last_data_msg
  image,    \* how many buffers the displayed image has
  hud,      \* the stream LiveDiagnostics describes
  running   \* scripts running in the background

pipeVars == <<v, recycle>>
bevyVars == <<bevy, last, image, hud>>
vars == <<pipeVars, task, bevyVars, running>>

Message == [kind : {"Data", "StreamInfo", "Close", "Script"}, from : Streams \cup {None}]
Msg(kind, from) == [kind |-> kind, from |-> from]

\* The phases in which a connection, and the main thread, own a buffer that
\* is in neither channel, besides last_data_msg and the image.
Filled  == {"filled", "bounce"}
InHand  == {"drop", "swap"}

TypeOK ==
  /\ v \in Seq(Message) /\ Len(v) <= VCap
  /\ recycle \in 0..RCap
  /\ task \in [Streams -> Filled \cup {"name", "meta", "info", "read", "close", "ended"}]
  /\ bevy \in InHand \cup {"frame", "clear", "parse", "drain", "show"}
  /\ last \in 0..1 /\ image \in 0..1
  /\ hud \in Streams \cup {None}
  /\ running \in 0..MaxScripts

\* (variant) the channel is unbounded, as the one of the mask commands is.
HasRoom_Unbounded == TRUE
HasRoom == Len(v) < VCap
Send(m) == v' = Append(v, m)
Step(s, phase) == task' = [task EXCEPT ![s] = phase]

-----------------------------------------------------------------------------
(* A video connection: handle_video and video_handler.                      *)

Accepted(s) ==
  /\ task[s] = "ended"
  /\ Step(s, "name")
  /\ UNCHANGED <<pipeVars, bevyVars, running>>

\* The device name arrives; if it does not, the task ends without a Close.
ReadName(s) ==
  /\ task[s] = "name"
  /\ Step(s, "meta") \/ Step(s, "ended")
  /\ UNCHANGED <<pipeVars, bevyVars, running>>

\* The stream's metadata arrives and a decoder opens.
ReadMeta(s) ==
  /\ task[s] = "meta"
  /\ Step(s, "info")
  /\ UNCHANGED <<pipeVars, bevyVars, running>>

\* The read fails or the token is cancelled: at a socket read only, since
\* the rest of video_handler does not yield.
Stopped(s) ==
  /\ task[s] \in {"meta", "read"}
  /\ Step(s, "close")
  /\ UNCHANGED <<pipeVars, bevyVars, running>>

\* A blocking send.
SendInfo(s) ==
  /\ task[s] = "info"
  /\ HasRoom
  /\ Send(Msg("StreamInfo", s))
  /\ Step(s, "read")
  /\ UNCHANGED <<recycle, bevyVars, running>>

\* (variant) every frame allocates its buffer.
AfterTake_Allocating == recycle
\* try_recv takes a buffer back; a new one is allocated when there is none.
AfterTake == IF recycle > 0 THEN recycle - 1 ELSE 0

\* A packet arrives and yields a frame; config packets and packets the
\* decoder holds back leave no trace here.
Decode(s) ==
  /\ task[s] = "read"
  /\ recycle' = AfterTake
  /\ Step(s, "filled")
  /\ UNCHANGED <<v, bevyVars, running>>

\* try_send; on Full the buffer comes back to be recycled.
TrySendFrame(s) ==
  /\ task[s] = "filled"
  /\ \/ HasRoom  /\ Send(Msg("Data", s)) /\ Step(s, "read")
     \/ ~HasRoom /\ UNCHANGED v          /\ Step(s, "bounce")
  /\ UNCHANGED <<recycle, bevyVars, running>>

\* A blocking send on the recycle channel.
RecycleFrame(s) ==
  /\ task[s] = "bounce"
  /\ recycle < RCap
  /\ recycle' = recycle + 1
  /\ Step(s, "read")
  /\ UNCHANGED <<v, bevyVars, running>>

\* (variant) Close is sent with try_send and lost when the channel is full.
CloseSent_Try(s) == IF HasRoom THEN Send(Msg("Close", s)) ELSE UNCHANGED v
\* A blocking send.
CloseSent(s) == HasRoom /\ Send(Msg("Close", s))

SendClose(s) ==
  /\ task[s] = "close"
  /\ CloseSent(s)
  /\ Step(s, "ended")
  /\ UNCHANGED <<recycle, bevyVars, running>>

-----------------------------------------------------------------------------
(* The main thread before handle_video_msg: a script starts, from an        *)
(* EvalScript command or a script mapping.  A script system Bevy runs after *)
(* handle_video_msg counts for the next frame.                              *)

StartScript ==
  /\ bevy = "frame"
  /\ running < MaxScripts
  /\ bevy' = "clear"
  /\ UNCHANGED <<pipeVars, task, last, image, hud, running>>

\* The blocking send of ScriptClearError; then the script runs in the
\* background, is empty, or has a parse error to report.
ClearError ==
  /\ bevy = "clear"
  /\ HasRoom
  /\ Send(Msg("Script", None))
  /\ \/ bevy' = "frame" /\ running' = running + 1
     \/ bevy' \in {"frame", "parse"} /\ UNCHANGED running
  /\ UNCHANGED <<recycle, task, last, image, hud>>

\* The blocking send of a parse error.
ParseError ==
  /\ bevy = "parse"
  /\ HasRoom
  /\ Send(Msg("Script", None))
  /\ bevy' = "frame"
  /\ UNCHANGED <<recycle, task, last, image, hud, running>>

\* A background script ends well, or sends its error from a runtime thread.
ScriptEnds ==
  /\ running > 0
  /\ running' = running - 1
  /\ UNCHANGED v \/ (HasRoom /\ Send(Msg("Script", None)))
  /\ UNCHANGED <<recycle, task, bevyVars>>

-----------------------------------------------------------------------------
(* The main thread in handle_video_msg.                                     *)

StartDrain ==
  /\ bevy = "frame"
  /\ bevy' = "drain"
  /\ UNCHANGED <<pipeVars, task, last, image, hud, running>>

\* The frame taken before, if any, is in hand to be recycled.
TakeData ==
  /\ Head(v).kind = "Data"
  /\ last' = 1
  /\ bevy' = IF last = 1 THEN "drop" ELSE "drain"
  /\ UNCHANGED <<image, hud>>

TakeInfo ==
  /\ Head(v).kind = "StreamInfo"
  /\ hud' = Head(v).from
  /\ UNCHANGED <<bevy, last, image>>

TakeScript ==
  /\ Head(v).kind = "Script"
  /\ UNCHANGED <<bevy, last, image, hud>>

\* The diagnostics are cleared and the buffer of the image is in hand; a
\* frame held in last_data_msg stays there.
TakeClose ==
  /\ Head(v).kind = "Close"
  /\ hud' = None
  /\ image' = 0
  /\ bevy' = IF image = 1 THEN "drop" ELSE "drain"
  /\ UNCHANGED last

Take ==
  /\ bevy = "drain"
  /\ v # <<>>
  /\ v' = Tail(v)
  /\ TakeData \/ TakeInfo \/ TakeScript \/ TakeClose
  /\ UNCHANGED <<recycle, task, running>>

\* The blocking send of a buffer inside the loop.
Drop ==
  /\ bevy = "drop"
  /\ recycle < RCap
  /\ recycle' = recycle + 1
  /\ bevy' = "drain"
  /\ UNCHANGED <<v, task, last, image, hud, running>>

Drained ==
  /\ bevy = "drain"
  /\ v = <<>>
  /\ bevy' = IF last = 1 THEN "show" ELSE "frame"
  /\ UNCHANGED <<pipeVars, task, last, image, hud, running>>

\* The last frame is displayed, at once when no image is there.
Show ==
  /\ bevy = "show"
  /\ IF image = 1
     THEN bevy' = "swap" /\ image' = 0 /\ UNCHANGED last
     ELSE bevy' = "frame" /\ image' = 1 /\ last' = 0
  /\ UNCHANGED <<pipeVars, task, hud, running>>

\* The buffer of the old image is recycled, a blocking send, before the
\* frame takes its place.
Swap ==
  /\ bevy = "swap"
  /\ recycle < RCap
  /\ recycle' = recycle + 1
  /\ image' = 1 /\ last' = 0
  /\ bevy' = "frame"
  /\ UNCHANGED <<v, task, hud, running>>

-----------------------------------------------------------------------------
Init ==
  /\ v = <<>> /\ recycle = 0
  /\ task = [s \in Streams |-> "ended"]
  /\ bevy = "frame" /\ last = 0 /\ image = 0
  /\ hud = None
  /\ running = 0

\* What a connection does without waiting for the device.
Worker(s) == SendInfo(s) \/ TrySendFrame(s) \/ RecycleFrame(s) \/ SendClose(s)
Device(s) == Accepted(s) \/ ReadName(s) \/ ReadMeta(s) \/ Stopped(s) \/ Decode(s)
Script    == StartScript \/ ScriptEnds
Main      == ClearError \/ ParseError \/ StartDrain \/ Take \/ Drop \/ Drained \/ Show \/ Swap

Next ==
  \/ \E s \in Streams : Worker(s) \/ Device(s)
  \/ Script \/ Main

Spec == Init /\ [][Next]_vars

\* Bevy updates continuously and the runtime runs its threads; a channel
\* serves its senders in turn, so that none of them waits for ever while
\* there is room again and again.
Fairness == WF_vars(Main) /\ \A s \in Streams : SF_vars(Worker(s))
FairSpec == Spec /\ Fairness

-----------------------------------------------------------------------------
(* Properties.                                                              *)

DataIn(q) == {i \in DOMAIN q : q[i].kind = "Data"}
Working   == {s \in Streams : task[s] \in Filled}
InMain    == IF bevy \in InHand THEN 1 ELSE 0

\* The frame buffers that exist: queued, recycled, in the hands of a
\* connection, held by handle_video_msg, displayed.
Buffers ==
  Cardinality(DataIn(v)) + recycle + Cardinality(Working) + last + image + InMain

\* What the channel, the main thread and the connections can own at once.
BufferBound == VCap + Cardinality(Streams) + 3

\* However fast the device sends and however slowly the main thread draws,
\* the frames never take more buffers than the message channel, the
\* connections and the main thread can own at once: a buffer that is dropped
\* or replaced on either side comes back through the recycle channel.
BuffersBounded == Buffers <= BufferBound

\* The blocking sends on the recycle channel never block: there is room
\* whenever a connection or the main thread, which alone empty the channels,
\* has a buffer to give back.
RecycleNeverBlocks ==
  (\E s \in Streams : task[s] = "bounce") \/ bevy \in InHand => recycle < RCap

\* LiveDiagnostics does not describe a stream that has ended, unless its Close
\* is still queued: frames are dropped on a full channel, the Close is not.
HudEndsWithStream ==
  \A s \in Streams :
    hud = s /\ task[s] = "ended" => \E i \in DOMAIN v : v[i] = Msg("Close", s)

\* A connection that stops delivers its Close and ends, unless a script starts on
\* the main thread meanwhile, although the send blocks while the channel is full
\* and the other connections compete for it.
StreamCloses ==
  \A s \in Streams : task[s] = "close" ~> task[s] = "ended" \/ bevy \in {"clear", "parse"}

\* connection.rs:505: a full channel is to be expected ("Channel is full, recycle
\* buffer and drop frame to prevent latency and OOM"): it has room again later.
FullChannelDrains == Len(v) = VCap ~> Len(v) < VCap
=============================================================================
