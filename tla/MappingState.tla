----------------------------- MODULE MappingState -----------------------------
(***************************************************************************)
(* What the touch mappings of src/src/mask/mapping share: the active       *)
(* mapping and its input actions, the frames of the Bevy schedule, the     *)
(* mapping and cursor states, and the pointers the device shows down.      *)
(*                                                                         *)
(* A frame evaluates every input action once and then runs each system     *)
(* once, in no given order: an action has at most one event a frame, and   *)
(* the events of a frame are handled in any order.  A state set through    *)
(* NextState holds from the next frame on.  Positions and Move messages    *)
(* are not modelled: a touch is the Down or the Up of a pointer.           *)
(***************************************************************************)
EXTENDS Integers, Sequences, FiniteSets

CONSTANTS
  Kind,        \* the kind of each input action, which its name spells
  Profiles,    \* mapping files: the mapping of each of some actions
  Switches,    \* which mapping may be loaded after which
  Slots,       \* the background tasks at once (a bound)
  None         \* no entry, no cast, no task

Actions  == DOMAIN Kind
Kinds    == {"Click", "SyncTap", "Tap", "RepeatTap", "MultipleTap", "Swipe", "DirectionPad",
             "MouseCast", "PadCast", "CancelCast", "Observation", "Fps", "Fire", "RawInput"}
Releases == {"OnPress", "OnRelease", "OnSecondPress"}
Mapping  == [pointer : Nat, release : Releases, block : BOOLEAN]

\* The kind of an action is part of its name; the left button is no mapping
\* and always touches pointer 0; pad casts have no OnPress mode.
ASSUME KindAssumption == Kind \in [Actions -> Kinds]
ASSUME SlotAssumption == Slots \subseteq Nat /\ IsFiniteSet(Slots)
ASSUME NoneAssumption == None \notin Nat /\ None \notin [key : Actions, pointer : Nat, block : BOOLEAN, raced : BOOLEAN]
                         /\ None \notin [pointer : Nat, todo : Seq({"down", "up", "unblock"})]
ASSUME ProfileAssumption ==
  \A f \in Profiles : /\ DOMAIN f \subseteq Actions
                      /\ f \in [DOMAIN f -> Mapping]
                      /\ \A a \in DOMAIN f : /\ Kind[a] = "Click" => f[a].pointer = 0
                                             /\ Kind[a] = "PadCast" => f[a].release # "OnPress"
ASSUME SwitchAssumption == Switches \subseteq Profiles \X Profiles

VARIABLES
  profile,     \* ActiveMappingConfig
  down,        \* the input actions that are held
  seen,        \* those that have had their event in this frame
  missed,      \* history: entries' actions whose release nobody heard
  mode,        \* MappingState
  nextMode,    \* what it is from the next frame on
  cursor,      \* CursorState
  nextCursor,
  online,      \* a main device is connected
  screen,      \* the pointers the device has been told are down
  stray,       \* history: pointers left down by a fault named below
  task,        \* what each background task has yet to send
  entry,       \* ActiveRepeatTapMap, DirectionPadMap, ActiveObservation and
               \* ActiveFireMap: the pointer stored for an action
  cast,        \* ActiveCastSpell
  block,       \* BlockDirectionPad
  fps          \* ActiveCursorFpsConfig

inputVars == <<profile, down, seen, missed>>
modeVars  == <<mode, nextMode, cursor, nextCursor, online>>
touchVars == <<screen, stray>>
castVars  == <<cast, block>>
vars      == <<inputVars, modeVars, touchVars, task, entry, castVars, fps>>

Todo == {"down", "up", "unblock"}
Task == [pointer : Nat, todo : Seq(Todo)]
Cast == [key : Actions, pointer : Nat, block : BOOLEAN, raced : BOOLEAN]

InputOK == profile \in Profiles /\ down \subseteq DOMAIN profile /\ seen \subseteq Actions /\ missed \subseteq Actions
ModeOK  == /\ mode \in {"Stop", "Normal", "RawInput"} /\ nextMode \in {"Stop", "Normal", "RawInput"}
           /\ cursor \in {"Normal", "Fps"} /\ nextCursor \in {"Normal", "Fps"}
           /\ online \in BOOLEAN
TouchOK == screen \subseteq Nat /\ stray \subseteq screen /\ (~online => screen = {})
TaskOK  == task \in [Slots -> Task \cup {None}]
EntryOK == entry \in [Actions -> Nat \cup {None}]
CastOK  == cast \in Cast \cup {None} /\ block \in BOOLEAN
FpsOK   == fps \in [pointer : Nat, ignore : BOOLEAN]

TypeOK == InputOK /\ ModeOK /\ TouchOK /\ TaskOK /\ EntryOK /\ CastOK /\ FpsOK

Init ==
  /\ profile \in Profiles
  /\ down = {} /\ seen = {} /\ missed = {}
  /\ mode = "Stop" /\ nextMode = "Stop" /\ cursor = "Normal" /\ nextCursor = "Normal"
  /\ online = FALSE /\ screen = {} /\ stray = {}
  /\ task = [s \in Slots |-> None]
  /\ entry = [a \in Actions |-> None]
  /\ cast = None /\ block = FALSE
  /\ fps = [pointer |-> 0, ignore |-> FALSE]

-----------------------------------------------------------------------------
(* Touches and input events.                                                *)

Pointer(a) == profile[a].pointer

\* (variant) the channel delivers without a device.
TouchOffline(ups, downs, orphans) ==
  /\ screen' = (screen \ ups) \cup downs
  /\ stray' = ((stray \ ups) \cup orphans) \cap screen'

\* send_touch: the pointers in ups are lifted, then those in downs put down.
\* Without a receiver the broadcast channel drops the message.  The orphans
\* are pointers nobody will lift any more.
Touch(ups, downs, orphans) ==
  /\ screen' = IF online THEN (screen \ ups) \cup downs ELSE screen
  /\ stray' = ((stray \ ups) \cup orphans) \cap screen'

\* (variant) the raw input handler runs in FPS mode.
RunsInFps(a) ==
  \/ Kind[a] = "Click" /\ mode # "Stop" /\ cursor = "Normal"
  \/ Kind[a] = "Fire" /\ mode = "Normal" /\ cursor = "Fps"
  \/ Kind[a] \notin {"Click", "Fire"} /\ mode = "Normal"

\* The run conditions of the systems.
Runs(a) ==
  \/ Kind[a] = "Click" /\ mode # "Stop" /\ cursor = "Normal"
  \/ Kind[a] = "Fire" /\ mode = "Normal" /\ cursor = "Fps"
  \/ Kind[a] = "RawInput" /\ mode = "Normal" /\ cursor # "Fps"
  \/ Kind[a] \notin {"Click", "Fire", "RawInput"} /\ mode = "Normal"

\* The event of an action in this frame; its handler runs in the same frame
\* or not at all.
Started(a) ==
  /\ a \in DOMAIN profile \ (down \cup seen)
  /\ down' = down \cup {a} /\ seen' = seen \cup {a}
  /\ UNCHANGED profile

Completed(a) ==
  /\ a \in down \ seen
  /\ down' = down \ {a} /\ seen' = seen \cup {a}
  /\ UNCHANGED profile

\* A handler that hears the event.
Pressed(a, kind) ==
  /\ Kind[a] = kind
  /\ Runs(a)
  /\ Started(a)
  /\ missed' = missed \ {a}

Released(a, kind) ==
  /\ Kind[a] = kind
  /\ Runs(a)
  /\ Completed(a)
  /\ UNCHANGED missed

\* spawn_background_task.
Spawn(pointer, todo) ==
  \E s \in Slots :
    /\ task[s] = None /\ \A r \in Slots : task[r] = None => s <= r
    /\ task' = [task EXCEPT ![s] = [pointer |-> pointer, todo |-> todo]]

Has(todo, what) == \E i \in DOMAIN todo : todo[i] = what
Owes(s, what)   == task[s] # None /\ Has(task[s].todo, what)

Store(a, pointer) == entry' = [entry EXCEPT ![a] = pointer]

\* The actions whose release ends what their press began in a map of entries.
Keyed == {a \in Actions : Kind[a] \in {"RepeatTap", "Observation", "Fire", "MouseCast", "PadCast"}}

\* An insert replaces the entry the map held, whose pointer is not lifted.
Replaced(a) == {entry[a]} \ {None, Pointer(a)}

-----------------------------------------------------------------------------
(* What happens to every mapping.                                           *)

\* Nobody hears a press while the handler of the action does not run.  The
\* direction pads are no events: their handler reads what is held.
PressMissed(a) ==
  /\ ~Runs(a) /\ Kind[a] # "DirectionPad" /\ Started(a)
  /\ UNCHANGED <<missed, modeVars, touchVars, task, entry, castVars, fps>>

\* Nor a release: an entry stays, and so does the pointer of a click or of a
\* synchronous tap.
ReleaseMissed(a) ==
  /\ ~Runs(a) /\ Kind[a] # "DirectionPad" /\ Completed(a)
  /\ missed' = missed \cup ({a} \cap Keyed)
  /\ Touch({}, {}, IF Kind[a] \in {"Click", "SyncTap"} THEN {Pointer(a)} ELSE {})
  /\ UNCHANGED <<modeVars, task, entry, castVars, fps>>

\* What a background task does after its sleep, and what it has yet to do.
Rest(s) == IF Len(task[s].todo) = 1 THEN None
           ELSE [pointer |-> task[s].pointer, todo |-> Tail(task[s].todo)]

TaskSends(s) ==
  /\ task[s] # None
  /\ LET p == task[s].pointer
         what == Head(task[s].todo)
     IN /\ Touch(IF what = "up" THEN {p} ELSE {}, IF what = "down" THEN {p} ELSE {}, {})
        /\ block' = (block /\ what # "unblock")
  /\ task' = [task EXCEPT ![s] = Rest(s)]
  /\ UNCHANGED <<inputVars, modeVars, entry, cast, fps>>

\* StateTransition and the next evaluation of the input actions.
EndFrame ==
  /\ seen # {} \/ mode # nextMode \/ cursor # nextCursor
  /\ seen' = {} /\ mode' = nextMode /\ cursor' = nextCursor
  /\ UNCHANGED <<profile, down, missed, nextMode, nextCursor, online,
                 touchVars, task, entry, castVars, fps>>

\* DeviceConnectionChange.  A device that goes forgets its pointers.
Connect ==
  /\ ~online
  /\ online' = TRUE /\ nextMode' = "Normal"
  /\ UNCHANGED <<inputVars, mode, cursor, nextCursor, touchVars, task, entry, castVars, fps>>

Disconnect ==
  /\ online
  /\ online' = FALSE /\ nextMode' = "Stop" /\ nextCursor' = "Normal"
  /\ screen' = {} /\ stray' = {}
  /\ UNCHANGED <<inputVars, mode, cursor, task, entry, castVars, fps>>

Unmapped(a) == Kind[a] = "Click"

\* LoadAndActivateMappingConfig: the input actions are spawned anew, so those
\* held start again or not at all, and end unheard.  The rebuild, deferred to
\* the end of the frame, is taken with the command.
Reload ==
  /\ \E new \in Profiles : <<profile, new>> \in Switches /\ profile' = new
  /\ down' = {a \in down \cap DOMAIN profile' : Unmapped(a)}
  /\ seen' = seen \cup DOMAIN profile'
  /\ missed' = missed \cup (down \cap Keyed) \cup (IF cast = None THEN {} ELSE {cast.key})
  /\ Touch({}, {}, {Pointer(a) : a \in {b \in down \ down' : Kind[b] \in {"Click", "SyncTap"}}})
  /\ UNCHANGED <<modeVars, task, entry, castVars, fps>>
=============================================================================
