------------------------------ MODULE TouchesProofs ---------------------------
(***************************************************************************)
(* The safety properties of Touches, proved for every set of mappings,     *)
(* actions and tasks.                                                      *)
(*                                                                         *)
(* Each invariant is strengthened by what the tasks have yet to send: an   *)
(* Up follows every Down, and a task frees the pads last.                  *)
(***************************************************************************)
EXTENDS Touches, TLAPS

-----------------------------------------------------------------------------
(* Types, and the shapes of what a task has yet to send.                    *)

Shapes    == {<<"up">>, <<"down", "up">>, <<"up", "down", "up">>, <<"down", "up", "down", "up">>,
              <<"up", "unblock">>, <<"unblock">>}
TaskShape == \A s \in Slots : task[s] # None => task[s].todo \in Shapes
Base      == TypeOK /\ TaskShape

LEMMA ShapesType == Shapes \subseteq Seq(Todo)
BY DEF Shapes, Todo

\* A shape is done after its step, or leaves a shape.
LEMMA ShapesStep ==
  ASSUME NEW todo \in Shapes
  PROVE  Len(todo) # 1 => Tail(todo) \in Shapes
<1>1. CASE todo = <<"up">> \/ todo = <<"unblock">>
  BY <1>1
<1>2. CASE todo = <<"down", "up">>
  BY <1>2 DEF Shapes
<1>3. CASE todo = <<"up", "down", "up">>
  BY <1>3 DEF Shapes
<1>4. CASE todo = <<"down", "up", "down", "up">>
  BY <1>4 DEF Shapes
<1>5. CASE todo = <<"up", "unblock">>
  BY <1>5 DEF Shapes
<1>6. QED
  BY <1>1, <1>2, <1>3, <1>4, <1>5 DEF Shapes

LEMMA TouchType ==
  ASSUME TouchOK, online' = online, NEW ups, NEW downs \in SUBSET Nat, NEW orphans, Touch(ups, downs, orphans)
  PROVE  TouchOK'
BY DEF TouchOK, Touch

LEMMA SpawnType ==
  ASSUME TaskOK, TaskShape, NEW p \in Nat, NEW todo \in Shapes, Spawn(p, todo)
  PROVE  TaskOK' /\ TaskShape'
<1>1. PICK s \in Slots : task' = [task EXCEPT ![s] = [pointer |-> p, todo |-> todo]]
  BY DEF Spawn
<1>2. [pointer |-> p, todo |-> todo] \in Task
  BY ShapesType DEF Task
<1>3. QED
  BY <1>1, <1>2 DEF TaskOK, TaskShape

LEMMA PointerType ==
  ASSUME InputOK, NEW a \in DOMAIN profile
  PROVE  a \in Actions /\ Pointer(a) \in Nat /\ profile[a].release \in Releases /\ profile[a].block \in BOOLEAN
BY ProfileAssumption DEF InputOK, Pointer, Mapping

\* An event is one of a mapped action, and keeps the types of the input.
LEMMA EventType ==
  ASSUME InputOK, NEW a \in Actions, Started(a) \/ Completed(a), missed' \subseteq Actions
  PROVE  a \in DOMAIN profile /\ profile' = profile /\ InputOK'
BY DEF InputOK, Started, Completed

LEMMA PressedType ==
  ASSUME InputOK, NEW a \in Actions, NEW kind, Pressed(a, kind) \/ Released(a, kind)
  PROVE  a \in DOMAIN profile /\ profile' = profile /\ InputOK'
<1>1. missed' \subseteq Actions
  BY DEF Pressed, Released, InputOK
<1>2. QED
  BY <1>1, EventType DEF Pressed, Released

\* What is unchanged keeps its type.
LEMMA Unchanged ==
  /\ ModeOK /\ UNCHANGED modeVars => ModeOK' /\ online' = online
  /\ TouchOK /\ UNCHANGED touchVars /\ online' = online => TouchOK'
  /\ TaskOK /\ TaskShape /\ UNCHANGED task => TaskOK' /\ TaskShape'
  /\ EntryOK /\ UNCHANGED entry => EntryOK'
  /\ CastOK /\ UNCHANGED castVars => CastOK'
  /\ FpsOK /\ UNCHANGED fps => FpsOK'
BY DEF ModeOK, modeVars, TouchOK, touchVars, TaskOK, TaskShape, EntryOK, CastOK, castVars, FpsOK

LEMMA TapType ==
  ASSUME Base, NEW a \in Actions, TapNext(a) PROVE Base'
<1> USE Unchanged, PressedType, PointerType DEF Base, TypeOK, others
<1>1. CASE SyncDown(a) \/ SyncUp(a)
  <2>1. InputOK' /\ Pointer(a) \in Nat
    BY <1>1 DEF SyncDown, SyncUp
  <2>2. UNCHANGED <<others, task, entry>> /\ (Touch({}, {Pointer(a)}, {}) \/ Touch({Pointer(a)}, {}, {}))
    BY <1>1 DEF SyncDown, SyncUp
  <2>3. TouchOK'
    BY <2>1, <2>2, TouchType
  <2>4. QED
    BY <2>1, <2>2, <2>3
<1>2. CASE TapDown(a)
  <2>1. InputOK' /\ Pointer(a) \in Nat
    BY <1>2 DEF TapDown
  <2>2. UNCHANGED <<others, entry>> /\ Touch({}, {Pointer(a)}, {}) /\ Spawn(Pointer(a), <<"up">>)
    BY <1>2 DEF TapDown, TapUp
  <2>3. TouchOK' /\ TaskOK' /\ TaskShape'
    BY <2>1, <2>2, TouchType, SpawnType DEF Shapes
  <2>4. QED
    BY <2>1, <2>2, <2>3
<1>3. CASE RepeatTapStarts(a) \/ RepeatTapStops(a)
  <2>1. InputOK' /\ Pointer(a) \in Nat
    BY <1>3 DEF RepeatTapStarts, RepeatTapStops
  <2>2. UNCHANGED <<others, touchVars, task>> /\ (Store(a, Pointer(a)) \/ Store(a, None))
    BY <1>3 DEF RepeatTapStarts, RepeatTapStops
  <2>3. EntryOK'
    BY <2>1, <2>2 DEF Store, EntryOK
  <2>4. QED
    BY <2>1, <2>2, <2>3
<1>4. CASE RepeatTapFires(a)
  <2>1. InputOK' /\ entry[a] \in Nat
    BY <1>4 DEF RepeatTapFires, inputVars, InputOK, EntryOK
  <2>2. UNCHANGED <<others, entry>> /\ Touch({}, {entry[a]}, {}) /\ Spawn(entry[a], <<"up">>)
    BY <1>4 DEF RepeatTapFires, TapUp
  <2>3. TouchOK' /\ TaskOK' /\ TaskShape'
    BY <2>1, <2>2, TouchType, SpawnType DEF Shapes
  <2>4. QED
    BY <2>1, <2>2, <2>3
<1>5. CASE BackgroundStarts(a)
  <2>1. InputOK' /\ Pointer(a) \in Nat
    BY <1>5 DEF BackgroundStarts
  <2>2. UNCHANGED <<others, touchVars, entry>> /\ (Spawn(Pointer(a), MultipleTap) \/ Spawn(Pointer(a), Swipe))
    BY <1>5 DEF BackgroundStarts
  <2>3. TaskOK' /\ TaskShape'
    BY <2>1, <2>2, SpawnType DEF Shapes, MultipleTap, Swipe
  <2>4. QED
    BY <2>1, <2>2, <2>3
<1>6. QED
  BY <1>1, <1>2, <1>3, <1>4, <1>5 DEF TapNext

\* The pointer of a cast, and a new cast.
LEMMA CastType ==
  ASSUME CastOK
  PROVE  /\ cast # None => cast \in Cast
         /\ Unblocked \in BOOLEAN
         /\ \A a \in DOMAIN profile, b \in BOOLEAN : InputOK /\ NewCast(a, b) => cast' \in Cast
<1>1. cast # None => cast \in Cast
  BY DEF CastOK
<1>2. Unblocked \in BOOLEAN
  BY DEF Unblocked
<1>3. ASSUME NEW a \in DOMAIN profile, NEW b \in BOOLEAN, InputOK, NewCast(a, b) PROVE cast' \in Cast
  <2>1. Unblocking \in BOOLEAN
    BY DEF Unblocking
  <2>2. QED
    BY <1>3, <2>1, PointerType DEF NewCast, Cast
<1>4. QED
  BY <1>1, <1>2, <1>3

LEMMA PadType ==
  ASSUME Base, NEW a \in Actions, PadKeys(a) \/ PadStarts(a) \/ PadEnds(a) PROVE Base'
<1> USE Unchanged, PointerType DEF Base, TypeOK
<1>1. CASE PadKeys(a)
  <2>1. InputOK'
    BY <1>1, EventType DEF PadKeys, InputOK
  <2>2. QED
    BY <1>1, <2>1 DEF PadKeys
<1>2. CASE PadStarts(a) \/ PadEnds(a)
  <2>1. InputOK' /\ Pointer(a) \in Nat /\ UNCHANGED <<modeVars, task, castVars, fps>>
    BY <1>2 DEF PadStarts, PadEnds, PadRuns, inputVars, InputOK
  <2>2. EntryOK'
    BY <1>2, <2>1 DEF PadStarts, PadEnds, Store, EntryOK
  <2>3. Touch({}, {Pointer(a)}, {}) \/ Touch({Pointer(a)}, {}, Replaced(a))
    BY <1>2 DEF PadStarts, PadEnds
  <2>4. TouchOK'
    BY <2>1, <2>3, TouchType
  <2>5. QED
    BY <2>1, <2>2, <2>4
<1>3. QED
  BY <1>1, <1>2

LEMMA CastsType ==
  ASSUME Base, NEW a \in Actions, CastNext(a) PROVE Base'
<1> USE Unchanged, PressedType, PointerType DEF Base, TypeOK
<1>1. CASE CastStops(a) \/ CastReleased(a)
  <2>1. InputOK' /\ UNCHANGED <<modeVars, task, entry, fps>> /\ Touch(CastPointer, {}, {})
        /\ cast' = None /\ block' = Unblocked
    BY <1>1 DEF CastStops, CastReleased
  <2>2. TouchOK' /\ CastOK'
    BY <2>1, TouchType, CastType DEF CastOK
  <2>3. QED
    BY <2>1, <2>2
<1>2. CASE MouseCastOnPress(a)
  <2>1. InputOK' /\ Pointer(a) \in Nat /\ UNCHANGED <<modeVars, entry, fps>>
        /\ Touch(CastPointer, {Pointer(a)}, {})
        /\ cast' = None /\ block' = Unblocked /\ Spawn(Pointer(a), <<"up">>)
    BY <1>2 DEF MouseCastOnPress, CastStarts
  <2>2. TouchOK' /\ CastOK' /\ TaskOK' /\ TaskShape'
    BY <2>1, TouchType, CastType, SpawnType DEF CastOK, Shapes
  <2>3. QED
    BY <2>1, <2>2
<1>3. CASE MouseCastStarts(a)
  <2>1. InputOK' /\ a \in DOMAIN profile /\ Pointer(a) \in Nat /\ UNCHANGED <<modeVars, task, entry, fps>>
        /\ Touch(CastPointer, {Pointer(a)}, {})
        /\ NewCast(a, FALSE) /\ block' = Unblocked
    BY <1>3 DEF MouseCastStarts, CastStarts
  <2>2. TouchOK' /\ CastOK'
    BY <2>1, TouchType, CastType DEF CastOK
  <2>3. QED
    BY <2>1, <2>2
<1>4. CASE PadCastStarts(a)
  <2>1. InputOK' /\ a \in DOMAIN profile /\ Pointer(a) \in Nat /\ profile[a].block \in BOOLEAN
        /\ UNCHANGED <<modeVars, task, fps>>
        /\ Touch(CastPointer \cup {entry[d] : d \in Drained(a)}, {Pointer(a)}, {})
        /\ NewCast(a, profile[a].block) /\ block' = (Unblocked \/ profile[a].block)
    BY <1>4 DEF PadCastStarts, CastStarts
  <2>2. EntryOK'
    BY <1>4 DEF PadCastStarts, EntryOK
  <2>3. block' \in BOOLEAN
    BY <2>1
  <2>4. TouchOK' /\ CastOK'
    BY <2>1, <2>3, TouchType, CastType DEF CastOK
  <2>5. QED
    BY <2>1, <2>2, <2>4
<1>5. CASE CastKeyUp(a)
  BY <1>5 DEF CastKeyUp
<1>6. CASE CancelCast(a)
  <2>1. InputOK' /\ UNCHANGED <<modeVars, touchVars, entry, block, fps>> /\ cast' = None
    BY <1>6 DEF CancelCast
  <2>2. TaskOK' /\ TaskShape'
    <3>1. CASE cast = None
      BY <1>6, <3>1 DEF CancelCast
    <3>2. CASE cast # None
      <4>1. cast.pointer \in Nat
        BY <3>2, CastType DEF Cast
      <4>2. Spawn(cast.pointer, <<"up", "unblock">>) \/ Spawn(cast.pointer, <<"up">>)
        BY <1>6, <3>2 DEF CancelCast
      <4>3. QED
        BY <4>1, <4>2, SpawnType DEF Shapes
    <3>3. QED
      BY <3>1, <3>2
  <2>3. CastOK'
    BY <2>1 DEF CastOK
  <2>4. QED
    BY <2>1, <2>2, <2>3
<1>7. QED
  BY <1>1, <1>2, <1>3, <1>4, <1>5, <1>6, PadType DEF CastNext

LEMMA AimType ==
  ASSUME Base, NEW a \in Actions, AimNext(a) PROVE Base'
<1> USE Unchanged, PressedType, PointerType DEF Base, TypeOK
<1> fps.pointer \in Nat
  BY DEF FpsOK
<1>1. CASE EnterFps(a)
  <2>1. InputOK' /\ Pointer(a) \in Nat /\ Touch({}, {Pointer(a)}, {})
        /\ UNCHANGED <<online, task, entry, castVars>>
    BY <1>1 DEF EnterFps
  <2>2. ModeOK' /\ FpsOK'
    BY <1>1, <2>1 DEF EnterFps, ModeOK, FpsOK
  <2>3. TouchOK'
    BY <2>1, TouchType
  <2>4. QED
    BY <2>1, <2>2, <2>3
<1>2. CASE LeaveFps(a)
  <2>1. InputOK' /\ Touch({0}, {}, {fps.pointer} \ {0}) /\ UNCHANGED <<online, task, entry, castVars, fps>>
    BY <1>2 DEF LeaveFps
  <2>2. ModeOK'
    BY <1>2 DEF LeaveFps, ModeOK
  <2>3. TouchOK'
    BY <2>1, TouchType
  <2>4. QED
    BY <2>1, <2>2, <2>3
<1>3. CASE FireStarts(a) \/ FireEnds(a)
  <2>1. InputOK' /\ Pointer(a) \in Nat /\ UNCHANGED <<modeVars, task, castVars>>
    BY <1>3 DEF FireStarts, FireEnds
  <2>2. EntryOK' /\ FpsOK'
    BY <1>3, <2>1 DEF FireStarts, FireEnds, Store, EntryOK, FpsOK
  <2>3. Touch({fps.pointer}, {Pointer(a)}, Replaced(a)) \/ Touch({entry[a]}, {fps.pointer}, Leftover)
    BY <1>3 DEF FireStarts, FireEnds
  <2>4. TouchOK'
    BY <2>1, <2>3, TouchType
  <2>5. QED
    BY <2>1, <2>2, <2>4
<1>4. CASE ObservationStarts(a) \/ ObservationEnds(a)
  <2>1. InputOK' /\ Pointer(a) \in Nat /\ UNCHANGED <<modeVars, task, castVars, fps>>
    BY <1>4 DEF ObservationStarts, ObservationEnds
  <2>2. EntryOK'
    BY <1>4, <2>1 DEF ObservationStarts, ObservationEnds, Store, EntryOK
  <2>3. Touch({}, {Pointer(a)}, Replaced(a)) \/ Touch({entry[a]}, {}, {})
    BY <1>4 DEF ObservationStarts, ObservationEnds
  <2>4. TouchOK'
    BY <2>1, <2>3, TouchType
  <2>5. QED
    BY <2>1, <2>2, <2>4
<1>5. CASE NothingEnds(a) \/ FpsIgnored(a)
  BY <1>5 DEF NothingEnds, FpsIgnored
<1>6. CASE RawInputKeys(a)
  <2>1. InputOK' /\ UNCHANGED <<online, touchVars, task, entry, castVars, fps>>
    BY <1>6 DEF RawInputKeys
  <2>2. ModeOK'
    BY <1>6 DEF RawInputKeys, ModeOK
  <2>3. QED
    BY <2>1, <2>2
<1>7. QED
  BY <1>1, <1>2, <1>3, <1>4, <1>5, <1>6 DEF AimNext

LEMMA MissType ==
  ASSUME Base, NEW a \in Actions, KeyUp(a) \/ PressMissed(a) \/ ReleaseMissed(a) PROVE Base'
<1> USE Unchanged, PressedType, EventType DEF Base, TypeOK
<1>1. CASE KeyUp(a)
  BY <1>1 DEF KeyUp
<1>2. CASE PressMissed(a)
  <2>1. InputOK'
    BY <1>2 DEF PressMissed, InputOK
  <2>2. QED
    BY <1>2, <2>1 DEF PressMissed
<1>3. CASE ReleaseMissed(a)
  <2>1. missed' \subseteq Actions
    BY <1>3 DEF ReleaseMissed, InputOK, Keyed
  <2>2. InputOK'
    BY <1>3, <2>1 DEF ReleaseMissed
  <2>3. UNCHANGED <<modeVars, task, entry, castVars, fps>>
        /\ \E orphans \in {{}, {Pointer(a)}} : Touch({}, {}, orphans)
    BY <1>3 DEF ReleaseMissed
  <2>4. TouchOK'
    BY <2>3, TouchType
  <2>5. QED
    BY <2>2, <2>3, <2>4
<1>4. QED
  BY <1>1, <1>2, <1>3

\* A step of a task.
LEMMA TaskType ==
  ASSUME Base, NEW s \in Slots, TaskSends(s) PROVE Base'
<1> USE Unchanged DEF Base, TypeOK
<1>1. task[s] \in Task /\ task[s].todo \in Shapes /\ UNCHANGED <<inputVars, modeVars, entry, cast, fps>>
  BY DEF TaskSends, TaskOK, TaskShape
<1>2. PICK ups \in SUBSET Nat, downs \in SUBSET Nat : Touch(ups, downs, {})
  BY <1>1 DEF TaskSends, Task
<1>3. TouchOK'
  BY <1>1, <1>2, TouchType
<1>4. task' = [task EXCEPT ![s] = Rest(s)]
  BY DEF TaskSends
<1>5. TaskOK' /\ TaskShape'
  BY <1>1, <1>4, ShapesType, ShapesStep DEF Rest, TaskOK, TaskShape, Task
<1>6. CastOK' /\ InputOK'
  BY <1>1 DEF TaskSends, CastOK, InputOK, inputVars
<1>7. QED
  BY <1>1, <1>3, <1>5, <1>6

LEMMA SharedType ==
  ASSUME Base, Shared PROVE Base'
<1> USE Unchanged DEF Base, TypeOK
<1>1. CASE EndFrame
  BY <1>1 DEF EndFrame, InputOK, ModeOK
<1>2. CASE Connect
  BY <1>2 DEF Connect, InputOK, inputVars, ModeOK, TouchOK, touchVars
<1>3. CASE Disconnect
  BY <1>3 DEF Disconnect, InputOK, inputVars, ModeOK, TouchOK
<1>4. CASE Reload
  <2>1. InputOK'
    BY <1>4, SwitchAssumption, ProfileAssumption DEF Reload, InputOK, Keyed, CastOK, Cast
  <2>2. UNCHANGED <<modeVars, task, entry, castVars, fps>> /\ \E orphans : Touch({}, {}, orphans)
    BY <1>4 DEF Reload
  <2>3. TouchOK'
    BY <2>2, TouchType
  <2>4. QED
    BY <2>1, <2>2, <2>3
<1>5. CASE FpsMoves
  <2>1. Touch({fps.pointer}, {fps.pointer}, Leftover) /\ fps.pointer \in Nat
        /\ UNCHANGED <<inputVars, modeVars, task, entry, castVars, fps>>
    BY <1>5 DEF FpsMoves, FpsOK
  <2>2. TouchOK' /\ InputOK'
    BY <2>1, TouchType DEF InputOK, inputVars
  <2>3. QED
    BY <2>1, <2>2
<1>6. CASE RawInputExits
  BY <1>6 DEF RawInputExits, InputOK, inputVars, ModeOK
<1>7. QED
  BY <1>1, <1>2, <1>3, <1>4, <1>5, <1>6 DEF Shared

LEMMA BaseInit == Init => Base
<1> SUFFICES ASSUME Init PROVE Base  OBVIOUS
<1>1. InputOK /\ ModeOK /\ TouchOK
  BY DEF Init, InputOK, ModeOK, TouchOK
<1>2. TaskOK /\ TaskShape /\ EntryOK
  BY DEF Init, TaskOK, TaskShape, EntryOK
<1>3. CastOK /\ FpsOK
  BY DEF Init, CastOK, FpsOK
<1>4. QED
  BY <1>1, <1>2, <1>3 DEF Base, TypeOK

LEMMA BaseStep == Base /\ [Next]_vars => Base'
<1> SUFFICES ASSUME Base, [Next]_vars PROVE Base'  OBVIOUS
<1>1. CASE UNCHANGED vars
  BY <1>1, Unchanged DEF Base, TypeOK, vars, inputVars, InputOK, modeVars
<1>2. CASE Next
  BY <1>2, TapType, CastsType, AimType, MissType, TaskType, SharedType DEF Next, Key
<1>3. QED
  BY <1>1, <1>2

\* Every variable keeps its type, and nothing is down on a device that is gone.
THEOREM TypeCorrect == Spec => []TypeOK
<1>1. Base => TypeOK
  BY DEF Base
<1>2. QED
  BY BaseInit, BaseStep, <1>1, PTL DEF Spec

-----------------------------------------------------------------------------
(* The keys: what an event does to them.                                    *)

LEMMA Keys ==
  ASSUME NEW a \in Actions, NEW kind
  PROVE  /\ Pressed(a, kind) => /\ Kind[a] = kind /\ down' = down \cup {a} /\ missed' = missed \ {a}
                                /\ a \in DOMAIN profile \ seen /\ profile' = profile
         /\ Released(a, kind) => /\ Kind[a] = kind /\ down' = down \ {a} /\ missed' = missed
                                 /\ profile' = profile
BY DEF Pressed, Released, Started, Completed

-----------------------------------------------------------------------------
(* Raw input and the FPS mode.                                              *)

ModesInv ==
  nextMode = "RawInput" /\ nextCursor = "Fps"
    => (mode = "RawInput" /\ cursor = "Fps") \/ (mode = "Normal" /\ cursor = "Normal")

\* Who changes a mode.
LEMMA ModeSteps ==
  Next => \/ UNCHANGED modeVars
          \/ \E a \in Actions : EnterFps(a) \/ LeaveFps(a) \/ RawInputKeys(a)
          \/ EndFrame \/ Connect \/ Disconnect \/ RawInputExits
<1> SUFFICES ASSUME NEW a \in Actions, Key(a) PROVE UNCHANGED modeVars \/ EnterFps(a) \/ LeaveFps(a) \/ RawInputKeys(a)
  BY DEF Next, Shared, TaskSends, Reload, FpsMoves
<1>1. TapNext(a) => UNCHANGED modeVars
  BY DEF TapNext, SyncDown, SyncUp, TapDown, RepeatTapStarts, RepeatTapStops, RepeatTapFires, BackgroundStarts, others
<1>2. CastNext(a) => UNCHANGED modeVars
  BY DEF CastNext, PadKeys, PadStarts, PadEnds, PadRuns, CastStops, MouseCastOnPress, MouseCastStarts,
         PadCastStarts, CastReleased, CastKeyUp, CancelCast
<1>3. AimNext(a) => UNCHANGED modeVars \/ EnterFps(a) \/ LeaveFps(a) \/ RawInputKeys(a)
  BY DEF AimNext, FpsIgnored, FireStarts, FireEnds, ObservationStarts, ObservationEnds, NothingEnds
<1>4. KeyUp(a) \/ PressMissed(a) \/ ReleaseMissed(a) => UNCHANGED modeVars
  BY DEF KeyUp, PressMissed, ReleaseMissed
<1>5. QED
  BY <1>1, <1>2, <1>3, <1>4 DEF Key

LEMMA ModesStep == Base /\ ModesInv /\ [Next]_vars => ModesInv'
<1> SUFFICES ASSUME Base, ModesInv, [Next]_vars PROVE ModesInv'  OBVIOUS
<1> USE DEF ModesInv
<1>1. CASE UNCHANGED modeVars
  BY <1>1 DEF modeVars
<1>2. ASSUME NEW a \in Actions, EnterFps(a) PROVE ModesInv'
  BY <1>2 DEF EnterFps, Pressed, Runs
<1>3. ASSUME NEW a \in Actions, LeaveFps(a) PROVE ModesInv'
  BY <1>3 DEF LeaveFps
<1>4. ASSUME NEW a \in Actions, RawInputKeys(a) PROVE ModesInv'
  BY <1>4 DEF RawInputKeys, Released, Runs, Base, TypeOK, ModeOK
<1>5. CASE EndFrame
  BY <1>5 DEF EndFrame
<1>6. CASE Connect \/ Disconnect \/ RawInputExits
  BY <1>6 DEF Connect, Disconnect, RawInputExits
<1>7. QED
  BY <1>1, <1>2, <1>3, <1>4, <1>5, <1>6, ModeSteps DEF vars

\* Raw input and the FPS mode come on together only when their keys were
\* handled in one frame.
THEOREM ModesMeetOnce == Spec => ModesMeet
<1>1. Init => ModesInv
  BY DEF Init, ModesInv
<1> DEFINE Both == mode' = "RawInput" /\ cursor' = "Fps" /\ <<mode, cursor>> # <<"RawInput", "Fps">>
<1>2. Base /\ ModesInv /\ [Next]_vars => [Both => mode = "Normal" /\ cursor = "Normal"]_vars
  <2> SUFFICES ASSUME Base, ModesInv, Next, Both PROVE mode = "Normal" /\ cursor = "Normal"  OBVIOUS
  <2>1. CASE EndFrame
    BY <2>1 DEF EndFrame, ModesInv
  <2>2. CASE ~EndFrame
    <3>1. UNCHANGED <<mode, cursor>>
      BY <2>2, ModeSteps DEF modeVars, EnterFps, LeaveFps, RawInputKeys, Connect, Disconnect, RawInputExits
    <3>2. QED
      BY <3>1
  <2>3. QED
    BY <2>1, <2>2
<1>3. QED
  BY BaseInit, BaseStep, ModesStep, <1>1, <1>2, PTL DEF Spec, ModesMeet

-----------------------------------------------------------------------------
(* The entries and their keys.                                              *)

Spells   == {"MouseCast", "PadCast"}
EntryInv == EntryHeld /\ (cast # None => Kind[cast.key] \in Spells)

LEMMA EntryStep == Base /\ EntryInv /\ [Next]_vars => EntryInv'
<1> SUFFICES ASSUME Base, EntryInv, [Next]_vars PROVE EntryInv'  OBVIOUS
<1> USE Keys DEF EntryInv, EntryHeld, Spells
<1>1. CASE UNCHANGED vars
  BY <1>1 DEF vars, inputVars, castVars
<1>2. ASSUME NEW a \in Actions, TapNext(a) PROVE EntryInv'
  <2>1. UNCHANGED cast
    BY <1>2 DEF TapNext, SyncDown, SyncUp, TapDown, RepeatTapStarts, RepeatTapStops, RepeatTapFires,
       BackgroundStarts, others, castVars
  <2>2. CASE SyncDown(a) \/ SyncUp(a) \/ TapDown(a) \/ BackgroundStarts(a)
    BY <2>1, <2>2 DEF SyncDown, SyncUp, Holding, TapDown, BackgroundStarts
  <2>3. CASE RepeatTapStarts(a) \/ RepeatTapStops(a)
    BY <2>1, <2>3 DEF RepeatTapStarts, RepeatTapStops, Store, Base, TypeOK, EntryOK
  <2>4. CASE RepeatTapFires(a)
    BY <2>1, <2>4 DEF RepeatTapFires, inputVars
  <2>5. QED
    BY <1>2, <2>2, <2>3, <2>4 DEF TapNext
<1>3. ASSUME NEW a \in Actions, CastNext(a) PROVE EntryInv'
  <2>1. CASE PadKeys(a)
    BY <1>3, <2>1 DEF PadKeys, castVars, Started, Completed
  <2>2. CASE PadStarts(a) \/ PadEnds(a)
    BY <1>3, <2>2 DEF PadStarts, PadEnds, PadRuns, castVars, inputVars, Store, Base, TypeOK, EntryOK
  <2>3. CASE CastStops(a) \/ CastReleased(a)
    BY <1>3, <2>3 DEF CastStops, CastReleased
  <2>4. CASE MouseCastOnPress(a)
    BY <1>3, <2>4 DEF MouseCastOnPress, CastStarts
  <2>5. CASE MouseCastStarts(a)
    BY <1>3, <2>5 DEF MouseCastStarts, CastStarts, NewCast
  <2>6. CASE PadCastStarts(a)
    BY <1>3, <2>6 DEF PadCastStarts, CastStarts, NewCast
  <2>7. CASE CastKeyUp(a)
    BY <1>3, <2>7 DEF CastKeyUp, castVars, Casting
  <2>8. CASE CancelCast(a)
    BY <1>3, <2>8 DEF CancelCast
  <2>9. QED
    BY <1>3, <2>1, <2>2, <2>3, <2>4, <2>5, <2>6, <2>7, <2>8 DEF CastNext
<1>4. ASSUME NEW a \in Actions, AimNext(a) PROVE EntryInv'
  <2>1. UNCHANGED cast
    BY <1>4 DEF AimNext, EnterFps, LeaveFps, FpsIgnored, FireStarts, FireEnds, ObservationStarts,
       ObservationEnds, NothingEnds, RawInputKeys, castVars
  <2>2. CASE EnterFps(a) \/ LeaveFps(a) \/ FpsIgnored(a) \/ RawInputKeys(a)
    BY <2>1, <2>2 DEF EnterFps, LeaveFps, FpsIgnored, RawInputKeys
  <2>3. CASE FireStarts(a) \/ FireEnds(a) \/ ObservationStarts(a) \/ ObservationEnds(a)
    BY <2>1, <2>3 DEF FireStarts, FireEnds, ObservationStarts, ObservationEnds, Store, Base, TypeOK, EntryOK
  <2>4. CASE NothingEnds(a)
    BY <2>1, <2>4 DEF NothingEnds
  <2>5. QED
    BY <1>4, <2>2, <2>3, <2>4 DEF AimNext
<1>5. ASSUME NEW a \in Actions, KeyUp(a) \/ PressMissed(a) \/ ReleaseMissed(a) PROVE EntryInv'
  BY <1>5 DEF KeyUp, PressMissed, ReleaseMissed, Started, Completed, Keyed, castVars
<1>6. ASSUME NEW s \in Slots, TaskSends(s) PROVE EntryInv'
  BY <1>6 DEF TaskSends, inputVars
<1>7. CASE EndFrame \/ Connect \/ Disconnect \/ FpsMoves \/ RawInputExits
  BY <1>7 DEF EndFrame, Connect, Disconnect, FpsMoves, RawInputExits, inputVars, castVars
<1>8. CASE Reload
  BY <1>8 DEF Reload, Keyed, castVars, Base, TypeOK, CastOK, Cast
<1>9. QED
  BY <1>1, <1>2, <1>3, <1>4, <1>5, <1>6, <1>7, <1>8 DEF Next, Key, Shared

\* An entry, and a cast that ends with its key, last as long as the key is
\* held, unless its release was not heard.
THEOREM EntriesHeld == Spec => []EntryHeld
<1>1. Init => EntryInv
  BY DEF Init, EntryInv, EntryHeld
<1>2. EntryInv => EntryHeld
  BY DEF EntryInv
<1>3. QED
  BY BaseInit, BaseStep, EntryStep, <1>1, <1>2, PTL DEF Spec

-----------------------------------------------------------------------------
(* What the tasks will send.                                                *)

\* A task lifts what it puts down, and what it has yet to do it still has
\* after another step; it frees the pads last.
LEMMA ShapesOwe ==
  ASSUME NEW todo \in Shapes
  PROVE  /\ Head(todo) = "down" => Len(todo) # 1 /\ Has(Tail(todo), "up")
         /\ Head(todo) = "unblock" => Len(todo) = 1 /\ ~Has(todo, "up")
         /\ Has(todo, "unblock") /\ Head(todo) # "unblock" => Len(todo) # 1 /\ Has(Tail(todo), "unblock")
         /\ Len(todo) # 1 /\ ~Has(todo, "unblock") => ~Has(Tail(todo), "unblock")
         /\ Head(todo) \in {"down", "up", "unblock"}
<1> USE DEF Has
<1>1. CASE todo = <<"up">>
  BY <1>1
<1>2. CASE todo = <<"unblock">>
  BY <1>2
<1>3. CASE todo = <<"down", "up">>
  <2>1. Tail(todo) = <<"up">> /\ Head(todo) = "down" /\ Len(todo) = 2
    BY <1>3
  <2>2. QED
    BY <1>3, <2>1
<1>4. CASE todo = <<"up", "down", "up">>
  <2>1. Tail(todo) = <<"down", "up">> /\ Head(todo) = "up" /\ Len(todo) = 3
    BY <1>4
  <2>2. QED
    BY <1>4, <2>1
<1>5. CASE todo = <<"down", "up", "down", "up">>
  <2>1. Tail(todo) = <<"up", "down", "up">> /\ Head(todo) = "down" /\ Len(todo) = 4
    BY <1>5
  <2>2. Has(Tail(todo), "up") /\ ~Has(todo, "unblock")
    BY <1>5, <2>1
  <2>3. ~Has(<<"up", "down", "up">>, "unblock")
    OBVIOUS
  <2>4. QED
    BY <2>1, <2>2, <2>3
<1>6. CASE todo = <<"up", "unblock">>
  <2>1. Tail(todo) = <<"unblock">> /\ Head(todo) = "up" /\ Len(todo) = 2
    BY <1>6
  <2>2. QED
    BY <1>6, <2>1
<1>7. QED
  BY <1>1, <1>2, <1>3, <1>4, <1>5, <1>6 DEF Shapes

\* A new task adds to what the tasks will send, and takes nothing away.
LEMMA SpawnOwes ==
  ASSUME TaskOK, NEW p \in Nat, NEW todo \in Shapes, Spawn(p, todo)
  PROVE  /\ Unblocking' <=> Unblocking \/ Has(todo, "unblock")
         /\ \A q : TaskLifts(q) => TaskLifts(q)'
         /\ Has(todo, "up") => \A q : q = p => TaskLifts(q)'
<1>1. PICK s \in Slots : task[s] = None /\ task' = [task EXCEPT ![s] = [pointer |-> p, todo |-> todo]]
  BY DEF Spawn
<1>2. [pointer |-> p, todo |-> todo] # None
  BY NoneAssumption, ShapesType DEF Todo
<1>3. \A r \in Slots \ {s} : task'[r] = task[r]
  BY <1>1 DEF TaskOK
<1>4. task'[s].pointer = p /\ task'[s].todo = todo /\ task'[s] # None
  BY <1>1, <1>2 DEF TaskOK
<1>5. QED
  BY <1>1, <1>3, <1>4 DEF Unblocking, TaskLifts, Owes

LEMMA TapHas ==
  /\ Has(<<"up">>, "up") /\ ~Has(<<"up">>, "unblock")
  /\ Has(<<"up", "unblock">>, "up") /\ Has(<<"up", "unblock">>, "unblock")
  /\ ~Has(MultipleTap, "unblock") /\ ~Has(Swipe, "unblock")
BY DEF Has, MultipleTap, Swipe

-----------------------------------------------------------------------------
(* The direction pads and the casts that block them.                        *)

\* A blocking cast that has not raced the end of an older one blocks the pads,
\* and nothing but its own end will free them.
BlockInv ==
  /\ BlockOwned /\ CastBlocksPads
  /\ cast # None /\ cast.block /\ ~cast.raced => ~Unblocking

\* What a step that leaves the casts alone keeps.
LEMMA BlockKept ==
  ASSUME BlockInv, UNCHANGED <<cast, block>>, Unblocking' <=> Unblocking,
         block => \A a \in Actions : Kind[a] = "DirectionPad" => entry'[a] = entry[a] \/ entry'[a] = None
  PROVE  BlockInv'
BY DEF BlockInv, BlockOwned, CastBlocksPads

LEMMA SameTasks == UNCHANGED task => (Unblocking' <=> Unblocking)
BY DEF Unblocking, Owes

LEMMA NewCastStarts ==
  ASSUME Base, NEW a \in Actions, NEW kind, CastStarts(a, kind), NEW b \in BOOLEAN, NewCast(a, b)
  PROVE  cast' # None /\ cast'.block = b /\ cast'.raced = Unblocking /\ cast'.pointer = Pointer(a)
<1>1. cast' \in Cast
  BY PressedType, CastType DEF CastStarts, Base, TypeOK
<1>2. QED
  BY <1>1, NoneAssumption DEF Cast, NewCast

LEMMA BlockTap ==
  ASSUME Base, BlockInv, NEW a \in Actions, TapNext(a) PROVE BlockInv'
<1>1. UNCHANGED <<cast, block>>
  BY DEF TapNext, SyncDown, SyncUp, TapDown, RepeatTapStarts, RepeatTapStops, RepeatTapFires,
     BackgroundStarts, others, castVars
<1>2. \A b \in Actions : Kind[b] = "DirectionPad" => entry'[b] = entry[b]
  BY Keys DEF TapNext, SyncDown, SyncUp, TapDown, RepeatTapStarts, RepeatTapStops, RepeatTapFires,
     BackgroundStarts, Store, Base, TypeOK, EntryOK
<1>3. Unblocking' <=> Unblocking
  <2>1. CASE SyncDown(a) \/ SyncUp(a) \/ RepeatTapStarts(a) \/ RepeatTapStops(a)
    BY <2>1, SameTasks DEF SyncDown, SyncUp, RepeatTapStarts, RepeatTapStops
  <2>2. CASE TapDown(a)
    <3>1. Pointer(a) \in Nat /\ Spawn(Pointer(a), <<"up">>)
      BY <2>2, PressedType, PointerType DEF TapDown, TapUp, Base, TypeOK
    <3>2. QED
      BY <3>1, SpawnOwes, TapHas DEF Shapes, Base, TypeOK
  <2>3. CASE RepeatTapFires(a)
    <3>1. entry[a] \in Nat /\ Spawn(entry[a], <<"up">>)
      BY <2>3 DEF RepeatTapFires, TapUp, Base, TypeOK, EntryOK
    <3>2. QED
      BY <3>1, SpawnOwes, TapHas DEF Shapes, Base, TypeOK
  <2>4. CASE BackgroundStarts(a)
    <3>1. Pointer(a) \in Nat /\ (Spawn(Pointer(a), MultipleTap) \/ Spawn(Pointer(a), Swipe))
      BY <2>4, PressedType, PointerType DEF BackgroundStarts, Base, TypeOK
    <3>2. MultipleTap \in Shapes /\ Swipe \in Shapes
      BY DEF Shapes, MultipleTap, Swipe
    <3>3. QED
      BY <3>1, <3>2, SpawnOwes, TapHas DEF Base, TypeOK
  <2>5. QED
    BY <2>1, <2>2, <2>3, <2>4 DEF TapNext
<1>4. QED
  BY <1>1, <1>2, <1>3, BlockKept

LEMMA BlockCast ==
  ASSUME Base, BlockInv, NEW a \in Actions, CastNext(a) PROVE BlockInv'
<1>1. CASE PadKeys(a) \/ CastKeyUp(a)
  BY <1>1, SameTasks, BlockKept DEF PadKeys, CastKeyUp, castVars
<1>2. CASE PadStarts(a) \/ PadEnds(a)
  BY <1>2, SameTasks, BlockKept DEF PadStarts, PadEnds, PadRuns, castVars
<1>3. CASE CastStops(a) \/ CastReleased(a)
  <2>1. cast' = None /\ block' = Unblocked /\ UNCHANGED task
    BY <1>3 DEF CastStops, CastReleased
  <2>2. QED
    BY <2>1, SameTasks DEF BlockInv, BlockOwned, CastBlocksPads, Unblocked
<1>4. CASE MouseCastOnPress(a)
  <2>1. cast' = None /\ block' = Unblocked /\ Pointer(a) \in Nat /\ Spawn(Pointer(a), <<"up">>)
    BY <1>4, PressedType, PointerType DEF MouseCastOnPress, CastStarts, Base, TypeOK
  <2>2. Unblocking' <=> Unblocking
    BY <2>1, SpawnOwes, TapHas DEF Shapes, Base, TypeOK
  <2>3. QED
    BY <2>1, <2>2 DEF BlockInv, BlockOwned, CastBlocksPads, Unblocked
<1>5. CASE MouseCastStarts(a)
  <2>1. cast' # None /\ ~cast'.block /\ block' = Unblocked /\ UNCHANGED task
    BY <1>5, NewCastStarts DEF MouseCastStarts
  <2>2. QED
    BY <2>1, SameTasks DEF BlockInv, BlockOwned, CastBlocksPads, Unblocked
<1>6. CASE PadCastStarts(a)
  <2>1. /\ cast' # None /\ cast'.block = profile[a].block /\ cast'.raced = Unblocking
        /\ block' = (Unblocked \/ profile[a].block) /\ UNCHANGED task
    <3>1. profile[a].block \in BOOLEAN
      BY <1>6, PressedType, PointerType DEF PadCastStarts, CastStarts, Base, TypeOK
    <3>2. QED
      BY <1>6, <3>1, NewCastStarts DEF PadCastStarts
  <2>2. profile[a].block => \A b \in Actions : Kind[b] = "DirectionPad" => entry'[b] = None
    BY <1>6 DEF PadCastStarts, Drained, Base, TypeOK, EntryOK
  <2>3. QED
    BY <2>1, <2>2, SameTasks DEF BlockInv, BlockOwned, CastBlocksPads, Unblocked
<1>7. CASE CancelCast(a)
  <2>1. cast' = None /\ UNCHANGED block
    BY <1>7 DEF CancelCast
  <2>2. block => Unblocking'
    <3>1. CASE cast = None
      BY <1>7, <3>1, SameTasks DEF CancelCast, BlockInv, BlockOwned
    <3>2. CASE cast # None
      <4>1. cast.pointer \in Nat
        BY <3>2, CastType DEF Cast, Base, TypeOK
      <4>2. Spawn(cast.pointer, IF cast.block THEN <<"up", "unblock">> ELSE <<"up">>)
        BY <1>7, <3>2 DEF CancelCast
      <4>3. QED
        BY <3>2, <4>1, <4>2, SpawnOwes, TapHas DEF Shapes, Base, TypeOK, BlockInv, BlockOwned
    <3>3. QED
      BY <3>1, <3>2
  <2>3. QED
    BY <2>1, <2>2 DEF BlockInv, BlockOwned, CastBlocksPads
<1>8. QED
  BY <1>1, <1>2, <1>3, <1>4, <1>5, <1>6, <1>7 DEF CastNext

LEMMA RestType ==
  ASSUME Base, NEW s \in Slots, task[s] # None, Len(task[s].todo) # 1 PROVE Rest(s) # None
<1>1. task[s].pointer \in Nat /\ Tail(task[s].todo) \in Seq(Todo)
  BY ShapesStep, ShapesType DEF Base, TypeOK, TaskOK, TaskShape, Task
<1> DEFINE rest == [pointer |-> task[s].pointer, todo |-> Tail(task[s].todo)]
<1>2. rest \in [pointer : Nat, todo : Seq({"down", "up", "unblock"})]
  BY <1>1 DEF Todo
<1>3. rest # None
  BY <1>2, NoneAssumption
<1>4. QED
  BY <1>3 DEF Rest

LEMMA BlockTask ==
  ASSUME Base, BlockInv, NEW s \in Slots, TaskSends(s) PROVE BlockInv'
<1>1. /\ task[s] # None /\ task[s].todo \in Shapes /\ task' = [task EXCEPT ![s] = Rest(s)]
      /\ UNCHANGED <<cast, entry>> /\ block' = (block /\ Head(task[s].todo) # "unblock")
  BY DEF TaskSends, Base, TaskShape
<1>2. \A r \in Slots : task'[r] = IF r = s THEN Rest(s) ELSE task[r]
  BY <1>1 DEF Base, TypeOK, TaskOK
<1>3. Len(task[s].todo) # 1 => Rest(s).todo = Tail(task[s].todo)
  BY DEF Rest
<1>4. Unblocking' => Unblocking
  <2>1. \A r \in Slots : Owes(r, "unblock")' => Owes(r, "unblock")
    BY <1>1, <1>2, <1>3, ShapesOwe DEF Owes, Rest
  <2>2. QED
    BY <2>1 DEF Unblocking
<1>5. CASE Head(task[s].todo) = "unblock"
  <2>1. Unblocking
    BY <1>1, <1>5, ShapesOwe DEF Unblocking, Owes, Has, Shapes
  <2>2. QED
    BY <1>1, <1>5, <2>1 DEF BlockInv, BlockOwned, CastBlocksPads
<1>6. CASE Head(task[s].todo) # "unblock"
  <2>1. Owes(s, "unblock") => Owes(s, "unblock")'
    <3>1. Owes(s, "unblock") => Len(task[s].todo) # 1 /\ Has(Tail(task[s].todo), "unblock")
      BY <1>1, <1>6, ShapesOwe DEF Owes
    <3>2. Len(task[s].todo) # 1 => Rest(s) # None
      BY <1>1, RestType
    <3>3. QED
      BY <1>2, <1>3, <3>1, <3>2 DEF Owes
  <2>2. Unblocking => Unblocking'
    BY <1>2, <2>1 DEF Unblocking, Owes
  <2>3. QED
    BY <1>1, <1>4, <1>6, <2>2, BlockKept DEF Base, TypeOK, CastOK
<1>7. QED
  BY <1>5, <1>6

LEMMA BlockStep == Base /\ BlockInv /\ [Next]_vars => BlockInv'
<1> SUFFICES ASSUME Base, BlockInv, [Next]_vars PROVE BlockInv'  OBVIOUS
<1>1. CASE UNCHANGED vars
  BY <1>1, SameTasks, BlockKept DEF vars, castVars
<1>2. ASSUME NEW a \in Actions, AimNext(a) PROVE BlockInv'
  <2>1. UNCHANGED <<cast, block, task>>
    BY <1>2 DEF AimNext, EnterFps, LeaveFps, FpsIgnored, FireStarts, FireEnds, ObservationStarts,
       ObservationEnds, NothingEnds, RawInputKeys, castVars
  <2>2. \A b \in Actions : Kind[b] = "DirectionPad" => entry'[b] = entry[b]
    BY <1>2, Keys DEF AimNext, EnterFps, LeaveFps, FpsIgnored, FireStarts, FireEnds, ObservationStarts,
       ObservationEnds, NothingEnds, RawInputKeys, Store, Base, TypeOK, EntryOK
  <2>3. QED
    BY <2>1, <2>2, SameTasks, BlockKept
<1>3. ASSUME NEW a \in Actions, KeyUp(a) \/ PressMissed(a) \/ ReleaseMissed(a) PROVE BlockInv'
  BY <1>3, SameTasks, BlockKept DEF KeyUp, PressMissed, ReleaseMissed, castVars
<1>4. CASE Shared
  BY <1>4, SameTasks, BlockKept DEF Shared, EndFrame, Connect, Disconnect, Reload, FpsMoves, RawInputExits, castVars
<1>5. QED
  BY <1>1, <1>2, <1>3, <1>4, BlockTap, BlockCast, BlockTask DEF Next, Key

LEMMA BlockInit == Init => BlockInv
BY DEF Init, BlockInv, BlockOwned, CastBlocksPads

\* The pads are blocked only while a cast that blocks them is active, or its
\* cancellation has yet to free them.
THEOREM BlocksOwned == Spec => []BlockOwned
<1>1. BlockInv => BlockOwned
  BY DEF BlockInv
<1>2. QED
  BY BaseInit, BaseStep, BlockInit, BlockStep, <1>1, PTL DEF Spec

\* While a blocking cast is active no pad is, unless the cast began before the
\* task of a cancelled one had freed the pads.
THEOREM CastsBlock == Spec => []CastBlocksPads
<1>1. BlockInv => CastBlocksPads
  BY DEF BlockInv
<1>2. QED
  BY BaseInit, BaseStep, BlockInit, BlockStep, <1>1, PTL DEF Spec

-----------------------------------------------------------------------------
(* The pointers that are down and who lifts them.                           *)

\* What is unchanged lifts what it lifted.
LEMMA Lifts ==
  /\ UNCHANGED task => \A p : TaskLifts(p)' <=> TaskLifts(p)
  /\ UNCHANGED cast => \A p : CastLifts(p)' <=> CastLifts(p)
  /\ UNCHANGED entry => \A p : EntryLifts(p)' <=> EntryLifts(p)
  /\ UNCHANGED <<nextCursor, fps>> => \A p : FpsLifts(p)' <=> FpsLifts(p)
  /\ UNCHANGED <<down, profile>> => \A p : KeyLifts(p)' <=> KeyLifts(p)
BY DEF TaskLifts, Owes, CastLifts, EntryLifts, FpsLifts, KeyLifts, Pointer

LEMMA KeyLiftsEvent ==
  ASSUME NEW a \in Actions, NEW kind
  PROVE  /\ Pressed(a, kind) => \A p : KeyLifts(p) => KeyLifts(p)'
         /\ Released(a, kind) => \A p : KeyLifts(p) /\ (kind \notin Holding \/ p # Pointer(a)) => KeyLifts(p)'
         /\ Pressed(a, kind) /\ kind \in Holding => \A p : p = Pointer(a) => KeyLifts(p)'
BY Keys DEF KeyLifts, Pointer

\* A step that sends touches: what it puts down must have an owner, and what
\* had one keeps one, unless it is lifted or recorded as an orphan.
LEMMA DownKept ==
  ASSUME TouchOK, TouchOK', DownOwned, online' = online,
         NEW ups, NEW downs, NEW orphans, Touch(ups, downs, orphans),
         \A p \in downs \ orphans : Owned(p)',
         \A p : Owned(p) /\ p \notin ups \cup orphans => Owned(p)'
  PROVE  DownOwned'
<1> SUFFICES ASSUME NEW p \in screen' \ stray' PROVE Owned(p)'
  BY DEF DownOwned
<1>1. p \in downs \ orphans \/ (p \in screen \ stray /\ p \notin ups \cup orphans)
  BY DEF Touch, TouchOK
<1>2. QED
  BY <1>1 DEF DownOwned

\* A step that sends none.
LEMMA DownSame ==
  ASSUME DownOwned, UNCHANGED touchVars, \A p : Owned(p) => Owned(p)'
  PROVE  DownOwned'
BY DEF DownOwned, touchVars

LEMMA TapOwned ==
  ASSUME Base, Base', DownOwned, NEW a \in Actions, TapNext(a) PROVE DownOwned'
<1> USE DEF Base, TypeOK
<1>1. UNCHANGED <<cast, nextCursor, fps, online>>
  BY DEF TapNext, SyncDown, SyncUp, TapDown, RepeatTapStarts, RepeatTapStops, RepeatTapFires,
     BackgroundStarts, others, castVars, modeVars
<1>2. \A p : EntryLifts(p) => EntryLifts(p)'
  BY Keys DEF EntryLifts, EntryOK, TapNext, SyncDown, SyncUp, TapDown, RepeatTapStarts, RepeatTapStops,
     RepeatTapFires, BackgroundStarts, Store
<1>3. CASE SyncDown(a)
  <2>1. \A p : Owned(p) => Owned(p)'
    BY <1>1, <1>2, <1>3, Lifts, KeyLiftsEvent DEF SyncDown, Owned
  <2>2. \A p : p = Pointer(a) => Owned(p)'
    BY <1>3, KeyLiftsEvent DEF SyncDown, Owned
  <2>3. QED
    BY <1>1, <1>3, <2>1, <2>2, DownKept DEF SyncDown
<1>4. CASE SyncUp(a)
  <2>1. \A p : Owned(p) /\ p # Pointer(a) => Owned(p)'
    BY <1>1, <1>2, <1>4, Lifts, KeyLiftsEvent DEF SyncUp, Owned
  <2>2. QED
    BY <1>1, <1>4, <2>1, DownKept DEF SyncUp
<1>5. CASE TapDown(a)
  <2>1. Pointer(a) \in Nat /\ Spawn(Pointer(a), <<"up">>) /\ <<"up">> \in Shapes
    BY <1>5, PressedType, PointerType DEF TapDown, TapUp, Shapes
  <2>2. \A p : Owned(p) => Owned(p)'
    BY <1>1, <1>2, <1>5, <2>1, SpawnOwes, Lifts, KeyLiftsEvent DEF TapDown, Owned
  <2>3. \A p : p = Pointer(a) => Owned(p)'
    BY <2>1, SpawnOwes, TapHas DEF Owned
  <2>4. QED
    BY <1>1, <1>5, <2>2, <2>3, DownKept DEF TapDown
<1>6. CASE RepeatTapStarts(a) \/ RepeatTapStops(a)
  <2>1. \A p : Owned(p) => Owned(p)'
    BY <1>1, <1>2, <1>6, Lifts, KeyLiftsEvent DEF RepeatTapStarts, RepeatTapStops, Owned, Holding
  <2>2. QED
    BY <1>6, <2>1, DownSame DEF RepeatTapStarts, RepeatTapStops
<1>7. CASE RepeatTapFires(a)
  <2>1. entry[a] \in Nat /\ Spawn(entry[a], <<"up">>) /\ <<"up">> \in Shapes
    BY <1>7 DEF RepeatTapFires, TapUp, Shapes, EntryOK
  <2>2. \A p : Owned(p) => Owned(p)'
    BY <1>1, <1>2, <1>7, <2>1, SpawnOwes, Lifts DEF RepeatTapFires, inputVars, Owned
  <2>3. \A p : p = entry[a] => Owned(p)'
    BY <2>1, SpawnOwes, TapHas DEF Owned
  <2>4. QED
    BY <1>1, <1>7, <2>2, <2>3, DownKept DEF RepeatTapFires
<1>8. CASE BackgroundStarts(a)
  <2>1. Pointer(a) \in Nat /\ (Spawn(Pointer(a), MultipleTap) \/ Spawn(Pointer(a), Swipe))
    BY <1>8, PressedType, PointerType DEF BackgroundStarts
  <2>2. MultipleTap \in Shapes /\ Swipe \in Shapes
    BY DEF Shapes, MultipleTap, Swipe
  <2>3. \A p : Owned(p) => Owned(p)'
    BY <1>1, <1>2, <1>8, <2>1, <2>2, SpawnOwes, Lifts, KeyLiftsEvent DEF BackgroundStarts, Owned
  <2>4. QED
    BY <1>8, <2>3, DownSame DEF BackgroundStarts
<1>9. QED
  BY <1>3, <1>4, <1>5, <1>6, <1>7, <1>8 DEF TapNext

LEMMA CastOwned ==
  ASSUME Base, Base', DownOwned, NEW a \in Actions, CastNext(a) PROVE DownOwned'
<1> USE DEF Base, TypeOK
<1>1. UNCHANGED <<nextCursor, fps, online>>
  BY DEF CastNext, PadKeys, PadStarts, PadEnds, PadRuns, CastStops, MouseCastOnPress, MouseCastStarts,
     PadCastStarts, CastReleased, CastKeyUp, CancelCast, modeVars
<1>2. CASE PadKeys(a)
  <2>1. \A p : KeyLifts(p) => KeyLifts(p)'
    BY <1>2 DEF PadKeys, Started, Completed, KeyLifts, Holding, Pointer
  <2>2. QED
    BY <1>1, <1>2, <2>1, Lifts, DownSame DEF PadKeys, castVars, Owned
<1>3. CASE PadStarts(a)
  <2>1. entry' = [entry EXCEPT ![a] = Pointer(a)] /\ entry[a] = None /\ Kind[a] = "DirectionPad"
        /\ Touch({}, {Pointer(a)}, {}) /\ UNCHANGED <<inputVars, task, castVars>> /\ Pointer(a) \in Nat
    BY <1>3, PointerType DEF PadStarts, PadRuns, Store
  <2>2. \A p \in Nat : p = Pointer(a) \/ EntryLifts(p) => EntryLifts(p)'
    BY <2>1, NoneAssumption DEF EntryLifts, EntryOK
  <2>3. \A p \in Nat : p = Pointer(a) \/ Owned(p) => Owned(p)'
    BY <1>1, <2>1, <2>2, Lifts DEF inputVars, castVars, Owned
  <2>4. QED
    BY <1>1, <2>1, <2>3 DEF DownOwned, Touch, TouchOK
<1>4. CASE PadEnds(a)
  <2>1. entry' = [entry EXCEPT ![a] = None]
        /\ Touch({Pointer(a)}, {}, Replaced(a)) /\ UNCHANGED <<inputVars, task, castVars>>
    BY <1>4 DEF PadEnds, PadRuns, Store
  <2>2. \A p \in Nat : EntryLifts(p) /\ p \notin {Pointer(a)} \cup Replaced(a) => EntryLifts(p)'
    BY <2>1, NoneAssumption DEF EntryLifts, EntryOK, Replaced
  <2>3. \A p \in Nat : Owned(p) /\ p \notin {Pointer(a)} \cup Replaced(a) => Owned(p)'
    BY <1>1, <2>1, <2>2, Lifts DEF inputVars, castVars, Owned
  <2>4. QED
    BY <1>1, <2>1, <2>3 DEF DownOwned, Touch, TouchOK
<1>5. CASE CastStops(a) \/ CastReleased(a)
  <2>1. \A p : Owned(p) /\ p \notin CastPointer => Owned(p)'
    BY <1>1, <1>5, Lifts, KeyLiftsEvent DEF CastStops, CastReleased, Owned, CastPointer, CastLifts, Holding
  <2>2. QED
    BY <1>1, <1>5, <2>1, DownKept DEF CastStops, CastReleased
<1>6. CASE MouseCastOnPress(a)
  <2>1. Pointer(a) \in Nat /\ Spawn(Pointer(a), <<"up">>) /\ <<"up">> \in Shapes
    BY <1>6, PressedType, PointerType DEF MouseCastOnPress, CastStarts, Shapes
  <2>2. \A p : Owned(p) /\ p \notin CastPointer => Owned(p)'
    BY <1>1, <1>6, <2>1, SpawnOwes, Lifts, KeyLiftsEvent
       DEF MouseCastOnPress, CastStarts, Owned, CastPointer, CastLifts
  <2>3. \A p : p = Pointer(a) => Owned(p)'
    BY <2>1, SpawnOwes, TapHas DEF Owned
  <2>4. QED
    BY <1>1, <1>6, <2>2, <2>3, DownKept DEF MouseCastOnPress
<1>7. CASE MouseCastStarts(a)
  <2>1. cast' # None /\ cast'.pointer = Pointer(a)
    BY <1>7, NewCastStarts DEF MouseCastStarts
  <2>2. \A p : Owned(p) /\ p \notin CastPointer => Owned(p)'
    BY <1>1, <1>7, Lifts, KeyLiftsEvent DEF MouseCastStarts, CastStarts, Owned, CastPointer, CastLifts
  <2>3. \A p : p = Pointer(a) => Owned(p)'
    BY <2>1 DEF Owned, CastLifts
  <2>4. QED
    BY <1>1, <1>7, <2>2, <2>3, DownKept DEF MouseCastStarts
<1>8. CASE PadCastStarts(a)
  <2>1. cast' # None /\ cast'.pointer = Pointer(a)
    <3>1. profile[a].block \in BOOLEAN
      BY <1>8, PressedType, PointerType DEF PadCastStarts, CastStarts
    <3>2. QED
      BY <1>8, <3>1, NewCastStarts DEF PadCastStarts
  <2> DEFINE ups == CastPointer \cup {entry[d] : d \in Drained(a)}
  <2>2. \A p : EntryLifts(p) /\ p \notin ups => EntryLifts(p)'
    BY <1>8 DEF PadCastStarts, EntryLifts, Drained
  <2>3. \A p : Owned(p) /\ p \notin ups => Owned(p)'
    BY <1>1, <1>8, <2>2, Lifts, KeyLiftsEvent DEF PadCastStarts, CastStarts, Owned, CastPointer, CastLifts
  <2>4. \A p : p = Pointer(a) => Owned(p)'
    BY <2>1 DEF Owned, CastLifts
  <2>5. Touch(ups, {Pointer(a)}, {})
    BY <1>8 DEF PadCastStarts
  <2> HIDE DEF ups
  <2>6. QED
    BY <1>1, <2>3, <2>4, <2>5, DownKept
<1>9. CASE CastKeyUp(a)
  <2>1. \A p : Owned(p) => Owned(p)'
    BY <1>1, <1>9, Lifts, KeyLiftsEvent DEF CastKeyUp, castVars, Owned, Holding
  <2>2. QED
    BY <1>9, <2>1, DownSame DEF CastKeyUp
<1>10. CASE CancelCast(a)
  <2>1. \A p : Owned(p) => Owned(p)'
    <3>1. CASE cast = None
      BY <1>1, <1>10, <3>1, Lifts, KeyLiftsEvent DEF CancelCast, Owned, CastLifts
    <3>2. CASE cast # None
      <4>1. cast.pointer \in Nat
        BY <3>2, CastType DEF Cast
      <4>2. Spawn(cast.pointer, <<"up", "unblock">>) \/ Spawn(cast.pointer, <<"up">>)
        BY <1>10, <3>2 DEF CancelCast
      <4>3. \A p : p = cast.pointer \/ TaskLifts(p) => TaskLifts(p)'
        BY <4>1, <4>2, SpawnOwes, TapHas DEF Shapes
      <4>4. QED
        BY <1>1, <1>10, <4>3, Lifts, KeyLiftsEvent DEF CancelCast, Owned, CastLifts
    <3>3. QED
      BY <3>1, <3>2
  <2>2. QED
    BY <1>10, <2>1, DownSame DEF CancelCast
<1>11. QED
  BY <1>2, <1>3, <1>4, <1>5, <1>6, <1>7, <1>8, <1>9, <1>10 DEF CastNext

\* In the frame that enters the FPS mode no other FPS key is handled: one has
\* been, or a reload has used up their events.
FpsOnce ==
  cursor = "Normal" /\ nextCursor = "Fps" =>
    FpsHandled \/ \A a \in DOMAIN profile : Kind[a] = "Fps" => a \in seen

LEMMA AimOwned ==
  ASSUME Base, Base', DownOwned, FpsOnce, NEW a \in Actions, AimNext(a) PROVE DownOwned'
<1> USE DEF Base, TypeOK
<1>1. CASE EnterFps(a)
  <2>1. fps' = [pointer |-> Pointer(a), ignore |-> FALSE] /\ nextCursor' = "Fps" /\ Touch({}, {Pointer(a)}, {})
        /\ UNCHANGED <<online, task, entry, castVars>>
    BY <1>1 DEF EnterFps
  <2>2. \A p : ~FpsLifts(p)
    BY <1>1, Keys DEF EnterFps, FpsLifts, FpsOnce
  <2>3. \A p : Owned(p) => Owned(p)'
    BY <1>1, <2>1, <2>2, Lifts, KeyLiftsEvent DEF EnterFps, castVars, Owned
  <2>4. \A p : p = Pointer(a) => Owned(p)'
    BY <2>1 DEF Owned, FpsLifts
  <2>5. QED
    BY <2>1, <2>3, <2>4, DownKept
<1>2. CASE LeaveFps(a)
  <2>1. Touch({0}, {}, {fps.pointer} \ {0}) /\ UNCHANGED <<online, task, entry, castVars, fps>>
    BY <1>2 DEF LeaveFps
  <2>2. \A p : Owned(p) /\ p \notin {0} \cup ({fps.pointer} \ {0}) => Owned(p)'
    BY <1>2, <2>1, Lifts, KeyLiftsEvent DEF LeaveFps, castVars, Owned, FpsLifts, Holding
  <2>3. QED
    BY <2>1, <2>2, DownKept
<1>3. CASE FireStarts(a)
  <2>1. /\ Kind[a] = "Fire" /\ entry' = [entry EXCEPT ![a] = Pointer(a)] /\ fps'.pointer = fps.pointer
        /\ Touch({fps.pointer}, {Pointer(a)}, Replaced(a)) /\ UNCHANGED <<modeVars, task, castVars>>
        /\ Pointer(a) \in Nat
    BY <1>3, PressedType, PointerType DEF FireStarts, Pressed, Store, FpsOK
  <2>2. \A p \in Nat : p = Pointer(a) \/ (EntryLifts(p) /\ p \notin Replaced(a)) => EntryLifts(p)'
    BY <2>1, NoneAssumption DEF EntryLifts, EntryOK, Replaced
  <2>3. \A p : FpsLifts(p) => FpsLifts(p)'
    BY <2>1 DEF FpsLifts, modeVars
  <2>4. \A p \in Nat : p = Pointer(a) \/ (Owned(p) /\ p \notin Replaced(a)) => Owned(p)'
    BY <1>3, <2>1, <2>2, <2>3, Lifts, KeyLiftsEvent DEF FireStarts, castVars, Owned
  <2>5. QED
    BY <2>1, <2>4 DEF DownOwned, Touch, TouchOK
<1>4. CASE FireEnds(a)
  <2>1. /\ Kind[a] = "Fire" /\ entry' = [entry EXCEPT ![a] = None] /\ fps'.pointer = fps.pointer
        /\ Touch({entry[a]}, {fps.pointer}, Leftover) /\ UNCHANGED <<modeVars, task, castVars>>
    BY <1>4 DEF FireEnds, Released, Store, FpsOK
  <2>2. \A p : p # entry[a] /\ EntryLifts(p) => EntryLifts(p)'
    BY <2>1 DEF EntryLifts, EntryOK
  <2>3. \A p : FpsLifts(p) => FpsLifts(p)'
    BY <2>1 DEF FpsLifts, modeVars
  <2>4. \A p : Owned(p) /\ p # entry[a] => Owned(p)'
    BY <1>4, <2>1, <2>2, <2>3, Lifts, KeyLiftsEvent DEF FireEnds, castVars, Owned, Holding
  <2>5. \A p : p \in {fps.pointer} \ Leftover => Owned(p)'
    BY <2>1, <2>3 DEF Leftover, FpsLifts, Owned
  <2>6. UNCHANGED online
    BY <2>1 DEF modeVars
  <2>7. QED
    BY <2>1, <2>4, <2>5, <2>6, DownKept
<1>5. CASE ObservationStarts(a)
  <2>1. /\ Kind[a] = "Observation" /\ entry' = [entry EXCEPT ![a] = Pointer(a)]
        /\ Touch({}, {Pointer(a)}, Replaced(a)) /\ UNCHANGED <<modeVars, task, castVars, fps>>
        /\ Pointer(a) \in Nat
    BY <1>5, PressedType, PointerType DEF ObservationStarts, Pressed, Store
  <2>2. \A p \in Nat : p = Pointer(a) \/ (EntryLifts(p) /\ p \notin Replaced(a)) => EntryLifts(p)'
    BY <2>1, NoneAssumption DEF EntryLifts, EntryOK, Replaced
  <2>3. \A p \in Nat : p = Pointer(a) \/ (Owned(p) /\ p \notin Replaced(a)) => Owned(p)'
    BY <1>5, <2>1, <2>2, Lifts, KeyLiftsEvent DEF ObservationStarts, castVars, modeVars, Owned
  <2>4. QED
    BY <2>1, <2>3 DEF DownOwned, Touch, TouchOK
<1>6. CASE ObservationEnds(a)
  <2>1. /\ entry' = [entry EXCEPT ![a] = None]
        /\ Touch({entry[a]}, {}, {}) /\ UNCHANGED <<modeVars, task, castVars, fps>>
    BY <1>6 DEF ObservationEnds, Store
  <2>2. \A p : p # entry[a] /\ EntryLifts(p) => EntryLifts(p)'
    BY <2>1 DEF EntryLifts, EntryOK
  <2>3. \A p : Owned(p) /\ p # entry[a] => Owned(p)'
    BY <1>6, <2>1, <2>2, Lifts, KeyLiftsEvent DEF ObservationEnds, castVars, modeVars, Owned, Holding
  <2>4. UNCHANGED online
    BY <2>1 DEF modeVars
  <2>5. QED
    BY <2>1, <2>3, <2>4, DownKept
<1>7. CASE NothingEnds(a) \/ RawInputKeys(a) \/ FpsIgnored(a)
  <2>1. UNCHANGED <<nextCursor, touchVars, task, entry, castVars, fps>>
    BY <1>7 DEF NothingEnds, RawInputKeys, FpsIgnored, modeVars
  <2>2. \A p : KeyLifts(p) => KeyLifts(p)'
    BY <1>7, KeyLiftsEvent DEF NothingEnds, RawInputKeys, FpsIgnored, Holding
  <2>3. \A p : Owned(p) => Owned(p)'
    BY <2>1, <2>2, Lifts DEF castVars, Owned
  <2>4. QED
    BY <2>1, <2>3, DownSame
<1>8. QED
  BY <1>1, <1>2, <1>3, <1>4, <1>5, <1>6, <1>7 DEF AimNext

LEMMA MissOwned ==
  ASSUME Base, Base', DownOwned, NEW a \in Actions, KeyUp(a) \/ PressMissed(a) \/ ReleaseMissed(a)
  PROVE  DownOwned'
<1> USE DEF Base, TypeOK
<1>1. UNCHANGED <<modeVars, task, entry, castVars, fps>> /\ profile' = profile
  BY Keys DEF KeyUp, PressMissed, ReleaseMissed, Started, Completed
<1>2. CASE KeyUp(a) \/ PressMissed(a)
  <2>1. UNCHANGED touchVars /\ \A p : KeyLifts(p) => KeyLifts(p)'
    BY <1>1, <1>2, KeyLiftsEvent DEF KeyUp, Holding, PressMissed, Started, KeyLifts, Pointer
  <2>2. \A p : Owned(p) => Owned(p)'
    BY <1>1, <2>1, Lifts DEF castVars, modeVars, Owned
  <2>3. QED
    BY <2>1, <2>2, DownSame
<1>3. CASE ReleaseMissed(a)
  <2> DEFINE orphans == IF Kind[a] \in {"Click", "SyncTap"} THEN {Pointer(a)} ELSE {}
  <2>1. down' = down \ {a} /\ Touch({}, {}, orphans)
    BY <1>3 DEF ReleaseMissed, Completed
  <2>2. \A p : KeyLifts(p) /\ p \notin orphans => KeyLifts(p)'
    BY <1>1, <2>1 DEF KeyLifts, Pointer, Holding
  <2>3. \A p : Owned(p) /\ p \notin orphans => Owned(p)'
    BY <1>1, <2>2, Lifts DEF castVars, modeVars, Owned
  <2>4. UNCHANGED online
    BY <1>1 DEF modeVars
  <2> HIDE DEF orphans
  <2>5. QED
    BY <2>1, <2>3, <2>4, DownKept
<1>4. QED
  BY <1>2, <1>3

LEMMA TaskOwned ==
  ASSUME Base, Base', DownOwned, NEW s \in Slots, TaskSends(s) PROVE DownOwned'
<1> USE DEF Base, TypeOK
<1> DEFINE q == task[s].pointer
           what == Head(task[s].todo)
<1>1. /\ task[s] # None /\ task[s].todo \in Shapes /\ task' = [task EXCEPT ![s] = Rest(s)]
      /\ UNCHANGED <<inputVars, modeVars, entry, cast, fps>>
      /\ Touch(IF what = "up" THEN {q} ELSE {}, IF what = "down" THEN {q} ELSE {}, {})
  BY DEF TaskSends, TaskShape
<1>2. \A r \in Slots : task'[r] = IF r = s THEN Rest(s) ELSE task[r]
  BY <1>1 DEF TaskOK
<1>3. \A p : p # q /\ TaskLifts(p) => TaskLifts(p)'
  BY <1>1, <1>2 DEF TaskLifts, Owes
<1>4. CASE what = "down"
  <2>1. Len(task[s].todo) # 1 /\ Has(Tail(task[s].todo), "up")
    BY <1>1, <1>4, ShapesOwe
  <2>2. Rest(s) = [pointer |-> q, todo |-> Tail(task[s].todo)] /\ Rest(s) # None
    BY <1>1, <2>1, RestType DEF Rest
  <2>3. \A p : p = q => TaskLifts(p)'
    <3>1. task'[s] = [pointer |-> q, todo |-> Tail(task[s].todo)] /\ task'[s] # None
      BY <1>2, <2>2
    <3>2. task'[s].pointer = q /\ Owes(s, "up")'
      BY <2>1, <3>1 DEF Owes
    <3>3. QED
      BY <3>2 DEF TaskLifts
  <2>4. \A p : p = q \/ Owned(p) => Owned(p)'
    BY <1>1, <1>3, <2>3, Lifts DEF inputVars, modeVars, Owned
  <2>5. Touch({}, {q}, {}) /\ UNCHANGED online
    BY <1>1, <1>4 DEF modeVars
  <2>6. QED
    BY <2>4, <2>5, DownKept
<1>5. CASE what = "up"
  <2>1. \A p : p # q /\ Owned(p) => Owned(p)'
    BY <1>1, <1>3, Lifts DEF inputVars, modeVars, Owned
  <2>2. Touch({q}, {}, {}) /\ UNCHANGED online
    BY <1>1, <1>5 DEF modeVars
  <2>3. QED
    BY <2>1, <2>2, DownKept
<1>6. CASE what = "unblock"
  <2>1. ~Has(task[s].todo, "up")
    BY <1>1, <1>6, ShapesOwe
  <2>2. \A p : TaskLifts(p) => TaskLifts(p)'
    BY <1>2, <2>1 DEF TaskLifts, Owes
  <2>3. \A p : Owned(p) => Owned(p)'
    BY <1>1, <2>2, Lifts DEF inputVars, modeVars, Owned
  <2>4. Touch({}, {}, {}) /\ UNCHANGED online
    BY <1>1, <1>6 DEF modeVars
  <2>5. QED
    BY <2>3, <2>4, DownKept
<1>7. QED
  BY <1>1, <1>4, <1>5, <1>6, ShapesOwe

LEMMA SharedOwned ==
  ASSUME Base, Base', DownOwned, Shared PROVE DownOwned'
<1> USE DEF Base, TypeOK
<1>1. CASE EndFrame \/ Connect \/ RawInputExits
  <2>1. UNCHANGED <<profile, down, nextCursor, touchVars, task, entry, castVars, fps>>
    BY <1>1 DEF EndFrame, Connect, RawInputExits, inputVars
  <2>2. \A p : Owned(p) => Owned(p)'
    BY <2>1, Lifts DEF castVars, Owned
  <2>3. QED
    BY <2>1, <2>2, DownSame
<1>2. CASE Disconnect
  BY <1>2 DEF Disconnect, DownOwned
<1>3. CASE Reload
  <2> DEFINE orphans == {Pointer(a) : a \in {b \in down \ down' : Kind[b] \in {"Click", "SyncTap"}}}
  <2>1. /\ UNCHANGED <<modeVars, task, entry, castVars, fps>> /\ Touch({}, {}, orphans)
        /\ down' = {a \in down \cap DOMAIN profile' : Kind[a] = "Click"}
    BY <1>3 DEF Reload, Unmapped
  <2>2. \A a \in down : Kind[a] \in Holding /\ Pointer(a) \notin orphans => a \in down' /\ Kind[a] = "Click"
    BY <2>1 DEF Holding
  <2>3. \A a \in down \cap down' : Kind[a] = "Click" => profile[a].pointer = 0 /\ profile'[a].pointer = 0
    BY ProfileAssumption DEF InputOK
  <2>4. \A p : KeyLifts(p) /\ p \notin orphans => KeyLifts(p)'
    BY <2>2, <2>3 DEF KeyLifts, Pointer
  <2>5. \A p : Owned(p) /\ p \notin orphans => Owned(p)'
    BY <2>1, <2>4, Lifts DEF castVars, modeVars, Owned
  <2>6. UNCHANGED online
    BY <2>1 DEF modeVars
  <2> HIDE DEF orphans
  <2>7. QED
    BY <2>1, <2>5, <2>6, DownKept
<1>4. CASE FpsMoves
  <2>1. Touch({fps.pointer}, {fps.pointer}, Leftover) /\ UNCHANGED <<inputVars, modeVars, task, entry, castVars, fps>>
    BY <1>4 DEF FpsMoves
  <2>2. \A p : Owned(p) => Owned(p)'
    BY <2>1, Lifts DEF inputVars, modeVars, castVars, Owned
  <2>3. \A p : p \in {fps.pointer} \ Leftover => Owned(p)'
    BY <2>1, <2>2 DEF Leftover, FpsLifts, Owned
  <2>4. UNCHANGED online
    BY <2>1 DEF modeVars
  <2>5. QED
    BY <2>1, <2>2, <2>3, <2>4, DownKept
<1>5. QED
  BY <1>1, <1>2, <1>3, <1>4 DEF Shared

LEMMA OwnedStep == Base /\ Base' /\ DownOwned /\ FpsOnce /\ [Next]_vars => DownOwned'
<1> SUFFICES ASSUME Base, Base', DownOwned, FpsOnce, [Next]_vars PROVE DownOwned'  OBVIOUS
<1>1. CASE UNCHANGED vars
  <2>1. \A p : Owned(p) => Owned(p)'
    BY <1>1, Lifts DEF vars, inputVars, modeVars, castVars, Owned
  <2>2. QED
    BY <1>1, <2>1, DownSame DEF vars
<1>2. CASE Next
  BY <1>2, TapOwned, CastOwned, AimOwned, MissOwned, TaskOwned, SharedOwned DEF Next, Key
<1>3. QED
  BY <1>1, <1>2

\* An event of the frame stays one until the frame ends, and so does a press.
LEMMA SeenKept ==
  Next => EndFrame \/ Reload \/ (profile' = profile /\ seen \subseteq seen' /\ down \cap seen \subseteq down')
<1> USE DEF Pressed, Released, Started, Completed
<1> SUFFICES ASSUME NEW a \in Actions, Key(a)
             PROVE  profile' = profile /\ seen \subseteq seen' /\ down \cap seen \subseteq down'
  BY DEF Next, Shared, Connect, Disconnect, FpsMoves, RawInputExits, TaskSends, inputVars
<1>1. CASE TapNext(a)
  BY <1>1 DEF TapNext, SyncDown, SyncUp, TapDown, RepeatTapStarts, RepeatTapStops, RepeatTapFires,
     BackgroundStarts, inputVars
<1>2. CASE CastNext(a)
  BY <1>2 DEF CastNext, PadKeys, PadStarts, PadEnds, PadRuns, CastStops, MouseCastOnPress, MouseCastStarts,
     PadCastStarts, CastStarts, CastReleased, CastKeyUp, CancelCast, inputVars
<1>3. CASE AimNext(a)
  BY <1>3 DEF AimNext, EnterFps, LeaveFps, FpsIgnored, FireStarts, FireEnds, ObservationStarts, ObservationEnds,
     NothingEnds, RawInputKeys
<1>4. QED
  BY <1>1, <1>2, <1>3 DEF Key, KeyUp, PressMissed, ReleaseMissed

LEMMA FpsOnceStep == Base /\ FpsOnce /\ [Next]_vars => FpsOnce'
<1> SUFFICES ASSUME Base, FpsOnce, [Next]_vars PROVE FpsOnce'  OBVIOUS
<1> USE DEF FpsOnce
<1>1. CASE UNCHANGED vars
  BY <1>1 DEF vars, inputVars, modeVars, FpsHandled
<1>2. CASE EndFrame \/ Reload
  BY <1>2 DEF EndFrame, Reload, modeVars
<1>3. ASSUME NEW a \in Actions, EnterFps(a) PROVE FpsOnce'
  <2>1. Kind[a] = "Fps" /\ a \in down' \cap seen'
    BY <1>3 DEF EnterFps, Pressed, Started
  <2>2. QED
    BY <2>1 DEF FpsHandled
<1>4. ASSUME NEW a \in Actions, LeaveFps(a) PROVE FpsOnce'
  BY <1>4 DEF LeaveFps
<1>5. CASE Next /\ ~EndFrame /\ ~Reload /\ ~\E a \in Actions : EnterFps(a) \/ LeaveFps(a)
  <2>1. profile' = profile /\ seen \subseteq seen' /\ (FpsHandled => FpsHandled')
    BY <1>5, SeenKept DEF FpsHandled
  <2>2. UNCHANGED <<cursor, nextCursor>> \/ nextCursor' = "Normal"
    BY <1>5, ModeSteps DEF modeVars, RawInputKeys, Connect, Disconnect, RawInputExits
  <2>3. QED
    BY <2>1, <2>2
<1>6. QED
  BY <1>1, <1>2, <1>3, <1>4, <1>5

\* Every pointer that is down has somebody who will lift it, or is one of the
\* recorded strays.
THEOREM PointersOwned == Spec => []DownOwned
<1>1. Init => DownOwned /\ FpsOnce
  BY DEF Init, DownOwned, FpsOnce
<1>2. QED
  BY BaseInit, BaseStep, OwnedStep, FpsOnceStep, <1>1, PTL DEF Spec
=============================================================================
