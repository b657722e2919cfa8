--------------------------------- MODULE Casts --------------------------------
(***************************************************************************)
(* The direction pads and the cast spells, which block them:               *)
(* src/src/mask/mapping/direction_pad.rs and cast_spell.rs.                *)
(***************************************************************************)
EXTENDS MappingState

-----------------------------------------------------------------------------
(* The direction pads.                                                      *)

PadKeys(a) ==
  /\ Kind[a] = "DirectionPad"
  /\ Started(a) \/ Completed(a)
  /\ UNCHANGED <<missed, modeVars, touchVars, task, entry, castVars, fps>>

\* handle_direction_pad goes over the pads of the active mapping, unless they
\* are blocked.
PadRuns(a) ==
  /\ Kind[a] = "DirectionPad" /\ a \in DOMAIN profile
  /\ mode = "Normal" /\ ~block
  /\ UNCHANGED <<inputVars, modeVars, task, castVars, fps>>

PadStarts(a) ==
  /\ PadRuns(a)
  /\ a \in down /\ entry[a] = None
  /\ Touch({}, {Pointer(a)}, {})
  /\ Store(a, Pointer(a))

\* The pad lifts the pointer of the mapping, not that of its entry.
PadEnds(a) ==
  /\ PadRuns(a)
  /\ a \notin down /\ entry[a] # None
  /\ Touch({Pointer(a)}, {}, Replaced(a))
  /\ Store(a, None)

-----------------------------------------------------------------------------
(* The cast spells.                                                         *)

Casting(a)  == cast # None /\ cast.key = a
CastPointer == IF cast = None THEN {} ELSE {cast.pointer}

\* (variant) the end of a cast never frees the pads.
StillBlocked == block

\* The end of a cast that blocks the pads frees them.
Unblocked == block /\ ~(cast # None /\ cast.block)

\* A press of the active cast ends it, in any release mode.
CastStops(a) ==
  /\ \E kind \in {"MouseCast", "PadCast"} : Pressed(a, kind)
  /\ Casting(a)
  /\ Touch(CastPointer, {}, {})
  /\ cast' = None /\ block' = Unblocked
  /\ UNCHANGED <<modeVars, task, entry, fps>>

\* A press of another ends it too, and starts the new cast.
CastStarts(a, kind) ==
  /\ Pressed(a, kind)
  /\ ~Casting(a)

\* A task lifts the pointer of an OnPress cast: the cast is not recorded.
MouseCastOnPress(a) ==
  /\ CastStarts(a, "MouseCast")
  /\ profile[a].release = "OnPress"
  /\ Touch(CastPointer, {Pointer(a)}, {})
  /\ cast' = None /\ block' = Unblocked
  /\ Spawn(Pointer(a), <<"up">>)
  /\ UNCHANGED <<modeVars, entry, fps>>

Unblocking == \E s \in Slots : Owes(s, "unblock")

\* History: a cast has raced when the task of an older cast will still unblock.
NewCast(a, blocks) ==
  cast' = [key |-> a, pointer |-> Pointer(a), block |-> blocks, raced |-> Unblocking]

MouseCastStarts(a) ==
  /\ CastStarts(a, "MouseCast")
  /\ profile[a].release # "OnPress"
  /\ Touch(CastPointer, {Pointer(a)}, {})
  /\ NewCast(a, FALSE) /\ block' = Unblocked
  /\ UNCHANGED <<modeVars, task, entry, fps>>

\* (variant) the pads are blocked as they are.
DrainedNone(a) == {d \in {a} : Kind[d] = "DirectionPad"}

\* The pads a blocking pad cast drains.
Drained(a) == {d \in Actions : profile[a].block /\ Kind[d] = "DirectionPad" /\ entry[d] # None}

PadCastStarts(a) ==
  /\ CastStarts(a, "PadCast")
  /\ Touch(CastPointer \cup {entry[d] : d \in Drained(a)}, {Pointer(a)}, {})
  /\ NewCast(a, profile[a].block) /\ block' = (Unblocked \/ profile[a].block)
  /\ entry' = [d \in Actions |-> IF d \in Drained(a) THEN None ELSE entry[d]]
  /\ UNCHANGED <<modeVars, task, fps>>

CastReleased(a) ==
  /\ \E kind \in {"MouseCast", "PadCast"} : Released(a, kind)
  /\ profile[a].release = "OnRelease"
  /\ Casting(a)
  /\ Touch(CastPointer, {}, {})
  /\ cast' = None /\ block' = Unblocked
  /\ UNCHANGED <<modeVars, task, entry, fps>>

\* Any other release of a cast's key does nothing.
CastKeyUp(a) ==
  /\ \E kind \in {"MouseCast", "PadCast"} : Released(a, kind)
  /\ profile[a].release # "OnRelease" \/ ~Casting(a)
  /\ UNCHANGED <<modeVars, touchVars, task, entry, castVars, fps>>

\* CancelCast takes the active cast; its task lifts the pointer and only then
\* frees the pads.
CancelCast(a) ==
  /\ Pressed(a, "CancelCast")
  /\ IF cast = None THEN UNCHANGED task
     ELSE Spawn(cast.pointer, IF cast.block THEN <<"up", "unblock">> ELSE <<"up">>)
  /\ cast' = None
  /\ UNCHANGED <<modeVars, touchVars, entry, block, fps>>

CastNext(a) ==
  \/ PadKeys(a) \/ PadStarts(a) \/ PadEnds(a)
  \/ CastStops(a) \/ MouseCastOnPress(a) \/ MouseCastStarts(a) \/ PadCastStarts(a)
  \/ CastReleased(a) \/ CastKeyUp(a) \/ CancelCast(a)
=============================================================================
