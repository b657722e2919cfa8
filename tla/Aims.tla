--------------------------------- MODULE Aims ---------------------------------
(***************************************************************************)
(* Looking around: the FPS mode and its fire keys (fire.rs, cursor.rs),    *)
(* the observation keys (observation.rs) and the raw input mode            *)
(* (raw_input.rs) of src/src/mask/mapping.                                 *)
(***************************************************************************)
EXTENDS MappingState

\* The pointer of the FPS mode is lifted again only in that mode.
Leftover == IF nextCursor = "Fps" THEN {} ELSE {fps.pointer}

\* (variant) without the return, every FPS key of the frame is handled.
NoReturn == FALSE

\* An FPS key has been pressed in this frame.
FpsHandled == \E b \in down \cap seen : Kind[b] = "Fps"

EnterFps(a) ==
  /\ Pressed(a, "Fps")
  /\ ~FpsHandled
  /\ cursor = "Normal"
  /\ fps' = [pointer |-> Pointer(a), ignore |-> FALSE]
  /\ Touch({}, {Pointer(a)}, {})
  /\ nextCursor' = "Fps"
  /\ UNCHANGED <<mode, nextMode, cursor, online, task, entry, castVars>>

\* Leaving the mode lifts pointer 0, whatever entering it put down.
LeaveFps(a) ==
  /\ Pressed(a, "Fps")
  /\ ~FpsHandled
  /\ cursor = "Fps"
  /\ Touch({0}, {}, {fps.pointer} \ {0})
  /\ nextCursor' = "Normal"
  /\ UNCHANGED <<mode, nextMode, cursor, online, task, entry, castVars, fps>>

\* handle_fps returns after the first FPS key that was pressed in the frame:
\* the press of a second one is lost.
FpsIgnored(a) ==
  /\ Pressed(a, "Fps")
  /\ FpsHandled
  /\ UNCHANGED <<modeVars, touchVars, task, entry, castVars, fps>>

\* handle_cursor_fps: at the border the pointer is lifted and put down again
\* in the centre.
FpsMoves ==
  /\ cursor = "Fps" /\ mode = "Normal"
  /\ ~fps.ignore
  /\ Touch({fps.pointer}, {fps.pointer}, Leftover)
  /\ UNCHANGED <<inputVars, modeVars, task, entry, castVars, fps>>

FireStarts(a) ==
  /\ Pressed(a, "Fire")
  /\ fps' = [fps EXCEPT !.ignore = TRUE]
  /\ Touch({fps.pointer}, {Pointer(a)}, Replaced(a))
  /\ Store(a, Pointer(a))
  /\ UNCHANGED <<modeVars, task, castVars>>

FireEnds(a) ==
  /\ Released(a, "Fire")
  /\ entry[a] # None
  /\ fps' = [fps EXCEPT !.ignore = FALSE]
  /\ Touch({entry[a]}, {fps.pointer}, Leftover)
  /\ Store(a, None)
  /\ UNCHANGED <<modeVars, task, castVars>>

ObservationStarts(a) ==
  /\ Pressed(a, "Observation")
  /\ Touch({}, {Pointer(a)}, Replaced(a))
  /\ Store(a, Pointer(a))
  /\ UNCHANGED <<modeVars, task, castVars, fps>>

\* (variant) the release lifts the pointer and keeps the entry.
ObservationKept(a) ==
  /\ Released(a, "Observation")
  /\ entry[a] # None
  /\ Touch({entry[a]}, {}, {})
  /\ UNCHANGED <<modeVars, task, entry, castVars, fps>>

ObservationEnds(a) ==
  /\ Released(a, "Observation")
  /\ entry[a] # None
  /\ Touch({entry[a]}, {}, {})
  /\ Store(a, None)
  /\ UNCHANGED <<modeVars, task, castVars, fps>>

\* The release of a key whose press nobody heard.
NothingEnds(a) ==
  /\ \E kind \in {"Fire", "Observation"} : Released(a, kind)
  /\ entry[a] = None
  /\ UNCHANGED <<modeVars, touchVars, task, entry, castVars, fps>>

-----------------------------------------------------------------------------
(* Raw input.                                                               *)

\* The mode begins with the release of its key.
RawInputKeys(a) ==
  /\ \/ Pressed(a, "RawInput") /\ UNCHANGED nextMode
     \/ Released(a, "RawInput") /\ nextMode' = "RawInput"
  /\ UNCHANGED <<mode, cursor, nextCursor, online, touchVars, task, entry, castVars, fps>>

\* The right button, held for a second, ends it.
RawInputExits ==
  /\ mode = "RawInput" /\ cursor # "Fps"
  /\ nextMode' = "Normal"
  /\ UNCHANGED <<inputVars, mode, cursor, nextCursor, online,
                 touchVars, task, entry, castVars, fps>>

AimNext(a) ==
  \/ EnterFps(a) \/ LeaveFps(a) \/ FpsIgnored(a)
  \/ FireStarts(a) \/ FireEnds(a)
  \/ ObservationStarts(a) \/ ObservationEnds(a) \/ NothingEnds(a)
  \/ RawInputKeys(a)
=============================================================================
