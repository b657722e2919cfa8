--------------------------------- MODULE Taps ---------------------------------
(***************************************************************************)
(* Taps and swipes: src/src/mask/mapping/tap.rs and swipe.rs, and the left *)
(* click of cursor.rs.                                                     *)
(***************************************************************************)
EXTENDS MappingState

\* (variant) the last item's Up is not sent.
MultipleTapCut == <<"down", "up", "down">>

\* What the background task of each kind sends; a MultipleTap of two items.
TapUp       == <<"up">>
MultipleTap == <<"down", "up", "down", "up">>
Swipe       == <<"down", "up">>

others == <<modeVars, castVars, fps>>

\* A synchronous tap and the left click follow the button.
Holding == {"SyncTap", "Click"}

SyncDown(a) ==
  /\ \E kind \in Holding : Pressed(a, kind)
  /\ Touch({}, {Pointer(a)}, {})
  /\ UNCHANGED <<others, task, entry>>

SyncUp(a) ==
  /\ \E kind \in Holding : Released(a, kind)
  /\ Touch({Pointer(a)}, {}, {})
  /\ UNCHANGED <<others, task, entry>>

TapDown(a) ==
  /\ Pressed(a, "Tap")
  /\ Touch({}, {Pointer(a)}, {})
  /\ Spawn(Pointer(a), TapUp)
  /\ UNCHANGED <<others, entry>>

\* A held key taps again and again: the entry's timer fires.
RepeatTapStarts(a) ==
  /\ Pressed(a, "RepeatTap")
  /\ Store(a, Pointer(a))
  /\ UNCHANGED <<others, touchVars, task>>

RepeatTapStops(a) ==
  /\ Released(a, "RepeatTap")
  /\ Store(a, None)
  /\ UNCHANGED <<others, touchVars, task>>

RepeatTapFires(a) ==
  /\ Kind[a] = "RepeatTap" /\ entry[a] # None
  /\ mode = "Normal"
  /\ Touch({}, {entry[a]}, {})
  /\ Spawn(entry[a], TapUp)
  /\ UNCHANGED <<inputVars, others, entry>>

\* These send every touch from the background.
BackgroundStarts(a) ==
  /\ \/ Pressed(a, "MultipleTap") /\ Spawn(Pointer(a), MultipleTap)
     \/ Pressed(a, "Swipe") /\ Spawn(Pointer(a), Swipe)
  /\ UNCHANGED <<others, touchVars, entry>>

TapNext(a) ==
  \/ SyncDown(a) \/ SyncUp(a)
  \/ TapDown(a)
  \/ RepeatTapStarts(a) \/ RepeatTapStops(a) \/ RepeatTapFires(a)
  \/ BackgroundStarts(a)
=============================================================================
