-------------------------------- MODULE Touches -------------------------------
(***************************************************************************)
(* The touch mappings together: taps, casts and aims over one screen, with *)
(* the background tasks, the mode changes and the device coming and going. *)
(***************************************************************************)
EXTENDS Taps, Casts, Aims

\* The kinds that act on a press only.
KeyUp(a) ==
  /\ \E kind \in {"Tap", "MultipleTap", "Swipe", "CancelCast", "Fps"} : Released(a, kind)
  /\ UNCHANGED <<modeVars, touchVars, task, entry, castVars, fps>>

Key(a) == TapNext(a) \/ CastNext(a) \/ AimNext(a) \/ KeyUp(a) \/ PressMissed(a) \/ ReleaseMissed(a)

Shared == EndFrame \/ Connect \/ Disconnect \/ Reload \/ FpsMoves \/ RawInputExits

Next ==
  \/ \E a \in Actions : Key(a)
  \/ \E s \in Slots : TaskSends(s)
  \/ Shared

Spec == Init /\ [][Next]_vars

\* The runtime polls its tasks, and the main thread runs frame after frame.
Fairness ==
  /\ WF_vars(EndFrame)
  /\ \A s \in Slots : WF_vars(TaskSends(s))
  /\ \A a \in Actions : WF_vars(PadEnds(a))

FairSpec == Spec /\ Fairness

-----------------------------------------------------------------------------
(* Properties.                                                              *)

\* Who will lift pointer p: a task, the active cast, an entry, a button held
\* down, or the FPS mode.
TaskLifts(p)  == \E s \in Slots : Owes(s, "up") /\ task[s].pointer = p
CastLifts(p)  == cast # None /\ cast.pointer = p
EntryLifts(p) == \E a \in Actions : Kind[a] \in {"DirectionPad", "Observation", "Fire"} /\ entry[a] = p
KeyLifts(p)   == \E a \in down : Kind[a] \in Holding /\ Pointer(a) = p
FpsLifts(p)   == nextCursor = "Fps" /\ fps.pointer = p

Owned(p) == TaskLifts(p) \/ CastLifts(p) \/ EntryLifts(p) \/ KeyLifts(p) \/ FpsLifts(p)

\* No pointer is left down (the Up of every Down in tap.rs, swipe.rs,
\* direction_pad.rs, cast_spell.rs, fire.rs and observation.rs): each one
\* that is down has somebody who will lift it.  The strays are the faults of
\* the code, each recorded where it happens: a release in a mode in which
\* nobody listens, a reload under a held key, an entry whose mapping has
\* another pointer by now, a fire key or a motion handled in the frame that
\* leaves the FPS mode, an FPS mode on a pointer other than 0.
DownOwned == \A p \in screen \ stray : Owned(p)

\* An entry and an OnRelease cast last as long as their key is held, unless
\* its release was not heard (tap.rs:238, fire.rs:255, observation.rs:132).
EntryHeld ==
  /\ \A a \in Actions : Kind[a] \in {"RepeatTap", "Observation", "Fire"} /\ entry[a] # None
                          => a \in down \cup missed
  /\ cast # None /\ cast.key \in DOMAIN profile /\ profile[cast.key].release = "OnRelease"
       => cast.key \in down \cup missed

\* The direction pads are blocked only while a cast that blocks them is
\* active, or its cancellation has yet to free them (cast_spell.rs:572-767).
BlockOwned == block => (cast # None /\ cast.block) \/ Unblocking

\* While a blocking cast is active no direction pad is: its handler returns
\* (direction_pad.rs:125).  Not so when the cast began before the task of a
\* cancelled one had freed the pads (cast_spell.rs:765).
CastBlocksPads ==
  cast # None /\ cast.block /\ ~cast.raced
    => block /\ \A a \in Actions : Kind[a] = "DirectionPad" => entry[a] = None

\* Nothing is held, nothing was missed, the modes are the normal ones and
\* every direction pad is one of the active mapping.
Quiet ==
  /\ down = {} /\ missed = {} /\ stray = {} /\ cast = None
  /\ {mode, nextMode} = {"Normal"} /\ {cursor, nextCursor} = {"Normal"}
  /\ \A a \in Actions : Kind[a] = "DirectionPad" /\ entry[a] # None => a \in DOMAIN profile

\* Hands off, the screen clears: the tasks and the pads lift every pointer
\* and the pads are free again.
ScreenClears == <>[]Quiet => <>[](screen = {} /\ ~block)

\* Raw input and the FPS mode keep each other out (mod.rs:91, "raw input
\* won't work in fps mode"), but for one frame: they are only ever on together
\* when the two keys were handled in the same frame, neither mode being on.
ModesMeet ==
  [][ mode' = "RawInput" /\ cursor' = "Fps" /\ <<mode, cursor>> # <<"RawInput", "Fps">>
        => mode = "Normal" /\ cursor = "Normal" ]_vars
=============================================================================
