------------------------------- MODULE MCTouches ------------------------------
(* Instances of Touches for TLC.                                            *)
EXTENDS Touches

AllKinds == [
  click |-> "Click", sync |-> "SyncTap", tap |-> "Tap", repeat |-> "RepeatTap",
  multi |-> "MultipleTap", swipe |-> "Swipe", pad |-> "DirectionPad",
  mouse1 |-> "MouseCast", mouse2 |-> "MouseCast", cast |-> "PadCast",
  cancel |-> "CancelCast", look |-> "Observation", fps |-> "Fps", fps2 |-> "Fps", fire |-> "Fire",
  raw |-> "RawInput"]

On(p)          == [pointer |-> p, release |-> "OnRelease", block |-> FALSE]
With(p, r)     == [pointer |-> p, release |-> r, block |-> FALSE]
Blocking(p, r) == [pointer |-> p, release |-> r, block |-> TRUE]

\* The frontend's default pointers are 1 for taps, 2 for pads, 3 for casts, 4
\* for observation and 0 for FPS, fire and the click.
Pad2  == [pad |-> On(2), look |-> On(2)]
Pad5  == [pad |-> On(5)]
Sync  == [sync |-> On(1), tap |-> On(1), raw |-> On(0)]

AllProfiles == {
  Sync, Pad2, Pad5,
  [repeat |-> On(1), multi |-> On(1)],
  [swipe |-> On(1), tap |-> On(1)],
  [pad |-> On(2), cast |-> Blocking(3, "OnRelease"), cancel |-> On(0)],
  [pad |-> On(2), cast |-> Blocking(3, "OnSecondPress"), mouse1 |-> With(3, "OnRelease")],
  [mouse1 |-> With(3, "OnPress"), mouse2 |-> With(3, "OnSecondPress"), cancel |-> On(0)],
  [mouse1 |-> With(3, "OnRelease"), mouse2 |-> With(4, "OnRelease"), raw |-> On(0)],
  [fps |-> On(0), fire |-> On(5), raw |-> On(0)],
  [fps |-> On(6), fire |-> On(0), click |-> On(0)],
  [fps |-> On(0), fps2 |-> On(6), fire |-> On(5)],
  [look |-> On(4), fps |-> On(0), repeat |-> On(1)] }

AllSwitches == {<<Pad2, Pad5>>, <<Pad5, Pad2>>, <<Sync, Pad5>>, <<Sync, Sync>>}
=============================================================================
