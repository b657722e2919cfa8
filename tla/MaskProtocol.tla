----------------------------- MODULE MaskProtocol -----------------------------
(***************************************************************************)
(* What the main control connections and the mask owe each other, whatever *)
(* carries the messages: a connection tells the mask that it is there      *)
(* (handle_control of src/src/scrcpy/connection.rs), serves its device     *)
(* only after the answer, tells the mask again before it ends, and ends    *)
(* only after that answer; the mask shows a device as the change it        *)
(* answered last says (src/src/mask/mask_command.rs).                      *)
(*                                                                         *)
(* ConnectionServer implements it as the connections see it, MaskWindow as *)
(* the mask does.                                                          *)
(***************************************************************************)

CONSTANT Conns   \* main control connections

VARIABLES
  at,      \* where each of them stands with the mask
  shown    \* the mask shows that a main device is connected

vars == <<at, shown>>

Init == at = [k \in Conns |-> "away"] /\ shown = FALSE

Moves(k, from, to) == at[k] = from /\ at' = [at EXCEPT ![k] = to]

\* DeviceConnectionChange is sent, before and after the connection's select!.
Tells(k) == Moves(k, "away", "telling") /\ UNCHANGED shown
Parts(k) == Moves(k, "on", "parting") /\ UNCHANGED shown

\* The mask has carried it out and answers.
Connected(k)    == Moves(k, "telling", "on") /\ shown' = TRUE
Disconnected(k) == Moves(k, "parting", "away") /\ shown' = FALSE

Next == \E k \in Conns : Tells(k) \/ Connected(k) \/ Parts(k) \/ Disconnected(k)

Spec == Init /\ [][Next]_vars
=============================================================================
