--------------------------- MODULE MCDeviceSession ---------------------------
(* Instances of DeviceSession for TLC: the configurations give the sets of  *)
(* devices, requests and WebSockets as model values.                        *)
EXTENDS DeviceSession
=============================================================================
