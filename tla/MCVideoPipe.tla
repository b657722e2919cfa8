----------------------------- MODULE MCVideoPipe -----------------------------
(* Instances of VideoPipe for TLC.                                          *)
EXTENDS VideoPipe, TLC

Symmetric == Permutations(Streams)
=============================================================================
