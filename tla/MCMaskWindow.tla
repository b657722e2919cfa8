---------------------------- MODULE MCMaskWindow ----------------------------
(* Instances of MaskWindow for TLC.                                         *)
EXTENDS MaskWindow
=============================================================================
