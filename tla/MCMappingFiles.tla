----------------------------- MODULE MCMappingFiles ---------------------------
(* Instances of MappingFiles for TLC.                                        *)
EXTENDS MappingFiles

AllOps == Handlers
=============================================================================
