-------------------------- MODULE MCConnectionServer --------------------------
(* Instances of ConnectionServer for TLC.                                   *)
EXTENDS ConnectionServer, TLC

Symmetric == Permutations(Scids)

\* The bounds of the instance: a command is queued when the loop has taken the
\* one before it, and one of the two sessions opens one socket only.
Narrow == Len(d_rx) <= 1 /\ Cardinality(dialed) <= 3
=============================================================================
