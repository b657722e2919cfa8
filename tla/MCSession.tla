------------------------------ MODULE MCSession ------------------------------
(* Instances of Session for TLC.                                            *)
EXTENDS Session, TLC

Symmetric == Permutations(Requests)

\* The bounds of the larger instance: one session at most has video, and a
\* request reconnects, which is a decontrol and a control in one request, only
\* when none has.
Narrow ==
  /\ \A r, s \in Requests : video[r] /\ video[s] => r = s
  /\ (\E r \in Requests : req[r] # None /\ req[r].op = "reconnect") => \A r \in Requests : ~video[r]
=============================================================================
