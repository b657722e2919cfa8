--------------------------- MODULE MCControlStream ---------------------------
(* Instances of ControlStream for TLC.                                      *)
EXTENDS ControlStream, TLC

\* An i32 has 6 bits here and a u16 has 3: the product of the point and the
\* middle size fits, that with the largest does not, nor does that size.
SmallWord == 32
SmallHalf == 8
MCPoints  == {[x |-> 5, w |-> 6]}
MCSizes   == {4, 9}

\* No definition tells one pointer from another.
Symmetry  == Permutations(Pointers)
=============================================================================
