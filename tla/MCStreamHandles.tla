--------------------------- MODULE MCStreamHandles ---------------------------
(* StreamHandles for TLC: neither objects nor streams are told apart.      *)
EXTENDS StreamHandles, TLC

Symmetry == Permutations(Objects) \cup Permutations(Streams)
=============================================================================
