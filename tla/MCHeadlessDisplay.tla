------------------------- MODULE MCHeadlessDisplay -------------------------
(* HeadlessDisplay for TLC: the polling threads are interchangeable. *)
EXTENDS HeadlessDisplay, TLC

PollerSymmetry == Permutations(Pollers)
=============================================================================
