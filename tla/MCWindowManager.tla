-------------------------- MODULE MCWindowManager --------------------------
(* Finite instances of WindowManager; the windows are interchangeable. *)
EXTENDS WindowManager, TLC

WindowSymmetry == Permutations(Windows)
=============================================================================
