------------------------------- MODULE MCViewer -------------------------------
(* Viewer for TLC: two tasks, so that an attempt meets the callback or the   *)
(* timeout of the one before. MCViewerThree.cfg has a third, left open       *)
(* meanwhile, and uses the symmetry, which is sound for invariants only.     *)
EXTENDS Viewer, TLC

Symmetry == Permutations(Tasks)
===============================================================================
