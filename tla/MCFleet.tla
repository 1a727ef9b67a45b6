------------------------------- MODULE MCFleet -------------------------------
(* Fleet for TLC: a physical and a virtual display, with the topologies that *)
(* a collapse and a restore go through; a fleet and what is left of the one  *)
(* before it; MCDual has the second display of a dual collapse too.         *)
EXTENDS Fleet, TLC
CONSTANTS p, v, w
MCSymmetry == Permutations(Fleets) \cup Permutations(Rounds)
MCTopologies == {<<p>>, <<p, v>>, <<v, p>>, <<v>>}
MCDual == {<<p>>, <<p, v>>, <<v, w>>}
==============================================================================
