---------------------------- MODULE MCCoordinators ----------------------------
(* Two numbers, two shelters and two tabs are alike.                       *)
EXTENDS Coordinators, TLC

MCSymmetry == Permutations(Phones) \cup Permutations(Shelters) \cup Permutations(Tabs)
=============================================================================
