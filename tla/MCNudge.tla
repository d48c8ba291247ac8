------------------------------ MODULE MCNudge ------------------------------
(* One shelter and, for the runs that need a second one, two: which is     *)
(* which is fixed by the names of its coordinators.                        *)
EXTENDS Nudge, TLC

CONSTANTS s1, s2, c1, c2, l1, l2

MCShelterOf == [c \in Coordinators |-> IF c \in {c2, l2} THEN s2 ELSE s1]
MCPopulationSymmetry == Permutations(Populations)
=============================================================================
