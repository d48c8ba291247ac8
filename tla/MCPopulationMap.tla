--------------------------- MODULE MCPopulationMap ---------------------------
(* Writers are interchangeable: no action or property names one. *)
EXTENDS PopulationMap, TLC

MCWriterSymmetry == Permutations(Writers)
=============================================================================
