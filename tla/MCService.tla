------------------------------ MODULE MCService ------------------------------
(* Two shelters: s1 reports two populations, s2 comes and goes.            *)
EXTENDS Service

CONSTANTS s1, s2, p1, p2

MCReporting == {s1} \X Populations
=============================================================================
