--------------------------- MODULE MCDensitySweep ---------------------------
(* Two groups: the first server has two cases, the second one. *)
EXTENDS DensitySweep

MCCasesOf == <<<<"c1", "c2">>, <<"c3">>>>
=============================================================================
