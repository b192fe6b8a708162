------------------------- MODULE MCEvidencePipeline -------------------------
(* EvidencePipeline for TLC: a header component and a path component, two  *)
(* test inputs, two obligations, two coverage groups that may refer to     *)
(* each other, and a candidate of two artifacts.                           *)
EXTENDS EvidencePipeline, TLC

CONSTANTS m1, m2, c1, c2

MCMemberOf == [c \in Component |-> IF c = c1 THEN {m1} ELSE {m2}]
MCLocationOf == [c \in Component |-> IF c = c1 THEN "header" ELSE "path"]
MCObligations == <<"o1", "o2">>

Symmetry == Permutations(Input)
=============================================================================
