---------------------------- MODULE MCSyncInvoke ----------------------------
(* SyncInvoke for TLC: calls are interchangeable; of the two request       *)
(* contents one has all its optional fields.                               *)
EXTENDS SyncInvoke, TLC

Symmetry == Permutations(Call)
=============================================================================
