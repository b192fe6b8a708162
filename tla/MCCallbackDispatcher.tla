------------------------ MODULE MCCallbackDispatcher ------------------------
(* CallbackDispatcher for TLC. *)
EXTENDS CallbackDispatcher, TLC

CONSTANTS b1, b2   \* the results: a translation and a malfunction

MCTerminalStateOf ==
  [b \in Bytes |-> IF b = b2 THEN "malfunction" ELSE "translated"]

Symmetry == Permutations(Worker) \cup Permutations(Dispatcher)
=============================================================================
