------------------------------ MODULE MCSendQueue ------------------------------
(* Small instances of SendQueue. *)
EXTENDS SendQueue, TLC

Symmetry == Permutations(Msg) \cup Permutations(Worker)
=============================================================================
