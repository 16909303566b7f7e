------------------------------ MODULE MCActorTurns ------------------------------
(* ActorTurns for TLC: neither names nor values are told apart by anything but equality. *)
EXTENDS ActorTurns, TLC

Symmetry == Permutations(StateNames) \union Permutations(Values)
=============================================================================
