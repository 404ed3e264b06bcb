----------------------------- MODULE MCGateway ------------------------------
(* Gateway on small sets.                                                  *)
EXTENDS Gateway, TLC

Symmetry == Permutations(Fds) \cup Permutations(Players) \cup Permutations(Objs)
=============================================================================
