----------------------------- MODULE MCSession ------------------------------
(* Session on small sets.                                                  *)
EXTENDS Session, TLC

Symmetry == Permutations(Fds) \cup Permutations(Players) \cup Permutations(Objs)
            \cup Permutations(Agents) \cup Permutations(Tasks) \cup Permutations(Logins)
=============================================================================
