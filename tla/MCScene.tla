------------------------------- MODULE MCScene -------------------------------
(* Scene and its history on small sets.                                    *)
EXTENDS SceneHistory, TLC

Symmetry == Permutations(Players) \cup Permutations(Agents)
            \cup Permutations(Scenes) \cup Permutations(Tasks)
=============================================================================
