----------------------------- MODULE MCAgentMgr -----------------------------
(* AgentMgr on small sets.                                                 *)
EXTENDS AgentMgr, TLC

Symmetry == Permutations(Players) \cup Permutations(Agents) \cup Permutations(Tasks)
=============================================================================
