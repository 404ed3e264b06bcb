-------------------------- MODULE PlayerLifecycle --------------------------
(***************************************************************************)
(* What the cluster promises about a player, seen from outside: a player   *)
(* is logged in at most once, by one agent that serves nobody else, and    *)
(* leaves before it can come back.  AgentMgr implements this.              *)
(***************************************************************************)
CONSTANTS Players, Agents, Nil

VARIABLES
    phase,     \* "none", "LOGIN", "GAME" or "LOGOUT"
    servedBy   \* the agent of the player, or Nil

lvars == <<phase, servedBy>>

Init == /\ phase = [p \in Players |-> "none"]
        /\ servedBy = [p \in Players |-> Nil]

(* A player who is not there is let in.                                    *)
Begin(p) == /\ phase[p] = "none"
            /\ phase' = [phase EXCEPT ![p] = "LOGIN"]
            /\ UNCHANGED servedBy

(* It gets an agent of its own, or, when none could be made, no agent.     *)
Admit(p, a) == /\ phase[p] = "LOGIN"
               /\ \A q \in Players : servedBy[q] # a
               /\ phase' = [phase EXCEPT ![p] = "GAME"]
               /\ servedBy' = [servedBy EXCEPT ![p] = a]

AdmitAlone(p) == /\ phase[p] = "LOGIN"
                 /\ phase' = [phase EXCEPT ![p] = "GAME"]
                 /\ UNCHANGED servedBy

(* Players are told to leave, one or many at a time.                       *)
Expel(S) == /\ \A p \in S : phase[p] = "GAME"
            /\ phase' = [p \in Players |-> IF p \in S THEN "LOGOUT" ELSE phase[p]]
            /\ UNCHANGED servedBy

(* A player who has an agent is gone once the agent is.                    *)
Depart(p) == /\ phase[p] = "LOGOUT"
             /\ servedBy[p] # Nil
             /\ phase' = [phase EXCEPT ![p] = "none"]
             /\ servedBy' = [servedBy EXCEPT ![p] = Nil]

Next == \/ \E p \in Players : \/ Begin(p) \/ AdmitAlone(p) \/ Depart(p)
                              \/ \E a \in Agents : Admit(p, a)
        \/ \E S \in SUBSET Players : Expel(S)

Spec == Init /\ [][Next]_lvars
=============================================================================
