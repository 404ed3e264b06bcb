---------------------------- MODULE SceneHistory ----------------------------
(***************************************************************************)
(* Scene with a history variable: which agents have had the handlers of an *)
(* enter overlap with one another or with the kick.  s.client.enter tests  *)
(* s.sname before its call and stores it after (agent/scene.lua:46-59), so *)
(* what overlaps can put a ball where nobody removes it.  SoundBalls says  *)
(* that nothing else can.                                                  *)
(***************************************************************************)
EXTENDS Scene

VARIABLE raced   \* the agents whose enters overlapped

HVars == <<vars, raced>>

(* An enter of the agent has been started and has not come back.           *)
Entering(a) == \E t \in Tasks : task[t].kind = "enter" /\ task[t].agent = a

Asks(a) == \E t \in Tasks : /\ task[t] = NoTask
                            /\ task'[t].kind = "enter" /\ task'[t].agent = a
Kicks(a) == status[a] = "up" /\ status'[a] # "up"

(* An enter starts during another one or after the kick, or the kick comes *)
(* during an enter.                                                        *)
Overlaps(a) == \/ Asks(a) /\ (Entering(a) \/ status[a] # "up")
               \/ Kicks(a) /\ Entering(a)

Record == raced' = raced \cup {a \in Agents : Overlaps(a)}

(* The steps of Scene, each recorded.                                      *)
HResume(t) == \/ Entered(t) /\ Record
              \/ Shifted(t) /\ Record
              \/ Left(t) /\ Record
              \/ Dropped(t) /\ Record

HServe(s) == \E t \in First(s) : \/ ServeEnter(s, t) /\ Record
                                 \/ ServeEnterRefused(s, t) /\ Record
                                 \/ ServeLeave(s, t) /\ Record
                                 \/ ServeLeaveRefused(s, t) /\ Record
                                 \/ ServeShift(s, t) /\ Record

HInit == Init /\ raced = {}
HNext == \/ \E a \in Agents, p \in Players : Start(a, p) /\ Record
         \/ \E t \in Tasks, a \in Agents, s \in Scenes : Enter(t, a, s) /\ Record
         \/ \E t \in Tasks, a \in Agents : \/ Shift(t, a) /\ Record
                                           \/ Kick(t, a) /\ Record
         \/ \E a \in Agents : \/ KickOutside(a) /\ Record
                              \/ KickAnswered(a) /\ Record
                              \/ Exit(a) /\ Record
         \/ \E t \in Tasks : HResume(t)
         \/ \E s \in Scenes : \/ HServe(s)
                              \/ Frame(s) /\ Record
HSpec == HInit /\ [][HNext]_HVars

-----------------------------------------------------------------------------
(* The enters of an agent that never overlapped put its player into one    *)
(* scene at most, and the ball does not outlive the agent: agent/scene.lua *)
(* 28-35 and 46-59, together with scene/init.lua:56-89.                    *)
Serving(a) == status[a] \in {"up", "leaving"}
SoundBalls ==
    \A p \in Players, s1, s2 \in Scenes :
        /\ p \in Members(s1) /\ p \in Members(s2)
        /\ balls[s1][p] \notin raced /\ balls[s2][p] \notin raced
        => s1 = s2 /\ Serving(balls[s1][p])

(* "Already in a scene" (agent/scene.lua:48) and "failed to enter" (56) are *)
(* never said of a ball that an earlier agent, or an enter the agent has    *)
(* forgotten, left behind, unless enters overlapped.                        *)
EntersGranted ==
    \A s \in Scenes : \A t \in First(s) :
        LET a == task[t].agent
        IN task[t].kind = "enter" /\ a \notin raced /\ balls[s][id[a]] \notin raced
           => id[a] \notin Members(s)
=============================================================================
