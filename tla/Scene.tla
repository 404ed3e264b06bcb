-------------------------------- MODULE Scene --------------------------------
(***************************************************************************)
(* The ball scenes (service/scene/init.lua) and the part of an agent that  *)
(* enters, shifts in and leaves them (service/agent/scene.lua, with kick   *)
(* and exit of service/agent/init.lua).                                    *)
(*                                                                         *)
(* An agent calls a scene (s.call) and keeps in s.sname which scene it is  *)
(* in.  Its handlers are coroutines, so it can start another one while a   *)
(* call is out.  The calls wait in the mailbox of the scene, which never   *)
(* yields in a handler: serving one is a single step.                      *)
(*                                                                         *)
(* Positions, speeds and sizes are left out: a frame may eat any food.     *)
(* What a scene sends to agents is applied to the list its client keeps    *)
(* when it is sent: one scene's messages reach a client in order.          *)
(***************************************************************************)
EXTENDS Naturals, FiniteSets, Sequences

CONSTANTS
    Players,   \* playerids
    Agents,    \* agent services
    Scenes,    \* scene services
    Tasks,     \* calls of a scene, named by the coroutine that waits for them
    FoodMax,   \* food_update adds none above this count (50 in the code)
    MaxFood,   \* bound: foods a scene ever makes
    Nil

ASSUME NilAssumption == Nil \notin Players \cup Agents \cup Scenes \cup Tasks
ASSUME FoodAssumption == FoodMax \in Nat /\ MaxFood \in Nat

VARIABLES
    id,          \* agent -> s.id, its player; Nil before it is started
    status,      \* agent -> how far agentmgr's kick and exit have come
    sname,       \* agent -> s.sname, the scene it believes to be in, or Nil
    task,        \* the calls of scenes that are not yet finished
    mailbox,     \* scene -> the calls it has not served
    balls,       \* scene -> player -> the agent its ball was made for, or Nil
    foods,       \* scene -> the ids in its table foods
    food_count,  \* scene -> its counter
    food_maxid,  \* scene -> the last id given to a food
    view         \* scene -> agent -> the lists of balls and foods of its client

agentVars == <<id, status, sname>>
foodVars == <<foods, food_count, food_maxid>>
vars == <<id, status, sname, task, mailbox, balls, foods, food_count,
          food_maxid, view>>

FoodIds == 1 .. MaxFood
NoTask == [kind |-> "none", agent |-> Nil, scene |-> Nil, answer |-> "none"]
NoView == [balls |-> {}, foods |-> {}]

Init == /\ id = [a \in Agents |-> Nil]
        /\ status = [a \in Agents |-> "none"]
        /\ sname = [a \in Agents |-> Nil]
        /\ task = [t \in Tasks |-> NoTask]
        /\ mailbox = [s \in Scenes |-> <<>>]
        /\ balls = [s \in Scenes |-> [p \in Players |-> Nil]]
        /\ foods = [s \in Scenes |-> {}]
        /\ food_count = [s \in Scenes |-> 0]
        /\ food_maxid = [s \in Scenes |-> 0]
        /\ view = [s \in Scenes |-> [a \in Agents |-> NoView]]

Alive(a) == status[a] \in {"up", "leaving", "sleeping", "kicked"}
Members(s) == {p \in Players : balls[s][p] # Nil}
Listeners(s) == {balls[s][p] : p \in Members(s)}

-----------------------------------------------------------------------------
(* Agents *)

(* agentmgr starts one agent for a player at a time: it has sent exit to   *)
(* the one before when it clears the entry, and a start takes two seconds, *)
(* in which that message has arrived.                                      *)
Start(a, p) == /\ status[a] = "none"
               /\ \A b \in Agents : id[b] = p => status[b] = "gone"
               /\ id' = [id EXCEPT ![a] = p]
               /\ status' = [status EXCEPT ![a] = "up"]
               /\ UNCHANGED <<sname, task, mailbox, balls, foodVars, view>>

(* s.call(snode, sname, kind, s.id) *)
Call(t, a, s, kind) ==
    /\ task[t] = NoTask
    /\ task' = [task EXCEPT ![t] = [kind |-> kind, agent |-> a, scene |-> s,
                                    answer |-> "none"]]
    /\ mailbox' = [mailbox EXCEPT ![s] = Append(@, t)]
    /\ UNCHANGED <<id, sname, balls, foodVars, view>>

(* The client asks to enter; random_scene picks the scene.                 *)
EnterBug(t, a, s) == Alive(a) /\ Call(t, a, s, "enter") /\ UNCHANGED status
Enter(t, a, s) == /\ Alive(a)
                  /\ sname[a] = Nil
                  /\ Call(t, a, s, "enter")
                  /\ UNCHANGED status

Shift(t, a) == /\ Alive(a)
               /\ sname[a] # Nil
               /\ Call(t, a, sname[a], "shift")
               /\ UNCHANGED status

(* agentmgr calls kick, once per agent: leave_scene, if it is in one.      *)
Kick(t, a) == /\ status[a] = "up"
              /\ sname[a] # Nil
              /\ Call(t, a, sname[a], "leave")
              /\ status' = [status EXCEPT ![a] = "leaving"]

KickOutsideBug(a) == /\ status[a] = "up"
                     /\ status' = [status EXCEPT ![a] = "sleeping"]
                     /\ UNCHANGED <<id, sname, task, mailbox, balls, foodVars, view>>
KickOutside(a) == /\ status[a] = "up"
                  /\ sname[a] = Nil
                  /\ status' = [status EXCEPT ![a] = "sleeping"]
                  /\ UNCHANGED <<id, sname, task, mailbox, balls, foodVars, view>>

(* The two seconds are over and agentmgr gets its answer.                  *)
KickAnswered(a) == /\ status[a] = "sleeping"
                   /\ status' = [status EXCEPT ![a] = "kicked"]
                   /\ UNCHANGED <<id, sname, task, mailbox, balls, foodVars, view>>

(* skynet.exit ends the coroutines of the agent; their calls stay sent.    *)
Exit(a) == /\ status[a] = "kicked"
           /\ status' = [status EXCEPT ![a] = "gone"]
           /\ UNCHANGED <<id, sname, task, mailbox, balls, foodVars, view>>

(* The answer of a scene resumes the coroutine that waits for it.          *)
Resumed(t, kind) == /\ task[t].kind = kind
                    /\ task[t].answer # "none"
                    /\ Alive(task[t].agent)
                    /\ task' = [task EXCEPT ![t] = NoTask]
                    /\ UNCHANGED <<id, mailbox, balls, foodVars, view>>

EnteredBug(t) == /\ Resumed(t, "enter")
                 /\ sname' = [sname EXCEPT ![task[t].agent] = task[t].scene]
                 /\ UNCHANGED status
Entered(t) == /\ Resumed(t, "enter")
              /\ sname' = IF task[t].answer = "true"
                          THEN [sname EXCEPT ![task[t].agent] = task[t].scene]
                          ELSE sname
              /\ UNCHANGED status

Shifted(t) == Resumed(t, "shift") /\ UNCHANGED <<sname, status>>

LeftKeepsBug(t) == /\ Resumed(t, "leave")
                   /\ status' = [status EXCEPT ![task[t].agent] = "sleeping"]
                   /\ UNCHANGED sname
Left(t) == /\ Resumed(t, "leave")
           /\ sname' = [sname EXCEPT ![task[t].agent] = Nil]
           /\ status' = [status EXCEPT ![task[t].agent] = "sleeping"]

(* An answer to an agent that has gone is dropped.                         *)
Dropped(t) == /\ task[t].answer # "none"
              /\ ~Alive(task[t].agent)
              /\ task' = [task EXCEPT ![t] = NoTask]
              /\ UNCHANGED <<agentVars, mailbox, balls, foodVars, view>>

-----------------------------------------------------------------------------
(* Scenes *)

First(s) == IF mailbox[s] = <<>> THEN {} ELSE {Head(mailbox[s])}

(* The scene takes the first call from its mailbox and answers it.         *)
Serve(s, t, kind, answer) ==
    /\ task[t].kind = kind
    /\ mailbox' = [mailbox EXCEPT ![s] = Tail(@)]
    /\ task' = [task EXCEPT ![t].answer = answer]
    /\ UNCHANGED <<agentVars, foodVars>>

(* enter: the others are told, then the new ball gets both lists.          *)
ServeEnter(s, t) ==
    LET a == task[t].agent
        p == id[a]
    IN  /\ p \notin Members(s)
        /\ Serve(s, t, "enter", "true")
        /\ balls' = [balls EXCEPT ![s][p] = a]
        /\ view' = [view EXCEPT ![s] =
               [b \in Agents |->
                   IF b = a THEN [balls |-> Members(s) \cup {p}, foods |-> foods[s]]
                   ELSE IF b \in Listeners(s)
                        THEN [balls |-> view[s][b].balls \cup {p}, foods |-> view[s][b].foods]
                        ELSE view[s][b]]]

ServeEnterRefused(s, t) == /\ id[task[t].agent] \in Members(s)
                           /\ Serve(s, t, "enter", "false")
                           /\ UNCHANGED <<balls, view>>

(* leave: the ball is removed, then those that are left are told.  The     *)
(* client that left keeps no list.                                         *)
AfterLeaveBug(s, p, b) == IF b = balls[s][p] THEN NoView ELSE view[s][b]
AfterLeave(s, p, b) ==
    IF b = balls[s][p] THEN NoView
    ELSE IF b \in Listeners(s)
         THEN [balls |-> view[s][b].balls \ {p}, foods |-> view[s][b].foods]
         ELSE view[s][b]

ServeLeave(s, t) ==
    LET p == id[task[t].agent]
    IN  /\ p \in Members(s)
        /\ Serve(s, t, "leave", "nil")
        /\ balls' = [balls EXCEPT ![s][p] = Nil]
        /\ view' = [view EXCEPT ![s] = [b \in Agents |-> AfterLeave(s, p, b)]]

ServeLeaveRefused(s, t) == /\ id[task[t].agent] \notin Members(s)
                           /\ Serve(s, t, "leave", "false")
                           /\ UNCHANGED <<balls, view>>

(* shift sets the speed of the ball, if there is one.                      *)
ServeShift(s, t) == Serve(s, t, "shift", "nil") /\ UNCHANGED <<balls, view>>

(* food_update: with some luck and if there are not too many, a new food.  *)
MayGrowBug(s) == food_maxid[s] < MaxFood
MayGrow(s) == food_count[s] <= FoodMax /\ food_maxid[s] < MaxFood

CountAfterBug(s, grown, eaten) == food_count[s] + grown
CountAfter(s, grown, eaten) == food_count[s] + grown - Cardinality(eaten)

(* One frame: a food may be made, and balls eat some of those there are    *)
(* (none, when a speed that is no number makes move_update raise before).  *)
(* Every member is told of each food that comes and each that is eaten.    *)
Frame(s) ==
    \E grown \in IF MayGrow(s) THEN {0, 1} ELSE {0} :
      LET new == IF grown = 1 THEN {food_maxid[s] + 1} ELSE {}
      IN  \E eaten \in SUBSET (foods[s] \cup new) :
            /\ Members(s) = {} => eaten = {}
            /\ foods' = [foods EXCEPT ![s] = (@ \cup new) \ eaten]
            /\ food_count' = [food_count EXCEPT ![s] = CountAfter(s, grown, eaten)]
            /\ food_maxid' = [food_maxid EXCEPT ![s] = @ + grown]
            /\ view' = [view EXCEPT ![s] =
                   [b \in Agents |->
                       IF b \in Listeners(s)
                       THEN [balls |-> view[s][b].balls,
                             foods |-> (view[s][b].foods \cup new) \ eaten]
                       ELSE view[s][b]]]
            /\ UNCHANGED <<agentVars, task, mailbox, balls>>

-----------------------------------------------------------------------------
SceneStep(s) == \E t \in First(s) : \/ ServeEnter(s, t) \/ ServeEnterRefused(s, t)
                                    \/ ServeLeave(s, t) \/ ServeLeaveRefused(s, t)
                                    \/ ServeShift(s, t)

Resume(t) == Entered(t) \/ Shifted(t) \/ Left(t) \/ Dropped(t)

Next == \/ \E a \in Agents, p \in Players : Start(a, p)
        \/ \E t \in Tasks, a \in Agents, s \in Scenes : Enter(t, a, s)
        \/ \E t \in Tasks, a \in Agents : Shift(t, a) \/ Kick(t, a)
        \/ \E a \in Agents : KickOutside(a) \/ KickAnswered(a) \/ Exit(a)
        \/ \E t \in Tasks : Resume(t)
        \/ \E s \in Scenes : SceneStep(s) \/ Frame(s)

Spec == Init /\ [][Next]_vars

-----------------------------------------------------------------------------
Request == [kind : {"none", "enter", "shift", "leave"}, agent : Agents \cup {Nil},
            scene : Scenes \cup {Nil}, answer : {"none", "true", "false", "nil"}]
View == [balls : SUBSET Players, foods : SUBSET FoodIds]

(* Every variable has its type; food_count exceeds its limit by one at     *)
(* most (food_update tests > 50 before it adds one).                       *)
TypeOK ==
    /\ id \in [Agents -> Players \cup {Nil}]
    /\ status \in [Agents -> {"none", "up", "leaving", "sleeping", "kicked", "gone"}]
    /\ sname \in [Agents -> Scenes \cup {Nil}]
    /\ task \in [Tasks -> Request]
    /\ mailbox \in [Scenes -> Seq(Tasks)]
    /\ balls \in [Scenes -> [Players -> Agents \cup {Nil}]]
    /\ foods \in [Scenes -> SUBSET FoodIds]
    /\ food_count \in [Scenes -> 0 .. FoodMax + 1]
    /\ food_maxid \in [Scenes -> 0 .. MaxFood]
    /\ view \in [Scenes -> [Agents -> View]]

(* The scene an agent believes to be in has a ball, and it is the one made *)
(* for this agent, unless the agent is just leaving: s.sname, stored after *)
(* the call of enter (agent/scene.lua:52-57), is never stale.              *)
KnownBall == \A a \in Agents :
    Alive(a) /\ status[a] # "leaving" /\ sname[a] # Nil =>
        balls[sname[a]][id[a]] = a

(* A leave or shift, named by playerid only, acts on the ball of the agent *)
(* that sent it and never on that of a later agent of the same player      *)
(* (scene/init.lua:81-98 does not look at source).                         *)
ActsOnOwnBall == \A s \in Scenes : \A t \in First(s) :
    task[t].kind \in {"shift", "leave"} =>
        balls[s][id[task[t].agent]] \in {task[t].agent, Nil}

(* What the members of a scene have been sent adds up to what the scene    *)
(* holds: balllist and foodlist on entering, then every enter, leave,      *)
(* addfood and eat (scene/init.lua:56-89,112-143).                         *)
Synced == \A s \in Scenes, p \in Players :
    balls[s][p] # Nil =>
        view[s][balls[s][p]] = [balls |-> Members(s), foods |-> foods[s]]

(* food_count is the number of foods, although it is kept by hand in two   *)
(* places (scene/init.lua:122,136).                                        *)
FoodCounted == \A s \in Scenes : food_count[s] = Cardinality(foods[s])

(* A player is in one scene at most: enter answers "already in a scene" to *)
(* one that is (agent/scene.lua:47-49).                                    *)
OneScene == \A p \in Players, s1, s2 \in Scenes :
    p \in Members(s1) /\ p \in Members(s2) => s1 = s2
=============================================================================
