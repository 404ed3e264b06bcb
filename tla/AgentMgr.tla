------------------------------ MODULE AgentMgr ------------------------------
(***************************************************************************)
(* The agentmgr service (service/agentmgr/init.lua): the directory of the  *)
(* players that are logged in anywhere in the cluster.  One coroutine of   *)
(* the service runs at a time and gives up control only in a call (s.call) *)
(* or in skynet.sleep, so each action below is one uninterrupted stretch   *)
(* of a handler, from the message that resumes it to the next yield.       *)
(*                                                                         *)
(* The services it talks to are its environment: anyone may send reqlogin, *)
(* reqkick and shutdown at any time, nodemgr answers a launch with an      *)
(* agent (or fails), an agent answers kick and later leaves on exit.       *)
(*                                                                         *)
(* A definition named ...Bug is a wrong form of the one that follows it,   *)
(* kept to show which property notices.                                    *)
(***************************************************************************)
EXTENDS Naturals, FiniteSets

CONSTANTS
    Players,        \* playerids
    Gates,          \* the gateway services a login can come through
    Agents,         \* handles of agent services
    Tasks,          \* handler coroutines; also names the mgrplayer one creates
    KickNum,        \* the num argument of shutdown (admin passes 3)
    LaunchMayFail,  \* can skynet.newservice fail?
    NodeMayFail,    \* can the node of an agent go down?
    Nil

ASSUME NilAssumption == Nil \notin Players \cup Gates \cup Agents \cup Tasks
ASSUME KickNumAssumption == KickNum \in Nat
ASSUME PlayersAssumption == IsFiniteSet(Players)
ASSUME FailureAssumption == LaunchMayFail \in BOOLEAN /\ NodeMayFail \in BOOLEAN

VARIABLES
    players,  \* playerid -> its mgrplayer object, or Nil
    obj,      \* the mgrplayer objects, each named by the task that made it
    pc,       \* where each coroutine stands
    tgt,      \* the mgrplayer a coroutine holds in a local across a yield
    cnt,      \* the local count of a running shutdown
    ret,      \* the response a finished coroutine has sent
    forked,   \* objects whose reqkick runs in a coroutine forked by shutdown
    agent     \* the agent services

vars == <<players, obj, pc, tgt, cnt, ret, forked, agent>>

NoObj == [p |-> Nil, status |-> "none", agent |-> Nil, gate |-> Nil]
NoRet == [ok |-> "none", agent |-> Nil]
Answer(ok) == [ok |-> ok, agent |-> Nil]

Status(p) == IF players[p] = Nil THEN "none" ELSE obj[players[p]].status
Online == {p \in Players : players[p] # Nil}

(* A coroutine that can be created; the mgrplayer it may make gets its name. *)
Free(t) == pc[t] = "idle" /\ obj[t] = NoObj

(* Objects with a reqkick waiting for the agent to answer "kick". *)
Kicking == {tgt[t] : t \in {u \in Tasks : pc[u] = "kick"}} \cup forked

Reply(t, r) == /\ pc' = [pc EXCEPT ![t] = "ret"]
               /\ ret' = [ret EXCEPT ![t] = r]
               /\ tgt' = [tgt EXCEPT ![t] = Nil]

Init == /\ players = [p \in Players |-> Nil]
        /\ obj = [t \in Tasks |-> NoObj]
        /\ pc = [t \in Tasks |-> "idle"]
        /\ tgt = [t \in Tasks |-> Nil]
        /\ cnt = [t \in Tasks |-> 0]
        /\ ret = [t \in Tasks |-> NoRet]
        /\ forked = {}
        /\ agent = [a \in Agents |-> "free"]

-----------------------------------------------------------------------------
(* reqlogin *)

(* The table has no entry for the player, or it has one in GAME.           *)
MayEnterBug(p) == Status(p) # "GAME"
MayEnter(p) == Status(p) = "none"

(* The new agent is stored and the entry moves to GAME.                    *)
AdmittedBug(o, a) == [obj EXCEPT ![o] = [@ EXCEPT !.agent = a]]
Admitted(o, a) == [obj EXCEPT ![o] = [p |-> @.p, status |-> "GAME",
                                      agent |-> a, gate |-> @.gate]]

(* A player in LOGIN or LOGOUT is refused. *)
ReqLoginRefused(t, p) ==
    /\ Free(t)
    /\ Status(p) \in {"LOGIN", "LOGOUT"}
    /\ Reply(t, Answer("false"))
    /\ UNCHANGED <<players, obj, cnt, forked, agent>>

(* A player in GAME is meant to be replaced, but pagent is read from the   *)
(* field "agnet" and is nil: s.call(pnode, nil, "kick") raises before the  *)
(* multiple assignment stores LOGOUT, the dispatcher's xpcall answers the  *)
(* caller with nothing, and the table is as before.                        *)
ReqLoginReplace(t, p) ==
    /\ Free(t)
    /\ Status(p) = "GAME"
    /\ Reply(t, Answer("nil"))
    /\ UNCHANGED <<players, obj, cnt, forked, agent>>

(* A new player is entered in LOGIN and nodemgr is called. *)
ReqLogin(t, p, g) ==
    /\ Free(t)
    /\ MayEnter(p)
    /\ obj' = [obj EXCEPT ![t] = [p |-> p, status |-> "LOGIN",
                                  agent |-> Nil, gate |-> g]]
    /\ players' = [players EXCEPT ![p] = t]
    /\ pc' = [pc EXCEPT ![t] = "launch"]
    /\ tgt' = [tgt EXCEPT ![t] = t]
    /\ UNCHANGED <<cnt, ret, forked, agent>>

(* nodemgr answers with the new agent; the coroutine writes to the object  *)
(* it kept in a local, not to whatever the table holds now.                *)
LaunchReturns(t, a) ==
    /\ pc[t] = "launch"
    /\ agent[a] = "free"
    /\ obj' = Admitted(tgt[t], a)
    /\ agent' = [agent EXCEPT ![a] = "up"]
    /\ Reply(t, [ok |-> "true", agent |-> a])
    /\ UNCHANGED <<players, cnt, forked>>

(* newservice raised inside nodemgr: its dispatcher answers nothing, agent *)
(* is nil, and reqlogin carries on to GAME and returns true, nil.          *)
LaunchFails(t) ==
    /\ LaunchMayFail
    /\ pc[t] = "launch"
    /\ obj' = Admitted(tgt[t], Nil)
    /\ Reply(t, Answer("true"))
    /\ UNCHANGED <<players, cnt, forked, agent>>

(* The node of nodemgr went down: cluster.call raises, and the entry of    *)
(* the player stays in LOGIN.                                              *)
LaunchRaises(t) ==
    /\ NodeMayFail
    /\ pc[t] = "launch"
    /\ Reply(t, Answer("nil"))
    /\ UNCHANGED <<players, obj, cnt, forked, agent>>

-----------------------------------------------------------------------------
(* reqkick *)

MayKickBug(p) == Status(p) # "none"
MayKick(p) == Status(p) = "GAME"

(* LOGOUT is stored before the agent is called.                            *)
LeavingBug(S) == obj
Leaving(S) == [o \in Tasks |-> IF o \in S THEN [obj[o] EXCEPT !.status = "LOGOUT"]
                                          ELSE obj[o]]

ReqKickRefused(t, p) ==
    /\ Free(t)
    /\ ~MayKick(p)
    /\ Reply(t, Answer("false"))
    /\ UNCHANGED <<players, obj, cnt, forked, agent>>

(* LOGOUT is stored, then the agent is called.                             *)
ReqKick(t, p) ==
    /\ Free(t)
    /\ MayKick(p)
    /\ obj[players[p]].agent # Nil
    /\ obj' = Leaving({players[p]})
    /\ pc' = [pc EXCEPT ![t] = "kick"]
    /\ tgt' = [tgt EXCEPT ![t] = players[p]]
    /\ UNCHANGED <<players, cnt, ret, forked, agent>>

(* Without an agent the call raises after LOGOUT has been stored.          *)
ReqKickNoAgent(t, p) ==
    /\ Free(t)
    /\ MayKick(p)
    /\ obj[players[p]].agent = Nil
    /\ obj' = Leaving({players[p]})
    /\ Reply(t, Answer("nil"))
    /\ UNCHANGED <<players, cnt, forked, agent>>

(* exit is sent to the agent.                                              *)
ExitSentBug(a) == agent
ExitSent(a) == [agent EXCEPT ![a] = "exiting"]

(* The agent has answered: exit is sent to it, kick to the gate, and the   *)
(* entry of the player is cleared.                                         *)
ClearEntry(o) ==
    /\ agent[obj[o].agent] = "kicked"
    /\ agent' = ExitSent(obj[o].agent)
    /\ players' = [players EXCEPT ![obj[o].p] = Nil]
    /\ obj' = [obj EXCEPT ![o] = NoObj]

KickReturns(t) ==
    /\ pc[t] = "kick"
    /\ ClearEntry(tgt[t])
    /\ Reply(t, Answer("true"))
    /\ UNCHANGED <<cnt, forked>>

ForkedKickReturns(o) ==
    /\ o \in forked
    /\ ClearEntry(o)
    /\ forked' = forked \ {o}
    /\ UNCHANGED <<pc, tgt, cnt, ret>>

(* The node of the agent went down: the call raises, and the entry of the  *)
(* player stays in LOGOUT.                                                 *)
KickRaises(t) ==
    /\ pc[t] = "kick"
    /\ agent[obj[tgt[t]].agent] = "dead"
    /\ Reply(t, Answer("nil"))
    /\ UNCHANGED <<players, obj, cnt, forked, agent>>

ForkedKickRaises(o) ==
    /\ o \in forked
    /\ agent[obj[o].agent] = "dead"
    /\ forked' = forked \ {o}
    /\ UNCHANGED <<players, obj, pc, tgt, cnt, ret, agent>>

-----------------------------------------------------------------------------
(* shutdown *)

(* The loop over pairs(players) forks a reqkick per entry and leaves after *)
(* KickNum + 1 of them; the forked coroutines run up to their first yield  *)
(* in the same message dispatch.                                           *)
BatchSizeBug == KickNum - 1
BatchSize == KickNum + 1

Batches == {S \in SUBSET Online :
               \/ S = Online /\ Cardinality(S) <= BatchSize
               \/ Cardinality(S) = BatchSize}

(* get_online_count *)
Count == Cardinality(Online)

Shutdown(t) ==
    \E S \in Batches :
        LET hit == {players[p] : p \in {q \in S : MayKick(q)}} IN
        /\ Free(t)
        /\ cnt' = [cnt EXCEPT ![t] = Count]
        /\ obj' = Leaving(hit)
        /\ forked' = forked \cup {o \in hit : obj[o].agent # Nil}
        /\ pc' = [pc EXCEPT ![t] = "wait"]
        /\ UNCHANGED <<players, tgt, ret, agent>>

(* Every two seconds the number of entries left is looked at.  The value   *)
(* returned is abstracted to whether it is still positive.                 *)
EnoughGoneBug(t) == Online = {}
EnoughGone(t) == Online = {} \/ Count + KickNum <= cnt[t]

ShutdownSleeps(t) == pc[t] = "wait" /\ ~EnoughGone(t) /\ UNCHANGED vars

ShutdownReturns(t) ==
    /\ pc[t] = "wait"
    /\ EnoughGone(t)
    /\ Reply(t, Answer(IF Online = {} THEN "zero" ELSE "more"))
    /\ cnt' = [cnt EXCEPT ![t] = 0]
    /\ UNCHANGED <<players, obj, forked, agent>>

-----------------------------------------------------------------------------
(* The environment *)

(* The response has reached the caller; the coroutine is gone.             *)
Answered(t) ==
    /\ pc[t] = "ret"
    /\ pc' = [pc EXCEPT ![t] = "idle"]
    /\ ret' = [ret EXCEPT ![t] = NoRet]
    /\ UNCHANGED <<players, obj, tgt, cnt, forked, agent>>

(* An agent handles kick: it leaves its scene, sleeps, and answers.        *)
AgentKick(a) ==
    /\ agent[a] = "up"
    /\ \E o \in Kicking : obj[o].agent = a
    /\ agent' = [agent EXCEPT ![a] = "kicked"]
    /\ UNCHANGED <<players, obj, pc, tgt, cnt, ret, forked>>

(* An agent handles exit; its handle may name a later service.             *)
AgentExit(a) ==
    /\ agent[a] = "exiting"
    /\ \A t \in Tasks : ret[t].agent # a
    /\ agent' = [agent EXCEPT ![a] = "free"]
    /\ UNCHANGED <<players, obj, pc, tgt, cnt, ret, forked>>

(* The node of an agent goes down.                                         *)
AgentDies(a) ==
    /\ NodeMayFail
    /\ agent[a] \in {"up", "kicked", "exiting"}
    /\ agent' = [agent EXCEPT ![a] = "dead"]
    /\ UNCHANGED <<players, obj, pc, tgt, cnt, ret, forked>>

Request(t) ==
    \/ \E p \in Players : \/ ReqLoginRefused(t, p)
                          \/ ReqLoginReplace(t, p)
                          \/ \E g \in Gates : ReqLogin(t, p, g)
                          \/ ReqKickRefused(t, p)
                          \/ ReqKick(t, p)
                          \/ ReqKickNoAgent(t, p)
    \/ Shutdown(t)

Resume(t) == \/ \E a \in Agents : LaunchReturns(t, a)
             \/ LaunchFails(t)
             \/ LaunchRaises(t)
             \/ KickReturns(t)
             \/ KickRaises(t)
             \/ ShutdownSleeps(t)
             \/ ShutdownReturns(t)

Next == \/ \E t \in Tasks : Request(t) \/ Resume(t) \/ Answered(t)
        \/ \E o \in Tasks : ForkedKickReturns(o) \/ ForkedKickRaises(o)
        \/ \E a \in Agents : AgentKick(a) \/ AgentExit(a) \/ AgentDies(a)

(* The services answer what they are sent and the scheduler resumes every  *)
(* coroutine whose message has arrived; requests need not come.  A launch  *)
(* is strongly fair because the few handles in Agents may all be taken     *)
(* each time the others are looked at, where skynet has 2^24 of them.      *)
Fairness == /\ \A t \in Tasks : /\ WF_vars(Resume(t))
                                /\ WF_vars(Answered(t))
                                /\ SF_vars(\E a \in Agents : LaunchReturns(t, a))
            /\ \A o \in Tasks : WF_vars(ForkedKickReturns(o) \/ ForkedKickRaises(o))
            /\ \A a \in Agents : WF_vars(AgentKick(a)) /\ WF_vars(AgentExit(a))

Spec == Init /\ [][Next]_vars
FairSpec == Spec /\ Fairness

-----------------------------------------------------------------------------
(* Properties *)

Entry == [p : Players \cup {Nil}, status : {"none", "LOGIN", "GAME", "LOGOUT"},
          agent : Agents \cup {Nil}, gate : Gates \cup {Nil}]

(* Types: every variable of the service holds a value of its kind.         *)
TypeOK ==
    /\ players \in [Players -> Tasks \cup {Nil}]
    /\ obj \in [Tasks -> Entry]
    /\ pc \in [Tasks -> {"idle", "launch", "kick", "wait", "ret"}]
    /\ tgt \in [Tasks -> Tasks \cup {Nil}]
    /\ cnt \in [Tasks -> Nat]
    /\ ret \in [Tasks -> [ok : {"none", "true", "false", "nil", "zero", "more"},
                          agent : Agents \cup {Nil}]]
    /\ forked \in SUBSET Tasks
    /\ agent \in [Agents -> {"free", "up", "kicked", "exiting", "dead"}]

(* What the table and its objects say of each other: an object is live as  *)
(* long as it is the entry of its player, and only then has a status.      *)
EntriesMatch ==
    /\ \A p \in Players : players[p] # Nil =>
          obj[players[p]].p = p /\ obj[players[p]].status # "none"
    /\ \A o \in Tasks : obj[o].status # "none" =>
          obj[o].p \in Players /\ players[obj[o].p] = o

(* reqlogin and reqkick write, after a call, to the object they kept in a  *)
(* local: it is still the entry of its player, in the status the coroutine *)
(* left it in, and no other coroutine waits on it.                         *)
LocalsCurrent ==
    /\ \A t \in Tasks : pc[t] = "launch" =>
          tgt[t] = t /\ obj[t].status = "LOGIN" /\ obj[t].agent = Nil
    /\ \A t \in Tasks : pc[t] = "kick" =>
          /\ tgt[t] \in Tasks \ forked
          /\ obj[tgt[t]].status = "LOGOUT" /\ obj[tgt[t]].agent # Nil
          /\ \A u \in Tasks : pc[u] = "kick" /\ tgt[u] = tgt[t] => u = t
    /\ \A o \in forked : obj[o].status = "LOGOUT" /\ obj[o].agent # Nil

(* An agent that serves is the agent of exactly one player, and a player's *)
(* agent serves until the entry goes: reqlogin and reqkick neither leave   *)
(* an agent running that nobody can kick nor clear an entry too early.     *)
OneAgentPerPlayer ==
    /\ \A a \in Agents : agent[a] \in {"up", "kicked"} =>
          \E o \in Tasks : obj[o].agent = a
    /\ \A o \in Tasks : obj[o].agent # Nil =>
          /\ obj[o].status \in {"GAME", "LOGOUT"}
          /\ agent[obj[o].agent] \in {"up", "kicked", "dead"}
          /\ \A q \in Tasks : obj[q].agent = obj[o].agent => q = o

(* A player in GAME with an agent is served by one that nobody has asked   *)
(* to leave: only reqkick, after it stores LOGOUT, calls kick.             *)
GameIsServed ==
    \A o \in Tasks : obj[o].status = "GAME" /\ obj[o].agent # Nil =>
        agent[obj[o].agent] \in {"up", "dead"}

(* What an entry under way is waited on by: one in LOGIN by the coroutine  *)
(* that launches its agent, one in LOGOUT by a reqkick; and the agent that *)
(* reqkick needs is there.                                                 *)
ServedBy(p) == IF players[p] = Nil THEN Nil ELSE obj[players[p]].agent
Tended(p) ==
    /\ Status(p) = "LOGIN" => pc[players[p]] = "launch"
    /\ Status(p) = "LOGOUT" => players[p] \in Kicking
    /\ Status(p) \in {"GAME", "LOGOUT"} => ServedBy(p) # Nil

(* An entry is left to itself only by a failure of its own: its launch     *)
(* fails or raises, or the node of its agent is down.  Whatever else the   *)
(* coroutines do, and whatever fails for other players, each entry keeps   *)
(* the coroutine that takes it further (agentmgr/init.lua:52-55,71-76).    *)
OwnFailure(p) ==
    /\ players[p] # Nil
    /\ \/ LaunchFails(players[p])
       \/ LaunchRaises(players[p])
       \/ ServedBy(p) # Nil /\ agent[ServedBy(p)] = "dead"
NobodyStranded == [][\A p \in Players : Tended(p) /\ ~Tended(p)' => OwnFailure(p)]_vars

(* A player's entry moves from LOGIN to GAME to LOGOUT and then goes; it   *)
(* is never replaced by another entry, and a new one starts in LOGIN.      *)
StatusMoves(p) ==
    LET from == Status(p) to == Status(p)' IN
    \/ from = to /\ players'[p] = players[p]
    \/ from = "none" /\ to = "LOGIN"
    \/ from = "LOGIN" /\ to = "GAME" /\ players'[p] = players[p]
    \/ from = "GAME" /\ to = "LOGOUT" /\ players'[p] = players[p]
    \/ from = "LOGOUT" /\ to = "none"
StatusOrder == [][\A p \in Players : StatusMoves(p)]_vars

(* As many entries are on their way out as the waiting shutdown needs.     *)
EnoughLeaving(t) ==
    LET staying == {p \in Online : Status(p) # "LOGOUT"} IN
    staying = {} \/ Cardinality(staying) + KickNum <= cnt[t]

(* The batch a shutdown forks is large enough for its wait to end: unless  *)
(* an entry was in LOGIN, whose reqkick is refused, enough entries leave.  *)
BatchSuffices ==
    [][\A t \in Tasks :
         (/\ pc[t] = "idle" /\ pc'[t] = "wait"
          /\ \A p \in Players : Status(p) # "LOGIN") => EnoughLeaving(t)']_vars

(* Every login, kick and forked kick comes to its end when no service      *)
(* fails: a player in LOGIN is in GAME later, one in LOGOUT is removed.    *)
EntriesProgress ==
    \A p \in Players : /\ Status(p) = "LOGIN" ~> Status(p) = "GAME"
                       /\ Status(p) = "LOGOUT" ~> Status(p) = "none"

(* Once no more players log in, a shutdown that has enough entries leaving *)
(* returns, unless one that came meanwhile stays.  While others leave and  *)
(* enter it may wait on for ever: it looks every two seconds and can miss  *)
(* each moment in which few enough are left (agentmgr/init.lua:102-109).   *)
ShutdownEnds ==
    <>[](\A p \in Players : Status(p) # "LOGIN") =>
        \A t \in Tasks : pc[t] = "wait" /\ EnoughLeaving(t)
                            ~> pc[t] = "ret" \/ ~EnoughLeaving(t)

(* What the service promises about players, see PlayerLifecycle.           *)
Lifecycle == INSTANCE PlayerLifecycle WITH
    phase <- [p \in Players |-> Status(p)],
    servedBy <- [p \in Players |-> ServedBy(p)]
LifecycleSpec == Lifecycle!Spec
=============================================================================
