------------------------------ MODULE Session -------------------------------
(***************************************************************************)
(* The life of a session: a gateway, the login services, agentmgr and the  *)
(* agents of one node, joined by their mailboxes.  A message is sent by    *)
(* appending it to the mailbox of a service, which takes its messages in   *)
(* order; a call also leaves the caller waiting for the answer.            *)
(*                                                                         *)
(* Gateway and AgentMgr are used as they are; this module adds the login   *)
(* service (service/login/init.lua) and says who sends what to whom.       *)
(* Messages of agents to their clients are left out (MaxSend is 0): the    *)
(* module Gateway checks that path.                                        *)
(*                                                                         *)
(* A definition named ...Bug is a wrong form of the one that follows it,   *)
(* kept to show which property notices.                                    *)
(***************************************************************************)
EXTENDS Naturals, Sequences, FiniteSets

CONSTANTS
    Players, Fds, Agents, Nil,
    Tasks,      \* coroutines of agentmgr
    Logins,     \* coroutines of the login services
    Objs,       \* gateplayers
    KickNum,    \* the num argument of shutdown
    MaxTimers,  \* bound: timers running for one gateplayer
    MaxStops,   \* bound: shutdowns asked for
    Prompt,     \* do messages arrive faster than the 2 s and 30 s waits?
    TheGate     \* the name of the gateway

ASSUME SessionAssumption ==
    /\ Nil \notin Logins \cup {TheGate} \cup Players \cup Fds \cup Agents \cup Tasks \cup Objs
    /\ IsFiniteSet(Players)
    /\ {KickNum, MaxTimers, MaxStops} \subseteq Nat /\ Prompt \in BOOLEAN

VARIABLES
    mPlayers, mObj, mPc, mTgt, mCnt, mRet, mForked, mAgent,        \* AgentMgr
    conns, bound, gPlayers, gp, sent, got, timers, loop, closing, asked, \* Gateway
    lg,       \* the login coroutines
    caller,   \* the login coroutine that waits for a task of agentmgr, or Nil
    toMgr,    \* mailbox of agentmgr
    toGate,   \* mailbox of the gateway
    owner,    \* history: the player each agent was started for
    stops     \* shutdowns asked for

mgrVars == <<mPlayers, mObj, mPc, mTgt, mCnt, mRet, mForked, mAgent>>
gateVars == <<conns, bound, gPlayers, gp, sent, got, timers, loop, closing, asked>>
vars == <<mgrVars, gateVars, lg, caller, toMgr, toGate, owner, stops>>

M == INSTANCE AgentMgr WITH
        players <- mPlayers, obj <- mObj, pc <- mPc, tgt <- mTgt, cnt <- mCnt,
        ret <- mRet, forked <- mForked, agent <- mAgent,
        Gates <- {TheGate}, LaunchMayFail <- FALSE, NodeMayFail <- FALSE
G == INSTANCE Gateway WITH players <- gPlayers, CacheMax <- 0, MaxSend <- 0, Unpackable <- {}

NoLogin == [st |-> "idle", fd |-> Nil, p |-> Nil]

(* One shape for the messages of both mailboxes.                           *)
Msg(k, p, l) == [k |-> k, p |-> p, l |-> l, a |-> Nil]
Sure(p, l, a) == [k |-> "sure_agent", p |-> p, l |-> l, a |-> a]

Init == /\ M!Init /\ G!Init
        /\ lg = [l \in Logins |-> NoLogin]
        /\ caller = [t \in Tasks |-> Nil]
        /\ toMgr = <<>> /\ toGate = <<>>
        /\ owner = [a \in Agents |-> Nil]
        /\ stops = 0

(* Nothing is on its way: no message waits and no answer is due.           *)
Settled == /\ toMgr = <<>> /\ toGate = <<>>
           /\ \A t \in Tasks : mPc[t] # "ret"
           /\ \A a \in Agents : mAgent[a] # "kicked"

(* Waits of two seconds and more end after everything else has settled, if *)
(* the system is prompt.                                                   *)
WaitEnds == Prompt => Settled

-----------------------------------------------------------------------------
(* The gateway's sockets and timers *)

(* A line on a new socket: client login, for whatever player it names.     *)
StartedBug(l, fd, p) ==
    [k \in Logins |-> IF k = l THEN [st |-> "query", fd |-> fd, p |-> p]
                     ELSE IF lg[k] = NoLogin THEN NoLogin ELSE [lg[k] EXCEPT !.p = p]]
Started(l, fd, p) == [lg EXCEPT ![l] = [st |-> "query", fd |-> fd, p |-> p]]

LoginLine(fd, p, l) ==
    /\ lg[l] = NoLogin
    /\ G!LineToLogin(fd)
    /\ lg' = Started(l, fd, p)
    /\ UNCHANGED <<mgrVars, caller, toMgr, toGate, owner, stops>>

Socket(fd) ==
    /\ \/ G!Connect(fd) \/ G!ConnectIgnored(fd) \/ G!LineRaises(fd)
       \/ \E p \in Players : G!Reconnect(fd, p)
       \/ G!GoneUnread(fd)
       \/ G!CloseUnbound(fd) \/ G!CloseBound(fd) \/ G!CloseRaises(fd)
    /\ UNCHANGED <<mgrVars, lg, caller, toMgr, toGate, owner, stops>>

Timer(o) ==
    /\ WaitEnds
    /\ G!TimerFires(o)
    /\ toMgr' = IF asked' = {} THEN toMgr ELSE Append(toMgr, Msg("reqkick", gp[o].p, Nil))
    /\ UNCHANGED <<mgrVars, lg, caller, toGate, owner, stops>>

-----------------------------------------------------------------------------
(* login *)

(* The password is wrong, or the query raises: the coroutine is gone.      *)
LoginRejected(l) ==
    /\ lg[l].st = "query"
    /\ lg' = [lg EXCEPT ![l] = NoLogin]
    /\ UNCHANGED <<mgrVars, gateVars, caller, toMgr, toGate, owner, stops>>

LoginPassed(l) ==
    /\ lg[l].st = "query"
    /\ lg' = [lg EXCEPT ![l].st = "reqlogin"]
    /\ toMgr' = Append(toMgr, Msg("reqlogin", lg[l].p, l))
    /\ UNCHANGED <<mgrVars, gateVars, caller, toGate, owner, stops>>

(* agentmgr answers: with an agent the gateway is called, otherwise the    *)
(* client is told no.  A reqkick a refused sure_agent made is answered     *)
(* through the gateway.                                                    *)
ToldBug(l, ok, a) ==
    /\ lg[l].st = "reqlogin" /\ ok = "true"
    /\ lg' = [lg EXCEPT ![l].st = "sure_agent"]
    /\ toGate' = Append(toGate, Sure(lg[l].p, l, a))
Told(l, ok, a) ==
    IF lg[l].st = "reqlogin" /\ ok = "true"
    THEN /\ lg' = [lg EXCEPT ![l].st = "sure_agent"]
         /\ toGate' = Append(toGate, Sure(lg[l].p, l, a))
    ELSE /\ lg' = [lg EXCEPT ![l] = NoLogin]
         /\ UNCHANGED toGate

-----------------------------------------------------------------------------
(* agentmgr *)

MgrTakes(t) ==
    /\ toMgr # <<>>
    /\ LET m == Head(toMgr) IN
       /\ \/ /\ m.k = "reqlogin"
             /\ \/ M!ReqLogin(t, m.p, TheGate)
                \/ M!ReqLoginRefused(t, m.p)
                \/ M!ReqLoginReplace(t, m.p)
          \/ /\ m.k = "reqkick"
             /\ M!ReqKick(t, m.p) \/ M!ReqKickRefused(t, m.p)
       /\ caller' = [caller EXCEPT ![t] = m.l]
    /\ toMgr' = Tail(toMgr)
    /\ UNCHANGED <<gateVars, lg, toGate, owner, stops>>

Launched(t, a) ==
    /\ WaitEnds
    /\ M!LaunchReturns(t, a)
    /\ owner' = [owner EXCEPT ![a] = mObj[mTgt[t]].p]
    /\ UNCHANGED <<gateVars, lg, caller, toMgr, toGate, stops>>

(* The entry is cleared and the gateway is sent kick.                      *)
KickSentBug(o) == toGate
KickMisnamedBug(o) == Append(toGate, Msg("reqkick", mObj[o].p, Nil))
KickSent(o) == Append(toGate, Msg("kick", mObj[o].p, Nil))

Kicked(t) ==
    /\ M!KickReturns(t)
    /\ toGate' = KickSent(mTgt[t])
    /\ UNCHANGED <<gateVars, lg, caller, toMgr, owner, stops>>

ForkedKicked(o) ==
    /\ M!ForkedKickReturns(o)
    /\ toGate' = KickSent(o)
    /\ UNCHANGED <<gateVars, lg, caller, toMgr, owner, stops>>

MgrAnswers(t) ==
    /\ M!Answered(t)
    /\ caller' = [caller EXCEPT ![t] = Nil]
    /\ IF caller[t] = Nil THEN UNCHANGED <<lg, toGate>>
       ELSE Told(caller[t], mRet[t].ok, mRet[t].agent)
    /\ UNCHANGED <<gateVars, toMgr, owner, stops>>

Stop(t) ==
    /\ stops < MaxStops
    /\ M!Shutdown(t)
    /\ stops' = stops + 1
    /\ UNCHANGED <<gateVars, lg, caller, toMgr, toGate, owner>>

StopWaits(t) ==
    /\ WaitEnds
    /\ M!ShutdownReturns(t) \/ M!ShutdownSleeps(t)
    /\ UNCHANGED <<gateVars, lg, caller, toMgr, toGate, owner, stops>>

-----------------------------------------------------------------------------
(* agents *)

AgentKicked(a) ==
    /\ WaitEnds
    /\ M!AgentKick(a)
    /\ UNCHANGED <<gateVars, lg, caller, toMgr, toGate, owner, stops>>

(* The handle is used again only when nobody has it any more.              *)
AgentGone(a) ==
    /\ M!AgentExit(a)
    /\ \A o \in Objs : gp[o].agent # a
    /\ \A i \in DOMAIN toGate : toGate[i].a # a
    /\ owner' = [owner EXCEPT ![a] = Nil]
    /\ UNCHANGED <<gateVars, lg, caller, toMgr, toGate, stops>>

-----------------------------------------------------------------------------
(* The gateway's messages *)

RefusalBug(m) == toMgr
Refusal(m) == Append(toMgr, Msg("reqkick", m.p, m.l))

GateTakesSure ==
    /\ toGate # <<>>
    /\ LET m == Head(toGate) IN
       /\ m.k = "sure_agent"
       /\ \/ /\ G!SureAgent(lg[m.l].fd, m.p, m.a)
             /\ lg' = [lg EXCEPT ![m.l] = NoLogin]
             /\ UNCHANGED toMgr
          \/ /\ G!SureAgentRefused(lg[m.l].fd, m.p)
             /\ toMgr' = Refusal(m)
             /\ UNCHANGED lg
    /\ toGate' = Tail(toGate)
    /\ UNCHANGED <<mgrVars, caller, owner, stops>>

GateTakesKick ==
    /\ toGate # <<>>
    /\ Head(toGate).k = "kick"
    /\ G!Kick(Head(toGate).p) \/ G!KickNobody(Head(toGate).p)
    /\ toGate' = Tail(toGate)
    /\ UNCHANGED <<mgrVars, lg, caller, toMgr, owner, stops>>

(* admin stops the gateway before the players.                             *)
GateCloses ==
    /\ stops < MaxStops
    /\ ~closing
    /\ G!Shutdown
    /\ UNCHANGED <<mgrVars, lg, caller, toMgr, toGate, owner, stops>>

Next == \/ \E fd \in Fds : \/ Socket(fd)
                           \/ \E p \in Players, l \in Logins : LoginLine(fd, p, l)
        \/ \E o \in Objs : Timer(o)
        \/ \E l \in Logins : LoginRejected(l) \/ LoginPassed(l)
        \/ \E t \in Tasks : \/ MgrTakes(t) \/ Kicked(t) \/ MgrAnswers(t)
                            \/ Stop(t) \/ StopWaits(t)
                            \/ \E a \in Agents : Launched(t, a)
        \/ \E o \in Tasks : ForkedKicked(o)
        \/ \E a \in Agents : AgentKicked(a) \/ AgentGone(a)
        \/ GateTakesSure \/ GateTakesKick \/ GateCloses

Spec == Init /\ [][Next]_vars

(* Every mailbox is served, every call answered and every wait ends; the   *)
(* clients and admin need not do anything.                                 *)
FairSpec ==
    /\ Spec
    /\ WF_vars(GateTakesSure \/ GateTakesKick)
    /\ WF_vars(\E t \in Tasks : MgrTakes(t))
    /\ \A t \in Tasks : /\ WF_vars(Kicked(t))
                        /\ WF_vars(MgrAnswers(t))
                        /\ WF_vars(\E a \in Agents : Launched(t, a))
    /\ \A o \in Tasks : WF_vars(ForkedKicked(o))
    /\ \A o \in Objs : WF_vars(Timer(o))
    /\ \A l \in Logins : WF_vars(LoginRejected(l) \/ LoginPassed(l))
    /\ \A a \in Agents : WF_vars(AgentKicked(a)) /\ WF_vars(AgentGone(a))

-----------------------------------------------------------------------------
(* Properties *)

(* What is on its way for player p.                                        *)
KickOnItsWay(p) ==
    \/ \E i \in DOMAIN toMgr : toMgr[i].k = "reqkick" /\ toMgr[i].p = p
    \/ M!Status(p) = "LOGOUT"
KickedAtGate(p) == \E i \in DOMAIN toGate : toGate[i].k = "kick" /\ toGate[i].p = p
AgentOnItsWay(p, a) ==
    \/ \E t \in Tasks : mRet[t].agent = a
    \/ \E i \in DOMAIN toGate : toGate[i].a = a /\ toGate[i].p = p

(* Types: the mailboxes and the login coroutines, over those of the parts. *)
TypeOK ==
    /\ M!TypeOK /\ G!TypeOK
    /\ lg \in [Logins -> [st : {"idle", "query", "reqlogin", "sure_agent"},
                          fd : Fds \cup {Nil}, p : Players \cup {Nil}]]
    /\ caller \in [Tasks -> Logins \cup {Nil}]
    /\ \A i \in DOMAIN toMgr : toMgr[i].k \in {"reqlogin", "reqkick"}
    /\ \A i \in DOMAIN toGate : toGate[i].k \in {"sure_agent", "kick"}
    /\ owner \in [Agents -> Players \cup {Nil}]

(* The lines of a player go to an agent that was started for this player:  *)
(* the locals of login and gateway never mix up two sessions.              *)
NoCrossTalk ==
    \A p \in Players : LET o == gPlayers[p] IN
        o # Nil => owner[gp[o].agent] = p

(* A message to the gateway can be late: agentmgr's kick goes to it        *)
(* directly, an agent goes by way of the login service.  The sure_agent    *)
(* that is next was overtaken if its agent is no longer that of the entry. *)
Overtaken(p) ==
    /\ toGate # <<>>
    /\ Head(toGate).k = "sure_agent" /\ Head(toGate).p = p
    /\ Head(toGate).a # M!ServedBy(p)

(* The gateway's session is on an agent that agentmgr has let go of, and   *)
(* no kick to remove it is coming.                                         *)
Unbacked(p) ==
    /\ gPlayers[p] # Nil
    /\ M!ServedBy(p) # gp[gPlayers[p]].agent
    /\ ~KickedAtGate(p)

(* An agent serves a player in GAME who has no session with it, and will   *)
(* get none, and nobody is about to kick it.                               *)
Unheld(p) ==
    /\ M!Status(p) = "GAME"
    /\ ~(gPlayers[p] # Nil /\ gp[gPlayers[p]].agent = M!ServedBy(p))
    /\ ~AgentOnItsWay(p, M!ServedBy(p))
    /\ ~KickOnItsWay(p)

(* Gateway and agentmgr lose each other over a player in one way only: the *)
(* gateway takes a sure_agent whose agent was kicked while the answer to   *)
(* the login was on its way (agentmgr/init.lua:55, gateway/init.lua:85-99).*)
(* Every other step, of logins, kicks, timers and sockets in any order,    *)
(* leaves a session on the agent of the entry, or with a kick coming.      *)
SessionsStayBacked ==
    [][\A p \in Players : Unbacked(p)' /\ ~Unbacked(p) => Overtaken(p)]_vars

(* And no other step leaves an agent running that nobody will end.         *)
AgentsStayHeld ==
    [][\A p \in Players : Unheld(p)' /\ ~Unheld(p) => Overtaken(p)]_vars

(* A player in GAME whose socket is gone has a timer running or a kick on  *)
(* its way.                                                                *)
OfflineIsTimed ==
    \A p \in Players : LET o == gPlayers[p] IN
        /\ o # Nil
        /\ gp[o].conn = Nil
        /\ M!ServedBy(p) = gp[o].agent
        => timers[o] > 0 \/ KickOnItsWay(p)

(* A session is off its socket when the socket goes, whoever else logs in  *)
(* meanwhile, unless the two shared it (gateway/init.lua:85-126).          *)
GoneSocketNoticed == G!GoneSocketNoticed

(* Every login comes to an end: it is refused, or it has its session.      *)
LoginsEnd == \A l \in Logins : lg[l] # NoLogin ~> lg[l] = NoLogin

(* Once clients stop trying to log in, a player whose socket is gone comes *)
(* back, or is gone from the gateway and from agentmgr.                    *)
Away(p) == gPlayers[p] # Nil /\ gp[gPlayers[p]].conn = Nil
Quiet == \A l \in Logins : lg[l] = NoLogin
OfflineLeaves ==
    <>[]Quiet =>
        \A p \in Players :
            Away(p) ~> \/ gPlayers[p] = Nil /\ M!Status(p) = "none"
                       \/ gPlayers[p] # Nil /\ gp[gPlayers[p]].conn # Nil

(* "Gone offline while logging in" (gateway/init.lua:88).                  *)
OfflineLoginRefused == G!OfflineLoginRefused
=============================================================================
