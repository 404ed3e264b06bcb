--------------------------- MODULE SessionProofs ----------------------------
(***************************************************************************)
(* Theorems about Session for any players, sockets, agents and coroutines. *)
(*                                                                         *)
(* MP and GP are the proofs about agentmgr and the gateway, over the       *)
(* variables they have in a session.                                       *)
(***************************************************************************)
EXTENDS Session, SequenceTheorems, TLAPS

MP == INSTANCE AgentMgrProofs WITH
        players <- mPlayers, obj <- mObj, pc <- mPc, tgt <- mTgt, cnt <- mCnt,
        ret <- mRet, forked <- mForked, agent <- mAgent,
        Gates <- {TheGate}, LaunchMayFail <- FALSE, NodeMayFail <- FALSE
GP == INSTANCE GatewayProofs WITH players <- gPlayers, CacheMax <- 0, MaxSend <- 0, Unpackable <- {}

-----------------------------------------------------------------------------
(* The parts *)

(* What the parts assume of their constants holds in a session.            *)
LEMMA MgrAssumptions ==
    /\ MP!NilAssumption /\ MP!KickNumAssumption
    /\ MP!PlayersAssumption /\ MP!FailureAssumption
<1>1. MP!NilAssumption
  BY SessionAssumption DEF MP!NilAssumption
<1>2. MP!KickNumAssumption
  BY SessionAssumption DEF MP!KickNumAssumption
<1>3. MP!PlayersAssumption
  BY SessionAssumption DEF MP!PlayersAssumption, MP!IsFiniteSet, IsFiniteSet
<1>4. MP!FailureAssumption
  BY DEF MP!FailureAssumption
<1> QED
  BY <1>1, <1>2, <1>3, <1>4

(* The same for the gateway.                                               *)
LEMMA GateAssumptions == GP!NilAssumption /\ GP!BoundsAssumption
<1>1. GP!NilAssumption
  BY SessionAssumption DEF GP!NilAssumption
<1>2. GP!BoundsAssumption
  BY SessionAssumption DEF GP!BoundsAssumption
<1> QED
  BY <1>1, <1>2

(* A request of a player to agentmgr is a step of agentmgr.                *)
LEMMA MgrTakesStep ==
    ASSUME NEW t \in Tasks, NEW p \in Players,
           \/ M!ReqLogin(t, p, TheGate) \/ M!ReqLoginRefused(t, p) \/ M!ReqLoginReplace(t, p)
           \/ M!ReqKick(t, p) \/ M!ReqKickRefused(t, p)
    PROVE  MP!Next
<1> USE DEF M!Free, MP!Free, M!NoObj, MP!NoObj, M!Status, MP!Status
<1> USE DEF M!MayEnter, MP!MayEnter, M!MayKick, MP!MayKick
<1> USE DEF M!Reply, MP!Reply, M!Answer, MP!Answer, M!Leaving, MP!Leaving
<1>1. CASE M!ReqLogin(t, p, TheGate)
  <2>1. MP!ReqLogin(t, p, TheGate)
    BY <1>1 DEF M!ReqLogin, MP!ReqLogin
  <2> QED
    BY <2>1 DEF MP!Next, MP!Request
<1>2. CASE M!ReqLoginRefused(t, p)
  <2>1. MP!ReqLoginRefused(t, p)
    BY <1>2 DEF M!ReqLoginRefused, MP!ReqLoginRefused
  <2> QED
    BY <2>1 DEF MP!Next, MP!Request
<1>3. CASE M!ReqLoginReplace(t, p)
  <2>1. MP!ReqLoginReplace(t, p)
    BY <1>3 DEF M!ReqLoginReplace, MP!ReqLoginReplace
  <2> QED
    BY <2>1 DEF MP!Next, MP!Request
<1>4. CASE M!ReqKick(t, p)
  <2>1. MP!ReqKick(t, p)
    BY <1>4 DEF M!ReqKick, MP!ReqKick
  <2> QED
    BY <2>1 DEF MP!Next, MP!Request
<1>5. CASE M!ReqKickRefused(t, p)
  <2>1. MP!ReqKickRefused(t, p)
    BY <1>5 DEF M!ReqKickRefused, MP!ReqKickRefused
  <2> QED
    BY <2>1 DEF MP!Next, MP!Request
<1> QED
  BY <1>1, <1>2, <1>3, <1>4, <1>5

(* The answer of a call of agentmgr is a step of agentmgr.                 *)
LEMMA MgrResumesStep ==
    ASSUME NEW t \in Tasks,
           \/ \E a \in Agents : M!LaunchReturns(t, a)
           \/ M!KickReturns(t) \/ M!ForkedKickReturns(t) \/ M!Answered(t)
    PROVE  MP!Next
<1> USE DEF M!Reply, MP!Reply, M!Answer, MP!Answer, M!NoRet, MP!NoRet, M!NoObj, MP!NoObj
<1> USE DEF M!Admitted, MP!Admitted, M!ClearEntry, MP!ClearEntry, M!ExitSent, MP!ExitSent
<1>1. CASE \E a \in Agents : M!LaunchReturns(t, a)
  <2>1. \E a \in Agents : MP!LaunchReturns(t, a)
    BY <1>1 DEF M!LaunchReturns, MP!LaunchReturns
  <2> QED
    BY <2>1 DEF MP!Next, MP!Resume
<1>2. CASE M!KickReturns(t)
  <2>1. MP!KickReturns(t)
    BY <1>2 DEF M!KickReturns, MP!KickReturns
  <2> QED
    BY <2>1 DEF MP!Next, MP!Resume
<1>3. CASE M!ForkedKickReturns(t)
  <2>1. MP!ForkedKickReturns(t)
    BY <1>3 DEF M!ForkedKickReturns, MP!ForkedKickReturns
  <2> QED
    BY <2>1 DEF MP!Next
<1>4. CASE M!Answered(t)
  <2>1. MP!Answered(t)
    BY <1>4 DEF M!Answered, MP!Answered
  <2> QED
    BY <2>1 DEF MP!Next
<1> QED
  BY <1>1, <1>2, <1>3, <1>4

(* So is what an agent does.                                               *)
LEMMA MgrAgentStep ==
    ASSUME NEW a \in Agents, M!AgentKick(a) \/ M!AgentExit(a)
    PROVE  MP!Next
<1>1. CASE M!AgentKick(a)
  <2>1. MP!AgentKick(a)
    BY <1>1 DEF M!AgentKick, MP!AgentKick, M!Kicking, MP!Kicking
  <2> QED
    BY <2>1 DEF MP!Next
<1>2. CASE M!AgentExit(a)
  <2>1. MP!AgentExit(a)
    BY <1>2 DEF M!AgentExit, MP!AgentExit
  <2> QED
    BY <2>1 DEF MP!Next
<1> QED
  BY <1>1, <1>2

(* So is a shutdown.                                                       *)
LEMMA MgrStopsStep ==
    ASSUME NEW t \in Tasks, M!Shutdown(t) \/ M!ShutdownSleeps(t) \/ M!ShutdownReturns(t)
    PROVE  MP!Next
<1> USE DEF M!Status, MP!Status, M!Online, MP!Online, M!Count, MP!Count
<1> USE DEF M!Cardinality, MP!Cardinality
<1>1. CASE M!Shutdown(t)
  <2>1. MP!Shutdown(t)
    BY <1>1 DEF M!Shutdown, MP!Shutdown, M!Free, MP!Free, M!NoObj, MP!NoObj,
                M!Batches, MP!Batches, M!BatchSize, MP!BatchSize,
                M!MayKick, MP!MayKick, M!Leaving, MP!Leaving
  <2> QED
    BY <2>1 DEF MP!Next, MP!Request
<1>2. CASE M!ShutdownSleeps(t)
  <2>1. MP!ShutdownSleeps(t)
    BY <1>2 DEF M!ShutdownSleeps, MP!ShutdownSleeps, M!EnoughGone, MP!EnoughGone,
                M!vars, MP!vars
  <2> QED
    BY <2>1 DEF MP!Next, MP!Resume
<1>3. CASE M!ShutdownReturns(t)
  <2>1. MP!ShutdownReturns(t)
    BY <1>3 DEF M!ShutdownReturns, MP!ShutdownReturns, M!EnoughGone, MP!EnoughGone,
                M!Reply, MP!Reply, M!Answer, MP!Answer
  <2> QED
    BY <2>1 DEF MP!Next, MP!Resume
<1> QED
  BY <1>1, <1>2, <1>3

(* What happens on a socket is a step of the gateway.                       *)
LEMMA GateSocketStep ==
    ASSUME NEW fd \in Fds,
           \/ G!Connect(fd) \/ G!ConnectIgnored(fd) \/ G!LineToLogin(fd)
           \/ G!LineRaises(fd) \/ \E p \in Players : G!Reconnect(fd, p)
           \/ G!GoneUnread(fd)
           \/ G!CloseUnbound(fd) \/ G!CloseBound(fd) \/ G!CloseRaises(fd)
    PROVE  GP!Next
<1> USE DEF G!log, GP!log
<1>1. CASE G!Connect(fd)
  <2>1. GP!Connect(fd)
    BY <1>1 DEF G!Connect, GP!Connect
  <2> QED
    BY <2>1 DEF GP!Next, GP!SocketStep
<1>2. CASE G!ConnectIgnored(fd)
  <2>1. GP!ConnectIgnored(fd)
    BY <1>2 DEF G!ConnectIgnored, GP!ConnectIgnored
  <2> QED
    BY <2>1 DEF GP!Next, GP!SocketStep
<1>3. CASE G!LineToLogin(fd)
  <2>1. GP!LineToLogin(fd)
    BY <1>3 DEF G!LineToLogin, GP!LineToLogin
  <2> QED
    BY <2>1 DEF GP!Next, GP!SocketStep
<1>4. CASE G!LineRaises(fd)
  <2>1. GP!LineRaises(fd)
    BY <1>4 DEF G!LineRaises, GP!LineRaises, G!AgentOf, GP!AgentOf
  <2> QED
    BY <2>1 DEF GP!Next, GP!SocketStep
<1>5. CASE \E p \in Players : G!Reconnect(fd, p)
  <2>1. \E p \in Players : GP!Reconnect(fd, p)
    BY <1>5 DEF G!Reconnect, GP!Reconnect, G!Flushed, GP!Flushed,
                G!Jammed, GP!Jammed, G!Jams, GP!Jams
  <2> QED
    BY <2>1 DEF GP!Next, GP!SocketStep
<1>6. CASE G!CloseUnbound(fd)
  <2>1. GP!CloseUnbound(fd)
    BY <1>6 DEF G!CloseUnbound, GP!CloseUnbound, G!Disconnects, GP!Disconnects
  <2> QED
    BY <2>1 DEF GP!Next, GP!SocketStep
<1>7. CASE G!CloseBound(fd)
  <2>1. GP!CloseBound(fd)
    BY <1>7 DEF G!CloseBound, GP!CloseBound, G!Disconnects, GP!Disconnects, G!TimerSet, GP!TimerSet
  <2> QED
    BY <2>1 DEF GP!Next, GP!SocketStep
<1>8. CASE G!CloseRaises(fd)
  <2>1. GP!CloseRaises(fd)
    BY <1>8 DEF G!CloseRaises, GP!CloseRaises, G!Disconnects, GP!Disconnects
  <2> QED
    BY <2>1 DEF GP!Next, GP!SocketStep
<1>9. CASE G!GoneUnread(fd)
  <2>1. GP!GoneUnread(fd)
    BY <1>9 DEF G!GoneUnread, GP!GoneUnread
  <2> QED
    BY <2>1 DEF GP!Next, GP!SocketStep
<1> QED
  BY <1>1, <1>2, <1>3, <1>4, <1>5, <1>6, <1>7, <1>8, <1>9

(* So is a timer.                                                          *)
LEMMA GateTimerStep ==
    ASSUME NEW o \in Objs, G!TimerFires(o)
    PROVE  GP!Next
<1>1. GP!TimerFires(o)
  BY DEF G!TimerFires, GP!TimerFires, G!Timeout, GP!Timeout,
         G!Collect, GP!Collect, G!Held, GP!Held, G!NoGp, GP!NoGp
<1> QED
  BY <1>1 DEF GP!Next

(* So is sure_agent for a socket that has been connected.                  *)
LEMMA GateSureStep ==
    ASSUME NEW fd \in Fds, NEW p \in Players, NEW a \in Agents, loop[fd] # "none",
           G!SureAgent(fd, p, a) \/ G!SureAgentRefused(fd, p)
    PROVE  GP!Next
<1>1. CASE G!SureAgent(fd, p, a)
  <2>1. GP!SureAgent(fd, p, a)
    BY <1>1 DEF G!SureAgent, GP!SureAgent,
                G!Collect, GP!Collect, G!Held, GP!Held, G!NoGp, GP!NoGp
  <2> QED
    BY <2>1 DEF GP!Next, GP!MessageStep
<1>2. CASE G!SureAgentRefused(fd, p)
  <2>1. GP!SureAgentRefused(fd, p)
    BY <1>2 DEF G!SureAgentRefused, GP!SureAgentRefused, G!log, GP!log
  <2> QED
    BY <2>1 DEF GP!Next, GP!MessageStep
<1> QED
  BY <1>1, <1>2

(* So is a kick.                                                           *)
LEMMA GateKickStep ==
    ASSUME NEW p \in Players, G!Kick(p) \/ G!KickNobody(p)
    PROVE  GP!Next
<1>1. CASE G!Kick(p)
  <2>1. GP!Kick(p)
    BY <1>1 DEF G!Kick, GP!Kick,
                G!Collect, GP!Collect, G!Held, GP!Held, G!NoGp, GP!NoGp
  <2> QED
    BY <2>1 DEF GP!Next, GP!MessageStep
<1>2. CASE G!KickNobody(p)
  <2>1. GP!KickNobody(p)
    BY <1>2 DEF G!KickNobody, GP!KickNobody, G!log, GP!log
  <2> QED
    BY <2>1 DEF GP!Next, GP!MessageStep
<1> QED
  BY <1>1, <1>2

(* So is the shutdown of the gateway.                                      *)
LEMMA GateStopStep == G!Shutdown => GP!Next
<1>1. G!Shutdown => GP!Shutdown
  BY DEF G!Shutdown, GP!Shutdown, G!log, GP!log
<1> QED
  BY <1>1 DEF GP!Next, GP!MessageStep

(* What the proofs about agentmgr say of its state, in the terms of M.     *)
LEMMA MgrFacts ==
    ASSUME MP!Inv
    PROVE  /\ M!TypeOK /\ M!EntriesMatch /\ M!LocalsCurrent
           /\ M!OneAgentPerPlayer /\ M!GameIsServed
BY DEF MP!Inv, MP!Coherent, M!TypeOK, MP!TypeOK, M!Entry, MP!Entry,
       M!EntriesMatch, MP!EntriesMatch, M!LocalsCurrent, MP!LocalsCurrent,
       M!OneAgentPerPlayer, MP!OneAgentPerPlayer, M!GameIsServed, MP!GameIsServed

(* The same for the gateway; a held gateplayer is that of its player.      *)
OwnedByPlayers ==
    /\ \A o \in Objs : timers[o] > 0 => gp[o].p \in Players
    /\ \A p \in Players : gPlayers[p] # Nil => gp[gPlayers[p]].p = p
LEMMA GateFacts ==
    ASSUME GP!Inv
    PROVE  G!TypeOK /\ OwnedByPlayers
<1>1. G!TypeOK
  BY DEF GP!Inv, G!TypeOK, GP!TypeOK, G!Gateplayer, GP!Gateplayer
<1>2. OwnedByPlayers
  BY DEF GP!Inv, GP!Owned, OwnedByPlayers
<1> QED
  BY <1>1, <1>2

-----------------------------------------------------------------------------
(* Mailboxes *)

(* Places in a mailbox: a message, a login that a message is for, and that *)
(* no two messages are for one login.                                      *)
In(q, m) == \E i \in DOMAIN q : q[i] = m
Has(q, l) == \E i \in DOMAIN q : q[i].l = l
Once(q, l) == \A i, j \in DOMAIN q : q[i].l = l /\ q[j].l = l => i = j

(* Sending a message puts it behind the others.                            *)
LEMMA Appended ==
    ASSUME NEW S, NEW q \in Seq(S), NEW x \in S
    PROVE  /\ Append(q, x) \in Seq(S)
           /\ \A m : In(Append(q, x), m) <=> In(q, m) \/ m = x
           /\ \A l : Has(Append(q, x), l) <=> Has(q, l) \/ x.l = l
           /\ \A l : Once(q, l) /\ ~(x.l = l /\ Has(q, l)) => Once(Append(q, x), l)
<1> DEFINE r == Append(q, x)
<1>1. /\ r \in Seq(S) /\ Len(q) \in Nat
      /\ DOMAIN q = 1 .. Len(q) /\ DOMAIN r = 1 .. Len(q) + 1
      /\ \A i \in 1 .. Len(q) : r[i] = q[i]
      /\ r[Len(q) + 1] = x
  BY AppendProperties, LenProperties
<1> HIDE DEF r
<1>2. \A i : i \in DOMAIN r <=> i \in DOMAIN q \/ i = Len(q) + 1
  BY <1>1
<1>3. \A m : In(r, m) <=> In(q, m) \/ m = x
  BY <1>1, <1>2 DEF In
<1>4. \A l : Has(r, l) <=> Has(q, l) \/ x.l = l
  BY <1>1, <1>2 DEF Has
<1>5. ASSUME NEW l, Once(q, l), ~(x.l = l /\ Has(q, l)) PROVE Once(r, l)
  BY <1>1, <1>2, <1>5 DEF Has, Once
<1> QED
  BY <1>1, <1>3, <1>4, <1>5 DEF r

(* Taking the first message leaves the others.                             *)
LEMMA Taken ==
    ASSUME NEW S, NEW q \in Seq(S), q # <<>>
    PROVE  /\ Head(q) \in S /\ Tail(q) \in Seq(S)
           /\ In(q, Head(q)) /\ Has(q, Head(q).l)
           /\ \A m : In(Tail(q), m) => In(q, m)
           /\ \A m : In(q, m) => m = Head(q) \/ In(Tail(q), m)
           /\ \A l : Has(Tail(q), l) => Has(q, l)
           /\ \A l : Once(q, l) => Once(Tail(q), l) /\ ~(Head(q).l = l /\ Has(Tail(q), l))
<1> DEFINE r == Tail(q)
           x == Head(q)
<1>1. /\ x \in S /\ r \in Seq(S) /\ Len(q) \in Nat \ {0}
      /\ DOMAIN q = 1 .. Len(q) /\ DOMAIN r = 1 .. Len(q) - 1
      /\ \A i \in 1 .. Len(q) - 1 : r[i] = q[i + 1]
      /\ x = q[1]
  BY HeadTailProperties, LenProperties, EmptySeq
<1> HIDE DEF r, x
<1>2. /\ 1 \in DOMAIN q
      /\ \A i \in DOMAIN r : i + 1 \in DOMAIN q /\ r[i] = q[i + 1] /\ i + 1 # 1
      /\ \A i \in DOMAIN q : i = 1 \/ \E j \in DOMAIN r : i = j + 1
  <2>1. \A i \in DOMAIN q : i # 1 => i - 1 \in DOMAIN r /\ i = (i - 1) + 1
    BY <1>1
  <2> QED
    BY <1>1, <2>1
<1>3. In(q, x) /\ Has(q, x.l)
  BY <1>1, <1>2 DEF In, Has
<1>4. \A m : (In(r, m) => In(q, m)) /\ (In(q, m) => m = x \/ In(r, m))
  BY <1>1, <1>2 DEF In
<1>5. \A l : Has(r, l) => Has(q, l)
  BY <1>1, <1>2 DEF Has
<1>6. ASSUME NEW l, Once(q, l) PROVE Once(r, l) /\ ~(x.l = l /\ Has(r, l))
  <2>1. ASSUME NEW i \in DOMAIN r, NEW j \in DOMAIN r, r[i].l = l, r[j].l = l PROVE i = j
    <3>1. i + 1 = j + 1
      BY <1>2, <1>6, <2>1 DEF Once
    <3> QED
      BY <3>1, <1>1
  <2>2. ASSUME NEW i \in DOMAIN r, r[i].l = l, x.l = l PROVE FALSE
    BY <1>1, <1>2, <1>6, <2>2 DEF Once
  <2> QED
    BY <2>1, <2>2 DEF Once, Has
<1> QED
  BY <1>1, <1>3, <1>4, <1>5, <1>6 DEF r, x

(* Nothing is in an empty mailbox.                                         *)
LEMMA NothingIn ==
    /\ \A S : <<>> \in Seq(S)
    /\ \A m : ~In(<<>>, m)
    /\ \A l : ~Has(<<>>, l) /\ Once(<<>>, l)
<1>1. DOMAIN <<>> = {}
  OBVIOUS
<1> QED
  BY <1>1, EmptySeq DEF In, Has, Once

(* A message in a mailbox is one, and is for the login it names.           *)
LEMMA Contents ==
    ASSUME NEW S, NEW q \in Seq(S)
    PROVE  /\ \A m : In(q, m) => m \in S /\ Has(q, m.l)
           /\ \A l : Has(q, l) => \E m \in S : In(q, m) /\ m.l = l
           /\ q = <<>> => \A m : ~In(q, m)
<1>1. \A i \in DOMAIN q : q[i] \in S
  BY ElementOfSeq, LenProperties
<1> QED
  BY <1>1 DEF In, Has

-----------------------------------------------------------------------------
(* Logins on their way *)

MgrMsg == [k : {"reqlogin", "reqkick"}, p : Players, l : Logins \cup {Nil}, a : {Nil}]
GateMsg == [k : {"sure_agent", "kick"}, p : Players, l : Logins \cup {Nil},
            a : Agents \cup {Nil}]
LoginState == [st : {"idle", "query", "reqlogin", "sure_agent"},
               fd : Fds \cup {Nil}, p : Players \cup {Nil}]

Shapes ==
    /\ lg \in [Logins -> LoginState]
    /\ caller \in [Tasks -> Logins \cup {Nil}]
    /\ toMgr \in Seq(MgrMsg)
    /\ toGate \in Seq(GateMsg)
    /\ owner \in [Agents -> Players \cup {Nil}]

Begun == \A l \in Logins : lg[l].st # "idle" =>
    lg[l].p \in Players /\ lg[l].fd \in Fds /\ loop[lg[l].fd] # "none"

(* A login waits for one thing: a message in a mailbox, or a coroutine of  *)
(* agentmgr.                                                               *)
OnePlace == \A l \in Logins :
    /\ Once(toMgr, l) /\ Once(toGate, l)
    /\ \A t, u \in Tasks : caller[t] = l /\ caller[u] = l => t = u
    /\ ~(Has(toMgr, l) /\ Has(toGate, l))
    /\ \A t \in Tasks : caller[t] = l => ~Has(toMgr, l) /\ ~Has(toGate, l)

ForMgr(m) ==
    \/ m.k = "reqlogin" /\ m.l \in Logins /\ lg[m.l].st = "reqlogin" /\ lg[m.l].p = m.p
    \/ m.k = "reqkick" /\ (m.l # Nil => lg[m.l].st = "sure_agent")
ForGate(m) ==
    \/ /\ m.k = "sure_agent" /\ m.l \in Logins
       /\ lg[m.l].st = "sure_agent" /\ lg[m.l].p = m.p
       /\ m.a \in Agents /\ owner[m.a] = m.p /\ mAgent[m.a] # "free"
    \/ m.k = "kick" /\ m.l = Nil /\ m.a = Nil
Sent == /\ \A m \in MgrMsg : In(toMgr, m) => ForMgr(m)
        /\ \A m \in GateMsg : In(toGate, m) => ForGate(m)

AnswersLogin(t) ==
    /\ caller[t] \in Logins /\ lg[caller[t]].st = "reqlogin"
    /\ mRet[t].ok = "true" /\ mRet[t].agent \in Agents
    /\ owner[mRet[t].agent] = lg[caller[t]].p /\ mAgent[mRet[t].agent] # "free"
Serves(t) ==
    \/ mPc[t] \in {"idle", "wait"} /\ caller[t] = Nil /\ mRet[t].agent = Nil
    \/ /\ mPc[t] = "launch" /\ mRet[t].agent = Nil
       /\ caller[t] \in Logins /\ lg[caller[t]].st = "reqlogin"
       /\ lg[caller[t]].p = mObj[t].p
    \/ /\ mPc[t] \in {"kick", "ret"} /\ mRet[t].agent = Nil
       /\ caller[t] # Nil => lg[caller[t]].st = "sure_agent"
    \/ /\ mPc[t] = "ret" /\ mRet[t].agent = Nil /\ mRet[t].ok # "true"
       /\ caller[t] # Nil => lg[caller[t]].st = "reqlogin"
    \/ mPc[t] = "ret" /\ AnswersLogin(t)
TasksServe == \A t \in Tasks : Serves(t)

Wires == Shapes /\ Begun /\ OnePlace /\ Sent /\ TasksServe

(* What a step leaves alone: a login, an agent that is used, a coroutine of *)
(* agentmgr.                                                               *)
LoginStays(l) == l # Nil => lg'[l] = lg[l]
AgentStays(a) == a # Nil => owner'[a] = owner[a] /\ mAgent'[a] # "free"
TaskStays(t) ==
    /\ mPc'[t] = mPc[t] /\ mRet'[t] = mRet[t] /\ caller'[t] = caller[t]
    /\ mPc[t] = "launch" => mObj'[t].p = mObj[t].p
    /\ LoginStays(caller[t])

(* A coroutine that stays serves its login as before, ...                  *)
LEMMA ServesKept ==
    ASSUME NEW t \in Tasks, Serves(t), TaskStays(t), AgentStays(mRet[t].agent)
    PROVE  Serves(t)'
<1>1. Nil \notin Logins /\ Nil \notin Agents
  BY SessionAssumption
<1> QED
  BY <1>1 DEF Serves, AnswersLogin, TaskStays, AgentStays, LoginStays

(* ... and so do a message to agentmgr ...                                 *)
LEMMA ForMgrKept ==
    ASSUME NEW m, ForMgr(m), LoginStays(m.l)
    PROVE  ForMgr(m)'
<1>1. Nil \notin Logins
  BY SessionAssumption
<1> QED
  BY <1>1 DEF ForMgr, LoginStays

(* ... and one to the gateway.                                             *)
LEMMA ForGateKept ==
    ASSUME NEW m, ForGate(m), LoginStays(m.l), AgentStays(m.a)
    PROVE  ForGate(m)'
<1>1. Nil \notin Logins /\ Nil \notin Agents
  BY SessionAssumption
<1> QED
  BY <1>1 DEF ForGate, LoginStays, AgentStays

(* So only what is new or changed is left to look at.                      *)
LEMMA WiresKept ==
    ASSUME Wires, Shapes', Begun', OnePlace',
           \A t \in Tasks : Serves(t)' \/ (TaskStays(t) /\ AgentStays(mRet[t].agent)),
           \A m \in MgrMsg : In(toMgr', m) =>
               ForMgr(m)' \/ (In(toMgr, m) /\ LoginStays(m.l)),
           \A m \in GateMsg : In(toGate', m) =>
               ForGate(m)' \/ (In(toGate, m) /\ LoginStays(m.l) /\ AgentStays(m.a))
    PROVE  Wires'
<1>1. TasksServe'
  BY ServesKept DEF Wires, TasksServe
<1>2. \A m \in MgrMsg : In(toMgr', m) => ForMgr(m)'
  BY ForMgrKept DEF Wires, Sent
<1>3. \A m \in GateMsg : In(toGate', m) => ForGate(m)'
  BY ForGateKept DEF Wires, Sent
<1>4. Sent'
  BY <1>2, <1>3 DEF Sent, In
<1> QED
  BY <1>1, <1>4 DEF Wires

(* The agents on their way are used, and stay if all used agents do.       *)
AgentsStay == /\ \A t \in Tasks : AgentStays(mRet[t].agent)
              /\ \A m \in GateMsg : In(toGate, m) => AgentStays(m.a)
LEMMA UsedStay ==
    ASSUME Wires, \A a \in Agents : mAgent[a] # "free" => AgentStays(a)
    PROVE  AgentsStay
<1>1. Nil \notin Logins /\ Nil \notin Agents
  BY SessionAssumption
<1>2. \A t \in Tasks : mRet[t].agent # Nil =>
         mRet[t].agent \in Agents /\ mAgent[mRet[t].agent] # "free"
  BY DEF Wires, TasksServe, Serves, AnswersLogin
<1>3. \A m \in GateMsg : In(toGate, m) /\ m.a # Nil =>
         m.a \in Agents /\ mAgent[m.a] # "free"
  BY DEF Wires, Sent, ForGate
<1> QED
  BY <1>1, <1>2, <1>3 DEF AgentsStay, AgentStays

(* They do when owners and agents are left alone.                          *)
LEMMA SameAgents ==
    ASSUME Wires, owner' = owner,
           \A a \in Agents : mAgent[a] # "free" => mAgent'[a] # "free"
    PROVE  AgentsStay
BY UsedStay DEF AgentStays

(* A step that leaves the logins and both mailboxes alone.                 *)
LEMMA LoginsAlone ==
    ASSUME Wires, UNCHANGED <<lg, caller, toMgr, toGate>>,
           owner' \in [Agents -> Players \cup {Nil}], AgentsStay,
           \A fd \in Fds : loop[fd] # "none" => loop'[fd] # "none",
           \A t \in Tasks : TaskStays(t) \/ Serves(t)'
    PROVE  Wires'
<1>1. Shapes' /\ OnePlace'
  BY DEF Wires, Shapes, OnePlace, Has, Once
<1>2. Begun'
  BY DEF Wires, Begun
<1> QED
  BY <1>1, <1>2, WiresKept DEF AgentsStay, LoginStays

(* A login that has not asked agentmgr yet waits for nothing.              *)
LEMMA NotYet ==
    ASSUME Wires, NEW l \in Logins, lg[l].st \in {"idle", "query"}
    PROVE  ~Has(toMgr, l) /\ ~Has(toGate, l) /\ \A t \in Tasks : caller[t] # l
<1>1. l # Nil
  BY SessionAssumption
<1>2. ~Has(toMgr, l)
  BY <1>1, Contents DEF Wires, Shapes, Sent, ForMgr
<1>3. ~Has(toGate, l)
  BY <1>1, Contents DEF Wires, Shapes, Sent, ForGate
<1>4. \A t \in Tasks : caller[t] # l
  BY <1>1 DEF Wires, TasksServe, Serves, AnswersLogin
<1> QED
  BY <1>2, <1>3, <1>4

-----------------------------------------------------------------------------
(* Steps of the gateway *)

(* The sessions and their agents stay, and no socket is as if new.         *)
SessionsStay ==
    /\ gPlayers' = gPlayers
    /\ \A p \in Players : gPlayers[p] # Nil =>
          gp'[gPlayers[p]].agent = gp[gPlayers[p]].agent
    /\ \A o \in Objs : gp'[o].agent \in {gp[o].agent, Nil}
    /\ \A fd \in Fds : loop[fd] # "none" => loop'[fd] # "none"

(* Who has a timer keeps it, and who loses the socket gets one.            *)
TimersStay ==
    \A o \in Objs : /\ timers[o] > 0 => timers'[o] > 0
                    /\ gp'[o].conn = Nil => gp[o].conn = Nil \/ timers'[o] > 0

(* What happens on sockets ends no session and starts timers only.         *)
LEMMA SocketMoves ==
    ASSUME G!TypeOK, NEW fd \in Fds,
           \/ G!Connect(fd) \/ G!ConnectIgnored(fd) \/ G!LineToLogin(fd)
           \/ G!LineRaises(fd) \/ \E p \in Players : G!Reconnect(fd, p)
           \/ G!GoneUnread(fd)
           \/ G!CloseUnbound(fd) \/ G!CloseBound(fd) \/ G!CloseRaises(fd)
    PROVE  SessionsStay /\ TimersStay
<1>1. CASE \/ G!Connect(fd) \/ G!ConnectIgnored(fd) \/ G!LineToLogin(fd)
           \/ G!LineRaises(fd) \/ G!GoneUnread(fd)
           \/ G!CloseUnbound(fd) \/ G!CloseRaises(fd)
  <2>1. /\ UNCHANGED <<gPlayers, gp, timers>>
        /\ \/ loop' = loop
           \/ \E st \in {"run", "ignored", "raised", "ended"} : loop' = [loop EXCEPT ![fd] = st]
    BY <1>1 DEF G!Connect, G!ConnectIgnored, G!LineToLogin, G!LineRaises,
                G!GoneUnread, G!CloseUnbound, G!CloseRaises
  <2> QED
    BY <2>1 DEF SessionsStay, TimersStay, G!TypeOK
<1>2. CASE \E p \in Players : G!Reconnect(fd, p)
  <2>1. PICK p \in Players : G!Reconnect(fd, p)
    BY <1>2
  <2> DEFINE o == gPlayers[p]
  <2>2. /\ o \in Objs /\ UNCHANGED <<gPlayers, timers, loop>>
        /\ gp' = [gp EXCEPT ![o] = [p |-> p, agent |-> gp[o].agent, conn |-> fd, cache |-> <<>>]]
    BY <2>1 DEF G!Reconnect, G!Flushed, G!TypeOK
  <2> HIDE DEF o
  <2>3. \A q \in Objs : /\ gp'[q].agent = gp[q].agent
                        /\ gp'[q].conn = IF q = o THEN fd ELSE gp[q].conn
    BY <2>2 DEF G!TypeOK
  <2>4. fd # Nil
    BY SessionAssumption
  <2> QED
    BY <2>2, <2>3, <2>4 DEF SessionsStay, TimersStay, G!TypeOK
<1>3. CASE G!CloseBound(fd)
  <2> DEFINE o == gPlayers[bound[fd]]
  <2>1. /\ o \in Objs /\ gPlayers' = gPlayers
        /\ timers' = [timers EXCEPT ![o] = timers[o] + 1]
        /\ gp' = [gp EXCEPT ![o] = [gp[o] EXCEPT !.conn = Nil]]
        /\ loop' = [loop EXCEPT ![fd] = "ended"]
    BY <1>3 DEF G!CloseBound, G!Disconnects, G!TimerSet, G!TypeOK
  <2> HIDE DEF o
  <2>2. \A q \in Objs : /\ gp'[q].agent = gp[q].agent
                        /\ q # o => gp'[q].conn = gp[q].conn
                        /\ timers'[q] = IF q = o THEN timers[q] + 1 ELSE timers[q]
                        /\ timers[q] \in Nat
    BY <2>1, SessionAssumption DEF G!TypeOK, G!Gateplayer
  <2> QED
    BY <2>1, <2>2 DEF SessionsStay, TimersStay, G!TypeOK
<1> QED
  BY <1>1, <1>2, <1>3

(* What is held is not collected.                                          *)
LEMMA HeldStay ==
    ASSUME NEW newGp, NEW newSent, NEW newGot, G!Collect(newGp, newSent, newGot), NEW o \in Objs
    PROVE  /\ gp'[o] \in {newGp[o], G!NoGp}
           /\ (\E p \in Players : gPlayers'[p] = o) => gp'[o] = newGp[o]
BY DEF G!Collect, G!Held

(* A timer that fires asks for the kick of a player who has no socket.     *)
LEMMA TimerMoves ==
    ASSUME G!TypeOK, OwnedByPlayers, NEW o \in Objs, G!TimerFires(o)
    PROVE  /\ SessionsStay
           /\ \A p \in Players : gPlayers[p] # Nil => gp'[gPlayers[p]] = gp[gPlayers[p]]
           /\ \A q \in Objs : q # o => timers'[q] = timers[q]
           /\ gp[o].p \in Players
           /\ asked' = IF gp[o].conn = Nil THEN {gp[o].p} ELSE {}
<1>1. /\ timers[o] > 0 /\ UNCHANGED <<gPlayers, loop>>
      /\ timers' = [timers EXCEPT ![o] = timers[o] - 1]
      /\ asked' = IF gp[o].conn = Nil THEN {gp[o].p} ELSE {}
      /\ G!Collect(gp, sent, got)
  BY DEF G!TimerFires, G!Timeout
<1>2. \A q \in Objs : gp'[q] \in {gp[q], G!NoGp}
  BY <1>1, HeldStay
<1>3. \A p \in Players : gPlayers[p] # Nil => gp'[gPlayers[p]] = gp[gPlayers[p]]
  BY <1>1, HeldStay DEF G!TypeOK
<1>4. G!NoGp.agent = Nil
  BY DEF G!NoGp
<1> QED
  BY <1>1, <1>2, <1>3, <1>4 DEF SessionsStay, OwnedByPlayers, G!TypeOK

(* sure_agent gives the player a session with this agent and socket, and   *)
(* leaves the sessions of the others.                                      *)
LEMMA SureMoves ==
    ASSUME G!TypeOK, NEW fd \in Fds, NEW p \in Players, NEW a \in Agents,
           G!SureAgent(fd, p, a)
    PROVE  /\ gPlayers'[p] \in Objs
           /\ gp'[gPlayers'[p]] = [p |-> p, agent |-> a, conn |-> fd, cache |-> <<>>]
           /\ \A q \in Players : q # p =>
                 /\ gPlayers'[q] = gPlayers[q]
                 /\ gPlayers[q] # Nil => gp'[gPlayers[q]] = gp[gPlayers[q]]
           /\ \A o \in Objs : gp'[o].agent \in {gp[o].agent, a, Nil}
           /\ UNCHANGED <<timers, loop>>
<1> DEFINE New(o) == [gp EXCEPT ![o] = [p |-> p, agent |-> a, conn |-> fd, cache |-> <<>>]]
<1>1. PICK o \in Objs : /\ ~G!Held(o) /\ gPlayers' = [gPlayers EXCEPT ![p] = o]
                        /\ G!Collect(New(o), sent, got)
  BY DEF G!SureAgent
<1>2. /\ New(o)[o] = [p |-> p, agent |-> a, conn |-> fd, cache |-> <<>>]
      /\ \A q \in Objs : q # o => New(o)[q] = gp[q]
  BY DEF G!TypeOK
<1>3. \A q \in Objs : /\ gp'[q] \in {New(o)[q], G!NoGp}
                      /\ (\E r \in Players : gPlayers'[r] = q) => gp'[q] = New(o)[q]
  BY <1>1, HeldStay
<1> HIDE DEF New
<1>4. G!NoGp.agent = Nil
  BY DEF G!NoGp
<1>5. gPlayers'[p] = o /\ \A q \in Players : q # p => gPlayers'[q] = gPlayers[q] /\ gPlayers[q] # o
  BY <1>1 DEF G!TypeOK, G!Held
<1>6. \A q \in Players : gPlayers[q] \in Objs \cup {Nil}
  BY DEF G!TypeOK
<1>7. ASSUME NEW q \in Players, q # p, gPlayers[q] # Nil
      PROVE  gp'[gPlayers[q]] = gp[gPlayers[q]]
  BY <1>2, <1>3, <1>5, <1>6, <1>7
<1>8. \A q \in Objs : gp'[q].agent \in {gp[q].agent, a, Nil}
  BY <1>2, <1>3, <1>4
<1>9. UNCHANGED <<timers, loop>>
  BY DEF G!SureAgent
<1> QED
  BY <1>2, <1>3, <1>5, <1>7, <1>8, <1>9

(* kick ends the session of the player, if there is one.                   *)
LEMMA KickMoves ==
    ASSUME G!TypeOK, NEW p \in Players, G!Kick(p) \/ G!KickNobody(p)
    PROVE  /\ gPlayers'[p] = Nil
           /\ \A q \in Players : q # p =>
                 /\ gPlayers'[q] = gPlayers[q]
                 /\ gPlayers[q] # Nil => gp'[gPlayers[q]] = gp[gPlayers[q]]
           /\ \A o \in Objs : gp'[o].agent \in {gp[o].agent, Nil}
           /\ UNCHANGED <<timers, loop>>
<1>1. CASE G!KickNobody(p)
  BY <1>1 DEF G!KickNobody
<1>2. CASE G!Kick(p)
  <2>1. /\ gPlayers' = [gPlayers EXCEPT ![p] = Nil] /\ G!Collect(gp, sent, got)
        /\ UNCHANGED <<timers, loop>>
    BY <1>2 DEF G!Kick
  <2>2. \A q \in Objs : /\ gp'[q] \in {gp[q], G!NoGp}
                        /\ (\E r \in Players : gPlayers'[r] = q) => gp'[q] = gp[q]
    BY <2>1, HeldStay
  <2>3. G!NoGp.agent = Nil
    BY DEF G!NoGp
  <2>4. \A q \in Players : q # p => gPlayers'[q] = gPlayers[q] /\ gPlayers[q] \in Objs \cup {Nil}
    BY <2>1 DEF G!TypeOK
  <2>5. gPlayers'[p] = Nil
    BY <2>1 DEF G!TypeOK
  <2>6. ASSUME NEW q \in Players, q # p, gPlayers[q] # Nil
        PROVE  gp'[gPlayers[q]] = gp[gPlayers[q]]
    BY <2>2, <2>4, <2>6
  <2> QED
    BY <2>1, <2>2, <2>3, <2>4, <2>5, <2>6
<1> QED
  BY <1>1, <1>2

-----------------------------------------------------------------------------
(* Steps of agentmgr *)

(* Entries begin and start to leave, and keep their agents.                *)
EntriesStay ==
    \A p \in Players :
        /\ M!ServedBy(p)' = M!ServedBy(p)
        /\ \/ M!Status(p)' = M!Status(p)
           \/ M!Status(p) = "none" /\ M!Status(p)' = "LOGIN"
           \/ M!Status(p) = "GAME" /\ M!Status(p)' = "LOGOUT"

(* The other coroutines, and the players they launch agents for, stay.     *)
OthersStay(t) ==
    \A u \in Tasks : u # t =>
        /\ mPc'[u] = mPc[u] /\ mRet'[u] = mRet[u]
        /\ mPc[u] = "launch" => mObj'[u].p = mObj[u].p

(* Entries whose objects keep agent and status stay.                       *)
LEMMA SameEntries ==
    ASSUME M!TypeOK, mPlayers' = mPlayers,
           \A o \in Tasks : /\ mObj'[o].agent = mObj[o].agent
                            /\ \/ mObj'[o].status = mObj[o].status
                               \/ mObj[o].status = "GAME" /\ mObj'[o].status = "LOGOUT"
    PROVE  EntriesStay
BY DEF EntriesStay, M!ServedBy, M!Status, M!TypeOK

(* An entry in GAME or LOGOUT has its agent; before there is none.         *)
LEMMA Entries ==
    ASSUME M!TypeOK, M!EntriesMatch, M!OneAgentPerPlayer, NEW p \in Players
    PROVE  /\ M!ServedBy(p) \in Agents \cup {Nil}
           /\ M!Status(p) \in {"none", "LOGIN"} => M!ServedBy(p) = Nil
BY DEF M!ServedBy, M!Status, M!TypeOK, M!Entry, M!EntriesMatch, M!OneAgentPerPlayer

(* reqlogin begins an entry or refuses at once.                            *)
LEMMA LoginMoves ==
    ASSUME M!TypeOK, M!EntriesMatch, NEW t \in Tasks, NEW p \in Players,
           \/ M!ReqLogin(t, p, TheGate) \/ M!ReqLoginRefused(t, p) \/ M!ReqLoginReplace(t, p)
    PROVE  /\ EntriesStay /\ OthersStay(t) /\ mAgent' = mAgent
           /\ mPc[t] = "idle"
           /\ \/ mPc'[t] = "launch" /\ mRet'[t] = mRet[t] /\ mObj'[t].p = p
              \/ mPc'[t] = "ret" /\ mRet'[t].ok # "true" /\ mRet'[t].agent = Nil
<1>1. CASE M!ReqLogin(t, p, TheGate)
  <2>1. /\ mPc[t] = "idle" /\ mObj[t] = M!NoObj /\ M!Status(p) = "none"
        /\ mObj' = [mObj EXCEPT ![t] = [p |-> p, status |-> "LOGIN",
                                       agent |-> Nil, gate |-> TheGate]]
        /\ mPlayers' = [mPlayers EXCEPT ![p] = t]
        /\ mPc' = [mPc EXCEPT ![t] = "launch"] /\ mRet' = mRet /\ mAgent' = mAgent
    BY <1>1 DEF M!ReqLogin, M!Free, M!MayEnter
  <2>2. OthersStay(t) /\ mPc'[t] = "launch" /\ mObj'[t].p = p
    BY <2>1 DEF OthersStay, M!TypeOK
  <2>3. mPlayers[p] = Nil /\ \A q \in Players : mPlayers[q] # t
    BY <2>1, SessionAssumption DEF M!Status, M!NoObj, M!EntriesMatch, M!TypeOK
  <2>4. t # Nil
    BY SessionAssumption
  <2>5. ASSUME NEW q \in Players
        PROVE  /\ M!ServedBy(q)' = M!ServedBy(q)
               /\ \/ M!Status(q)' = M!Status(q)
                  \/ M!Status(q) = "none" /\ M!Status(q)' = "LOGIN"
    <3>1. CASE q = p
      BY <3>1, <2>1, <2>3, <2>4 DEF M!ServedBy, M!Status, M!TypeOK
    <3>2. CASE q # p
      BY <3>2, <2>1, <2>3 DEF M!ServedBy, M!Status, M!TypeOK
    <3> QED
      BY <3>1, <3>2
  <2> QED
    BY <2>1, <2>2, <2>5 DEF EntriesStay
<1>2. CASE M!ReqLoginRefused(t, p) \/ M!ReqLoginReplace(t, p)
  <2>1. /\ UNCHANGED <<mPlayers, mObj, mAgent>> /\ mPc[t] = "idle"
        /\ mPc' = [mPc EXCEPT ![t] = "ret"]
        /\ \E ok \in {"false", "nil"} : mRet' = [mRet EXCEPT ![t] = [ok |-> ok, agent |-> Nil]]
    BY <1>2 DEF M!ReqLoginRefused, M!ReqLoginReplace, M!Reply, M!Answer, M!Free
  <2>2. EntriesStay
    BY <2>1, SameEntries
  <2> QED
    BY <2>1, <2>2 DEF OthersStay, M!TypeOK
<1> QED
  BY <1>1, <1>2

(* What storing LOGOUT changes.                                            *)
LEMMA LeavingMoves ==
    ASSUME M!TypeOK, NEW S, mObj' = M!Leaving(S), NEW o \in Tasks
    PROVE  /\ mObj'[o].p = mObj[o].p /\ mObj'[o].agent = mObj[o].agent
           /\ mObj'[o].status = IF o \in S THEN "LOGOUT" ELSE mObj[o].status
<1>1. mObj[o] \in M!Entry
  BY DEF M!TypeOK
<1> QED
  BY <1>1 DEF M!Leaving, M!Entry

(* reqkick has the player leave: nobody is in GAME after it.               *)
LEMMA KickTakenMoves ==
    ASSUME M!TypeOK, NEW t \in Tasks, NEW p \in Players,
           M!ReqKick(t, p) \/ M!ReqKickRefused(t, p)
    PROVE  /\ EntriesStay /\ OthersStay(t) /\ mAgent' = mAgent
           /\ mPc[t] = "idle" /\ M!Status(p)' # "GAME"
           /\ \/ mPc'[t] = "kick" /\ mRet'[t] = mRet[t]
              \/ mPc'[t] = "ret" /\ mRet'[t].agent = Nil
<1>1. CASE M!ReqKick(t, p)
  <2>1. /\ mPc[t] = "idle" /\ M!Status(p) = "GAME" /\ mObj' = M!Leaving({mPlayers[p]})
        /\ mPc' = [mPc EXCEPT ![t] = "kick"] /\ UNCHANGED <<mPlayers, mRet, mAgent>>
    BY <1>1 DEF M!ReqKick, M!Free, M!MayKick
  <2>2. mPlayers[p] \in Tasks /\ mPlayers[p] # Nil /\ mObj[mPlayers[p]].status = "GAME"
    BY <2>1 DEF M!Status, M!TypeOK
  <2>3. \A o \in Tasks : /\ mObj'[o].p = mObj[o].p /\ mObj'[o].agent = mObj[o].agent
                         /\ mObj'[o].status = IF o = mPlayers[p] THEN "LOGOUT" ELSE mObj[o].status
    BY <2>1, LeavingMoves
  <2>4. EntriesStay
    BY <2>1, <2>2, <2>3, SameEntries
  <2>5. M!Status(p)' # "GAME"
    BY <2>1, <2>2, <2>3 DEF M!Status
  <2> QED
    BY <2>1, <2>3, <2>4, <2>5 DEF OthersStay, M!TypeOK
<1>2. CASE M!ReqKickRefused(t, p)
  <2>1. /\ UNCHANGED <<mPlayers, mObj, mAgent>> /\ mPc[t] = "idle" /\ M!Status(p) # "GAME"
        /\ mPc' = [mPc EXCEPT ![t] = "ret"]
        /\ mRet' = [mRet EXCEPT ![t] = [ok |-> "false", agent |-> Nil]]
    BY <1>2 DEF M!ReqKickRefused, M!MayKick, M!Reply, M!Answer, M!Free
  <2>2. EntriesStay
    BY <2>1, SameEntries
  <2>3. M!Status(p)' # "GAME"
    BY <2>1 DEF M!Status
  <2> QED
    BY <2>1, <2>2, <2>3 DEF OthersStay, M!TypeOK
<1> QED
  BY <1>1, <1>2

(* A launched agent serves the player of the entry that waited for it.     *)
LEMMA LaunchMoves ==
    ASSUME M!TypeOK, M!EntriesMatch, M!LocalsCurrent, NEW t \in Tasks, NEW a \in Agents,
           M!LaunchReturns(t, a)
    PROVE  /\ mPc[t] = "launch" /\ mTgt[t] = t
           /\ \E p \in Players :
                 /\ p = mObj[t].p /\ M!ServedBy(p) = Nil /\ M!ServedBy(p)' = a
                 /\ \A q \in Players : q # p =>
                       M!ServedBy(q)' = M!ServedBy(q) /\ M!Status(q)' = M!Status(q)
           /\ OthersStay(t) /\ mPc'[t] = "ret" /\ mRet'[t] = [ok |-> "true", agent |-> a]
           /\ mAgent[a] = "free" /\ mAgent' = [mAgent EXCEPT ![a] = "up"]
<1>1. mPc[t] = "launch" /\ mTgt[t] = t /\ mObj[t].status = "LOGIN" /\ mObj[t].agent = Nil
  BY DEF M!LaunchReturns, M!LocalsCurrent
<1>2. PICK p \in Players : p = mObj[t].p /\ mPlayers[p] = t
  BY <1>1 DEF M!EntriesMatch
<1>3. /\ mPlayers' = mPlayers
      /\ mObj' = [mObj EXCEPT ![t] = [p |-> mObj[t].p, status |-> "GAME",
                                     agent |-> a, gate |-> mObj[t].gate]]
      /\ mPc' = [mPc EXCEPT ![t] = "ret"]
      /\ mRet' = [mRet EXCEPT ![t] = [ok |-> "true", agent |-> a]]
      /\ mAgent[a] = "free" /\ mAgent' = [mAgent EXCEPT ![a] = "up"]
  BY <1>1 DEF M!LaunchReturns, M!Admitted, M!Reply
<1>4. t # Nil
  BY SessionAssumption
<1>5. M!ServedBy(p) = Nil /\ M!ServedBy(p)' = a
  BY <1>1, <1>2, <1>3, <1>4 DEF M!ServedBy, M!TypeOK
<1>6. ASSUME NEW q \in Players, q # p
      PROVE  M!ServedBy(q)' = M!ServedBy(q) /\ M!Status(q)' = M!Status(q)
  <2>1. mPlayers[q] # t
    BY <1>2, <1>4, <1>6 DEF M!EntriesMatch
  <2> QED
    BY <2>1, <1>3 DEF M!ServedBy, M!Status, M!TypeOK
<1>7. OthersStay(t) /\ mPc'[t] = "ret" /\ mRet'[t] = [ok |-> "true", agent |-> a]
  BY <1>3 DEF OthersStay, M!TypeOK
<1> QED
  BY <1>1, <1>2, <1>3, <1>5, <1>6, <1>7

(* When the agent has answered kick the entry of its player is removed.    *)
LEMMA ClearMoves ==
    ASSUME M!TypeOK, M!EntriesMatch, NEW o \in Tasks, M!ClearEntry(o),
           mObj[o].status = "LOGOUT", mObj[o].agent # Nil
    PROVE  /\ \A u \in Tasks : mObj[u].status = "LOGIN" => mObj'[u] = mObj[u]
           /\ \E p \in Players, a \in Agents :
                 /\ p = mObj[o].p /\ M!ServedBy(p) = a /\ mAgent[a] = "kicked"
                 /\ M!ServedBy(p)' = Nil /\ M!Status(p)' = "none"
                 /\ \A q \in Players : q # p =>
                       M!ServedBy(q)' = M!ServedBy(q) /\ M!Status(q)' = M!Status(q)
                 /\ mAgent' = [mAgent EXCEPT ![a] = "exiting"]
<1>1. PICK p \in Players : p = mObj[o].p /\ mPlayers[p] = o
  BY DEF M!EntriesMatch
<1>2. /\ mPlayers' = [mPlayers EXCEPT ![p] = Nil]
      /\ mObj' = [mObj EXCEPT ![o] = M!NoObj]
      /\ mAgent[mObj[o].agent] = "kicked"
      /\ mAgent' = [mAgent EXCEPT ![mObj[o].agent] = "exiting"]
  BY <1>1 DEF M!ClearEntry, M!ExitSent
<1>3. o # Nil
  BY SessionAssumption
<1>4. M!ServedBy(p) = mObj[o].agent /\ mObj[o].agent \in Agents
  BY <1>1, <1>3 DEF M!ServedBy, M!TypeOK, M!Entry
<1>5. M!ServedBy(p)' = Nil /\ M!Status(p)' = "none"
  BY <1>1, <1>2 DEF M!ServedBy, M!Status, M!TypeOK
<1>6. ASSUME NEW q \in Players, q # p
      PROVE  M!ServedBy(q)' = M!ServedBy(q) /\ M!Status(q)' = M!Status(q)
  <2>1. mPlayers[q] # o
    BY <1>1, <1>3, <1>6 DEF M!EntriesMatch
  <2> QED
    BY <2>1, <1>2, <1>6 DEF M!ServedBy, M!Status, M!TypeOK
<1>7. \A u \in Tasks : mObj[u].status = "LOGIN" => mObj'[u] = mObj[u]
  BY <1>2 DEF M!TypeOK
<1> QED
  BY <1>1, <1>2, <1>4, <1>5, <1>6, <1>7

(* A shutdown has players leave, and waits.                                *)
LEMMA StopMoves ==
    ASSUME M!TypeOK, NEW t \in Tasks, M!Shutdown(t)
    PROVE  /\ EntriesStay /\ mAgent' = mAgent /\ mRet' = mRet
           /\ \A u \in Tasks : mObj'[u].p = mObj[u].p
           /\ mPc[t] = "idle" /\ mPc' = [mPc EXCEPT ![t] = "wait"]
<1>1. PICK S \in M!Batches :
         /\ M!Free(t)
         /\ mObj' = M!Leaving({mPlayers[p] : p \in {q \in S : M!MayKick(q)}})
         /\ mPc' = [mPc EXCEPT ![t] = "wait"]
         /\ UNCHANGED <<mPlayers, mRet, mAgent>>
  BY DEF M!Shutdown
<1> DEFINE hit == {mPlayers[p] : p \in {q \in S : M!MayKick(q)}}
<1>2. \A o \in Tasks : /\ mObj'[o].p = mObj[o].p /\ mObj'[o].agent = mObj[o].agent
                       /\ mObj'[o].status = IF o \in hit THEN "LOGOUT" ELSE mObj[o].status
  BY <1>1, LeavingMoves
<1>3. \A o \in hit : mObj[o].status = "GAME"
  BY DEF M!MayKick, M!Status
<1> HIDE DEF hit
<1>4. EntriesStay
  BY <1>1, <1>2, <1>3, SameEntries
<1> QED
  BY <1>1, <1>2, <1>4 DEF M!Free

-----------------------------------------------------------------------------
(* Logins find their way: each step keeps Wires *)

(* Nil names nothing.                                                      *)
LEMMA NilApart == Nil \notin Logins /\ Nil \notin Agents /\ Nil \notin Players /\ Nil \notin Fds
BY SessionAssumption

(* Nothing of agentmgr moves.                                              *)
LEMMA MgrAlone ==
    ASSUME UNCHANGED <<mgrVars, lg, caller>>
    PROVE  \A t \in Tasks : TaskStays(t)
BY DEF mgrVars, TaskStays, LoginStays

(* Sockets, the shutdown of the gateway and stuttering.                    *)
LEMMA SocketWires ==
    ASSUME Wires, UNCHANGED <<mgrVars, lg, caller, toMgr, toGate, owner>>,
           \A fd \in Fds : loop[fd] # "none" => loop'[fd] # "none"
    PROVE  Wires'
<1>1. AgentsStay
  BY SameAgents DEF mgrVars
<1>2. owner' \in [Agents -> Players \cup {Nil}]
  BY DEF Wires, Shapes
<1> QED
  BY <1>1, <1>2, LoginsAlone, MgrAlone

(* A login that waits for nothing begins or ends.                          *)
LEMMA LoginChanges ==
    ASSUME Wires, NEW l \in Logins, lg[l].st \in {"idle", "query"},
           NEW new \in LoginState, lg' = [lg EXCEPT ![l] = new],
           new.st # "idle" => /\ new.p \in Players /\ new.fd \in Fds
                              /\ loop[new.fd] # "none",
           UNCHANGED <<mgrVars, caller, toMgr, toGate, owner, loop>>
    PROVE  Wires'
<1>1. ~Has(toMgr, l) /\ ~Has(toGate, l) /\ \A t \in Tasks : caller[t] # l
  BY NotYet
<1>2. \A k \in Logins : lg'[k] = IF k = l THEN new ELSE lg[k]
  BY DEF Wires, Shapes
<1>3. Shapes'
  BY DEF Wires, Shapes
<1>4. Begun'
  BY <1>2 DEF Wires, Begun
<1>5. OnePlace'
  BY DEF Wires, OnePlace, Has, Once
<1>6. AgentsStay
  BY SameAgents DEF mgrVars
<1>7. \A k : k # l /\ k \in Logins \cup {Nil} => LoginStays(k)
  BY <1>2 DEF LoginStays
<1>8. \A t \in Tasks : TaskStays(t)
  BY <1>1, <1>7 DEF Wires, Shapes, mgrVars, TaskStays
<1>9. \A m \in MgrMsg : In(toMgr', m) => In(toMgr, m) /\ LoginStays(m.l)
  BY <1>1, <1>7, Contents DEF Wires, Shapes, MgrMsg
<1>10. \A m \in GateMsg : In(toGate', m) => In(toGate, m) /\ LoginStays(m.l)
  BY <1>1, <1>7, Contents DEF Wires, Shapes, GateMsg
<1> QED
  BY <1>3, <1>4, <1>5, <1>6, <1>8, <1>9, <1>10, WiresKept DEF AgentsStay

(* A line with a login begins one.                                         *)
LEMMA LoginLineWires ==
    ASSUME Wires, NEW fd \in Fds, NEW p \in Players, NEW l \in Logins, LoginLine(fd, p, l)
    PROVE  Wires'
<1> DEFINE new == [st |-> "query", fd |-> fd, p |-> p]
<1>1. /\ lg[l].st = "idle" /\ lg' = [lg EXCEPT ![l] = new]
      /\ loop[fd] # "none"
      /\ UNCHANGED <<mgrVars, caller, toMgr, toGate, owner, loop>>
  BY DEF LoginLine, Started, NoLogin, G!LineToLogin
<1>2. new \in LoginState
  BY DEF LoginState
<1> QED
  BY <1>1, <1>2, LoginChanges

(* A wrong password ends it.                                               *)
LEMMA LoginRejectedWires ==
    ASSUME Wires, NEW l \in Logins, LoginRejected(l)
    PROVE  Wires'
<1>1. /\ lg[l].st = "query" /\ lg' = [lg EXCEPT ![l] = NoLogin]
      /\ UNCHANGED <<mgrVars, caller, toMgr, toGate, owner, loop>>
  BY DEF LoginRejected, gateVars
<1>2. NoLogin \in LoginState /\ NoLogin.st = "idle"
  BY DEF LoginState, NoLogin
<1> QED
  BY <1>1, <1>2, LoginChanges

(* A right one has agentmgr asked: the login waits for the message.        *)
LEMMA LoginPassedWires ==
    ASSUME Wires, NEW l \in Logins, LoginPassed(l)
    PROVE  Wires'
<1>1. PICK x :
         /\ x = [k |-> "reqlogin", p |-> lg[l].p, l |-> l, a |-> Nil]
         /\ lg[l].st = "query" /\ lg' = [lg EXCEPT ![l] = [lg[l] EXCEPT !.st = "reqlogin"]]
         /\ toMgr' = Append(toMgr, x)
         /\ UNCHANGED <<mgrVars, caller, toGate, owner, loop>>
  BY DEF LoginPassed, Msg, gateVars
<1>2. ~Has(toMgr, l) /\ ~Has(toGate, l) /\ \A t \in Tasks : caller[t] # l
  BY <1>1, NotYet
<1>3. /\ lg[l].p \in Players /\ lg[l].fd \in Fds /\ loop[lg[l].fd] # "none"
      /\ lg[l] \in LoginState
  BY <1>1 DEF Wires, Begun, Shapes
<1>4. /\ \A k \in Logins : k # l => lg'[k] = lg[k]
      /\ lg'[l] \in LoginState /\ lg'[l].st = "reqlogin"
      /\ lg'[l].p = lg[l].p /\ lg'[l].fd = lg[l].fd
  BY <1>1, <1>3 DEF Wires, Shapes, LoginState
<1>5. x \in MgrMsg
  BY <1>1, <1>3 DEF MgrMsg
<1>6. toMgr \in Seq(MgrMsg) /\ toGate \in Seq(GateMsg) /\ caller \in [Tasks -> Logins \cup {Nil}]
  BY DEF Wires, Shapes
<1>7. /\ toMgr' \in Seq(MgrMsg)
      /\ \A m : In(toMgr', m) <=> In(toMgr, m) \/ m = x
      /\ \A k : Has(toMgr', k) <=> Has(toMgr, k) \/ l = k
      /\ \A k : Once(toMgr, k) /\ ~(l = k /\ Has(toMgr, k)) => Once(toMgr', k)
  BY <1>1, <1>5, <1>6, Appended
<1>8. Shapes'
  <2>1. lg' \in [Logins -> LoginState]
    BY <1>1, <1>4 DEF Wires, Shapes
  <2> QED
    BY <2>1, <1>1, <1>7 DEF Wires, Shapes
<1>9. Begun'
  BY <1>1, <1>3, <1>4 DEF Wires, Begun
<1>10. OnePlace'
  BY <1>1, <1>2, <1>7 DEF Wires, OnePlace
<1>11. AgentsStay
  BY <1>1, SameAgents DEF mgrVars
<1>12. \A k : k # l /\ k \in Logins \cup {Nil} => LoginStays(k)
  BY <1>4 DEF LoginStays
<1>13. \A t \in Tasks : TaskStays(t)
  BY <1>1, <1>2, <1>6, <1>12 DEF mgrVars, TaskStays
<1>14. ForMgr(x)'
  BY <1>1, <1>4 DEF ForMgr
<1>15. \A m \in MgrMsg : In(toMgr', m) => ForMgr(m)' \/ (In(toMgr, m) /\ LoginStays(m.l))
  <2>1. \A m \in MgrMsg : In(toMgr, m) => LoginStays(m.l)
    BY <1>2, <1>6, <1>12, Contents DEF MgrMsg
  <2> QED
    BY <2>1, <1>7, <1>14
<1>16. \A m \in GateMsg : In(toGate', m) => In(toGate, m) /\ LoginStays(m.l)
  BY <1>1, <1>2, <1>6, <1>12, Contents DEF GateMsg
<1> QED
  BY <1>8, <1>9, <1>10, <1>11, <1>13, <1>15, <1>16, WiresKept DEF AgentsStay

(* A message no login waits for goes to agentmgr.                          *)
LEMMA AskedWires ==
    ASSUME Wires, NEW x \in MgrMsg, x.k = "reqkick", x.l = Nil, toMgr' = Append(toMgr, x),
           UNCHANGED <<mgrVars, lg, caller, toGate, owner>>,
           \A fd \in Fds : loop[fd] # "none" => loop'[fd] # "none"
    PROVE  Wires'
<1>1. toMgr \in Seq(MgrMsg)
  BY DEF Wires, Shapes
<1>2. /\ toMgr' \in Seq(MgrMsg)
      /\ \A m : In(toMgr', m) <=> In(toMgr, m) \/ m = x
      /\ \A l \in Logins : /\ Has(toMgr', l) <=> Has(toMgr, l)
                           /\ Once(toMgr, l) => Once(toMgr', l)
  BY <1>1, Appended, NilApart
<1>3. Shapes' /\ Begun'
  BY <1>2 DEF Wires, Shapes, Begun
<1>4. OnePlace'
  BY <1>2 DEF Wires, OnePlace
<1>5. AgentsStay
  BY SameAgents DEF mgrVars
<1>6. ForMgr(x)'
  BY DEF ForMgr
<1>7. \A l : LoginStays(l)
  BY DEF LoginStays
<1>8. \A t \in Tasks : TaskStays(t)
  BY MgrAlone
<1> QED
  BY <1>2, <1>3, <1>4, <1>5, <1>6, <1>7, <1>8, WiresKept DEF AgentsStay

(* agentmgr takes a message: the login waits for its coroutine now.        *)
LEMMA MgrTakesWires ==
    ASSUME Wires, M!TypeOK, M!EntriesMatch, NEW t \in Tasks, MgrTakes(t)
    PROVE  Wires'
<1>1. PICK m \in MgrMsg : m = Head(toMgr)
  BY Taken DEF MgrTakes, Wires, Shapes
<1>2. /\ toMgr # <<>> /\ toMgr' = Tail(toMgr) /\ caller' = [caller EXCEPT ![t] = m.l]
      /\ UNCHANGED <<gateVars, lg, toGate, owner>>
      /\ \/ /\ m.k = "reqlogin"
            /\ \/ M!ReqLogin(t, m.p, TheGate)
               \/ M!ReqLoginRefused(t, m.p) \/ M!ReqLoginReplace(t, m.p)
         \/ m.k = "reqkick" /\ (M!ReqKick(t, m.p) \/ M!ReqKickRefused(t, m.p))
  BY <1>1 DEF MgrTakes
<1>3. /\ toMgr' \in Seq(MgrMsg)
      /\ In(toMgr, m) /\ Has(toMgr, m.l)
      /\ \A x : In(toMgr', x) => In(toMgr, x)
      /\ \A l : Has(toMgr', l) => Has(toMgr, l)
      /\ \A l : Once(toMgr, l) => Once(toMgr', l) /\ ~(m.l = l /\ Has(toMgr', l))
  BY <1>1, <1>2, Taken DEF Wires, Shapes
<1>4. m.p \in Players /\ m.l \in Logins \cup {Nil}
  BY DEF MgrMsg
<1>5. caller \in [Tasks -> Logins \cup {Nil}]
  BY DEF Wires, Shapes
<1>6. ForMgr(m)
  BY <1>3 DEF Wires, Sent
<1>7. OthersStay(t) /\ mAgent' = mAgent /\ mPc[t] = "idle" /\ Serves(t)'
  <2>1. CASE m.k = "reqlogin"
    <3>1. /\ OthersStay(t) /\ mAgent' = mAgent /\ mPc[t] = "idle"
          /\ \/ mPc'[t] = "launch" /\ mRet'[t] = mRet[t] /\ mObj'[t].p = m.p
             \/ mPc'[t] = "ret" /\ mRet'[t].ok # "true" /\ mRet'[t].agent = Nil
      BY <1>2, <1>4, <2>1, LoginMoves
    <3>2. mRet[t].agent = Nil
      BY <3>1 DEF Wires, TasksServe, Serves
    <3>3. caller'[t] = m.l /\ m.l \in Logins /\ lg'[m.l].st = "reqlogin" /\ lg'[m.l].p = m.p
      BY <1>2, <1>5, <1>6, <2>1 DEF ForMgr
    <3>4. Serves(t)'
      BY <3>1, <3>2, <3>3 DEF Serves
    <3> QED
      BY <3>1, <3>4
  <2>2. CASE m.k = "reqkick"
    <3>1. /\ OthersStay(t) /\ mAgent' = mAgent /\ mPc[t] = "idle"
          /\ \/ mPc'[t] = "kick" /\ mRet'[t] = mRet[t]
             \/ mPc'[t] = "ret" /\ mRet'[t].agent = Nil
      BY <1>2, <1>4, <2>2, KickTakenMoves
    <3>2. mRet[t].agent = Nil
      BY <3>1 DEF Wires, TasksServe, Serves
    <3>3. caller'[t] = m.l /\ (m.l # Nil => lg'[m.l].st = "sure_agent")
      BY <1>2, <1>5, <1>6, <2>2 DEF ForMgr
    <3>4. Serves(t)'
      BY <3>1, <3>2, <3>3 DEF Serves
    <3> QED
      BY <3>1, <3>4
  <2> QED
    BY <1>2, <2>1, <2>2
<1>8. caller[t] = Nil
  BY <1>7 DEF Wires, TasksServe, Serves, AnswersLogin
<1>9. Shapes' /\ Begun'
  BY <1>2, <1>3, <1>4, <1>5 DEF Wires, Shapes, Begun, gateVars
<1>10. OnePlace'
  <2>1. \A u \in Tasks : caller'[u] = IF u = t THEN m.l ELSE caller[u]
    BY <1>2, <1>5
  <2> QED
    BY <1>2, <1>3, <2>1 DEF Wires, OnePlace
<1>11. AgentsStay
  BY <1>2, <1>7, SameAgents
<1>12. \A l : LoginStays(l)
  BY <1>2 DEF LoginStays
<1>13. \A u \in Tasks : u # t => TaskStays(u)
  BY <1>2, <1>5, <1>7, <1>12 DEF OthersStay, TaskStays
<1> QED
  BY <1>2, <1>3, <1>7, <1>9, <1>10, <1>11, <1>12, <1>13, WiresKept DEF AgentsStay

(* A launched agent is the login's: it was free, so nothing else names it. *)
LEMMA LaunchedWires ==
    ASSUME Wires, M!TypeOK, M!EntriesMatch, M!LocalsCurrent,
           NEW t \in Tasks, NEW a \in Agents, Launched(t, a)
    PROVE  Wires'
<1>1. /\ mPc[t] = "launch" /\ mTgt[t] = t
      /\ OthersStay(t) /\ mPc'[t] = "ret" /\ mRet'[t] = [ok |-> "true", agent |-> a]
      /\ mAgent[a] = "free" /\ mAgent' = [mAgent EXCEPT ![a] = "up"]
      /\ mObj[t].p \in Players
  BY LaunchMoves DEF Launched
<1>2. /\ owner' = [owner EXCEPT ![a] = mObj[t].p]
      /\ UNCHANGED <<lg, caller, toMgr, toGate, loop>>
  BY <1>1 DEF Launched, gateVars
<1>3. owner'[a] = mObj[t].p /\ mAgent'[a] = "up"
      /\ \A b \in Agents : b # a => owner'[b] = owner[b] /\ mAgent'[b] = mAgent[b]
  BY <1>1, <1>2 DEF Wires, Shapes, M!TypeOK
<1>4. AgentsStay
  BY <1>1, <1>3, UsedStay DEF AgentStays
<1>5. \A u \in Tasks : u # t => TaskStays(u)
  BY <1>1, <1>2 DEF OthersStay, TaskStays, LoginStays
<1>6. Serves(t)'
  <2>1. caller[t] \in Logins /\ lg[caller[t]].st = "reqlogin" /\ lg[caller[t]].p = mObj[t].p
    BY <1>1 DEF Wires, TasksServe, Serves
  <2> QED
    BY <1>1, <1>2, <1>3, <2>1 DEF Serves, AnswersLogin
<1>7. owner' \in [Agents -> Players \cup {Nil}]
  BY <1>1, <1>2 DEF Wires, Shapes
<1> QED
  BY <1>2, <1>4, <1>5, <1>6, <1>7, LoginsAlone

(* kick goes to the gateway; no login waits for it.                        *)
LEMMA KickSentWires ==
    ASSUME Wires, M!TypeOK, M!EntriesMatch, NEW o \in Tasks, M!ClearEntry(o),
           mObj[o].status = "LOGOUT", mObj[o].agent # Nil, toGate' = KickSent(o),
           \A u \in Tasks : mPc[u] = "launch" => mObj[u].status = "LOGIN",
           UNCHANGED <<gateVars, lg, caller, toMgr, owner>>,
           \A t \in Tasks : \/ mPc'[t] = mPc[t] /\ mRet'[t] = mRet[t]
                            \/ mPc[t] = "kick" /\ mPc'[t] = "ret" /\ mRet'[t].agent = Nil
    PROVE  Wires'
<1>1. PICK p \in Players, a \in Agents :
        /\ p = mObj[o].p /\ mAgent[a] = "kicked" /\ mAgent' = [mAgent EXCEPT ![a] = "exiting"]
  BY ClearMoves
<1>2. \A u \in Tasks : mObj[u].status = "LOGIN" => mObj'[u] = mObj[u]
  BY ClearMoves
<1>3. PICK x : x = [k |-> "kick", p |-> p, l |-> Nil, a |-> Nil] /\ toGate' = Append(toGate, x)
  BY <1>1 DEF KickSent, Msg
<1>4. x \in GateMsg /\ toGate \in Seq(GateMsg)
  BY <1>3 DEF GateMsg, Wires, Shapes
<1>5. /\ toGate' \in Seq(GateMsg)
      /\ \A m : In(toGate', m) <=> In(toGate, m) \/ m = x
      /\ \A l \in Logins : /\ Has(toGate', l) <=> Has(toGate, l)
                           /\ Once(toGate, l) => Once(toGate', l)
  BY <1>3, <1>4, Appended, NilApart
<1>6. Shapes' /\ Begun'
  BY <1>5 DEF Wires, Shapes, Begun, gateVars
<1>7. OnePlace'
  BY <1>5 DEF Wires, OnePlace
<1>8. AgentsStay
  BY <1>1, SameAgents DEF M!TypeOK
<1>9. ForGate(x)'
  BY <1>3 DEF ForGate
<1>10. \A l : LoginStays(l)
  BY DEF LoginStays
<1>11. ASSUME NEW t \in Tasks PROVE TaskStays(t) \/ Serves(t)'
  <2>1. CASE mPc'[t] = mPc[t] /\ mRet'[t] = mRet[t]
    BY <1>2, <1>10, <2>1 DEF TaskStays
  <2>2. CASE mPc[t] = "kick" /\ mPc'[t] = "ret" /\ mRet'[t].agent = Nil
    BY <2>2 DEF Wires, TasksServe, Serves, AnswersLogin
  <2> QED
    BY <2>1, <2>2
<1> QED
  BY <1>5, <1>6, <1>7, <1>8, <1>9, <1>10, <1>11, WiresKept DEF AgentsStay

(* What a kick that returns does, in a coroutine or in a forked one.       *)
LEMMA KickedMoves ==
    ASSUME M!TypeOK, M!EntriesMatch, M!LocalsCurrent, NEW t \in Tasks,
           Kicked(t) \/ ForkedKicked(t)
    PROVE  \E o \in Tasks :
             /\ M!ClearEntry(o) /\ mObj[o].status = "LOGOUT" /\ mObj[o].agent # Nil
             /\ toGate' = KickSent(o) /\ UNCHANGED <<gateVars, lg, caller, toMgr, owner>>
             /\ \A u \in Tasks : \/ mPc'[u] = mPc[u] /\ mRet'[u] = mRet[u]
                                 \/ /\ mPc[u] = "kick" /\ mPc'[u] = "ret"
                                    /\ mRet'[u].agent = Nil
<1>1. CASE Kicked(t)
  <2>1. /\ mPc[t] = "kick" /\ M!ClearEntry(mTgt[t])
        /\ mPc' = [mPc EXCEPT ![t] = "ret"]
        /\ mRet' = [mRet EXCEPT ![t] = [ok |-> "true", agent |-> Nil]]
        /\ toGate' = KickSent(mTgt[t]) /\ UNCHANGED <<gateVars, lg, caller, toMgr, owner>>
    BY <1>1 DEF Kicked, M!KickReturns, M!Reply, M!Answer
  <2>2. /\ mTgt[t] \in Tasks
        /\ mObj[mTgt[t]].status = "LOGOUT" /\ mObj[mTgt[t]].agent # Nil
    BY <2>1 DEF M!LocalsCurrent
  <2>3. \A u \in Tasks : \/ mPc'[u] = mPc[u] /\ mRet'[u] = mRet[u]
                         \/ mPc[u] = "kick" /\ mPc'[u] = "ret" /\ mRet'[u].agent = Nil
    BY <2>1 DEF M!TypeOK
  <2> QED
    BY <2>1, <2>2, <2>3
<1>2. CASE ForkedKicked(t)
  <2>1. /\ t \in mForked /\ M!ClearEntry(t) /\ UNCHANGED <<mPc, mRet>>
        /\ toGate' = KickSent(t) /\ UNCHANGED <<gateVars, lg, caller, toMgr, owner>>
    BY <1>2 DEF ForkedKicked, M!ForkedKickReturns
  <2>2. mObj[t].status = "LOGOUT" /\ mObj[t].agent # Nil
    BY <2>1 DEF M!LocalsCurrent
  <2> QED
    BY <2>1, <2>2
<1> QED
  BY <1>1, <1>2

(* Both keep Wires.                                                        *)
LEMMA KickedWires ==
    ASSUME Wires, M!TypeOK, M!EntriesMatch, M!LocalsCurrent, NEW t \in Tasks,
           Kicked(t) \/ ForkedKicked(t)
    PROVE  Wires'
<1>1. \A u \in Tasks : mPc[u] = "launch" => mObj[u].status = "LOGIN"
  BY DEF M!LocalsCurrent
<1> QED
  BY <1>1, KickedMoves, KickSentWires

(* What an answer of agentmgr does to the login that waits for it.         *)
LEMMA AnswerMoves ==
    ASSUME Wires, M!TypeOK, NEW t \in Tasks, MgrAnswers(t)
    PROVE  /\ mPc[t] = "ret" /\ mPc' = [mPc EXCEPT ![t] = "idle"]
           /\ mRet' = [mRet EXCEPT ![t] = [ok |-> "none", agent |-> Nil]]
           /\ caller' = [caller EXCEPT ![t] = Nil]
           /\ UNCHANGED <<mPlayers, mObj, mAgent, gateVars, toMgr, owner>>
           /\ \/ caller[t] = Nil /\ UNCHANGED <<lg, toGate>> /\ mRet[t].agent = Nil
              \/ /\ caller[t] \in Logins /\ mRet[t].agent = Nil /\ toGate' = toGate
                 /\ lg' = [lg EXCEPT ![caller[t]] = NoLogin]
              \/ /\ AnswersLogin(t)
                 /\ lg' = [lg EXCEPT ![caller[t]] = [lg[caller[t]] EXCEPT !.st = "sure_agent"]]
                 /\ toGate' = Append(toGate, Sure(lg[caller[t]].p, caller[t], mRet[t].agent))
<1>1. /\ mPc[t] = "ret" /\ mPc' = [mPc EXCEPT ![t] = "idle"]
      /\ mRet' = [mRet EXCEPT ![t] = [ok |-> "none", agent |-> Nil]]
      /\ caller' = [caller EXCEPT ![t] = Nil]
      /\ UNCHANGED <<mPlayers, mObj, mAgent, gateVars, toMgr, owner>>
  BY DEF MgrAnswers, M!Answered, M!NoRet
<1>2. caller[t] \in Logins \cup {Nil}
  BY DEF Wires, Shapes
<1>3. CASE caller[t] = Nil
  <2>1. mRet[t].agent = Nil
    BY <1>1, <1>3, NilApart DEF Wires, TasksServe, Serves, AnswersLogin
  <2> QED
    BY <1>1, <1>3, <2>1 DEF MgrAnswers
<1>4. CASE caller[t] # Nil
  <2>1. Told(caller[t], mRet[t].ok, mRet[t].agent)
    BY <1>4 DEF MgrAnswers
  <2>2. \/ AnswersLogin(t)
        \/ /\ mRet[t].agent = Nil
           /\ lg[caller[t]].st = "reqlogin" => mRet[t].ok # "true"
    BY <1>1, <1>4 DEF Wires, TasksServe, Serves
  <2>3. CASE AnswersLogin(t)
    BY <1>1, <2>1, <2>3 DEF Told, AnswersLogin
  <2>4. CASE mRet[t].agent = Nil /\ (lg[caller[t]].st = "reqlogin" => mRet[t].ok # "true")
    BY <1>1, <1>2, <1>4, <2>1, <2>4 DEF Told
  <2> QED
    BY <2>2, <2>3, <2>4
<1> QED
  BY <1>3, <1>4

(* The login leaves the coroutine: it is done, or waits for the gateway.   *)
LEMMA MgrAnswersWires ==
    ASSUME Wires, M!TypeOK, NEW t \in Tasks, MgrAnswers(t)
    PROVE  Wires'
<1>1. /\ mPc[t] = "ret" /\ mPc' = [mPc EXCEPT ![t] = "idle"]
      /\ mRet' = [mRet EXCEPT ![t] = [ok |-> "none", agent |-> Nil]]
      /\ caller' = [caller EXCEPT ![t] = Nil]
      /\ UNCHANGED <<mPlayers, mObj, mAgent, gateVars, toMgr, owner>>
  BY AnswerMoves
<1>2. /\ lg \in [Logins -> LoginState] /\ caller \in [Tasks -> Logins \cup {Nil}]
      /\ toMgr \in Seq(MgrMsg) /\ toGate \in Seq(GateMsg)
  BY DEF Wires, Shapes
<1>3. Serves(t)'
  BY <1>1, <1>2 DEF Serves, M!TypeOK
<1>4. AgentsStay
  BY <1>1, SameAgents
<1>5. \A u \in Tasks : /\ u # t => mPc'[u] = mPc[u] /\ mRet'[u] = mRet[u] /\ caller'[u] = caller[u]
                       /\ caller'[u] \in {caller[u], Nil} /\ caller'[t] = Nil
  BY <1>1, <1>2 DEF M!TypeOK
<1>6. CASE caller[t] = Nil /\ UNCHANGED <<lg, toGate>>
  <2>1. caller' = caller
    BY <1>1, <1>2, <1>6
  <2>2. \A u \in Tasks : u # t => TaskStays(u)
    BY <1>1, <1>5, <1>6 DEF TaskStays, LoginStays
  <2>3. /\ owner' \in [Agents -> Players \cup {Nil}]
        /\ loop' = loop
    BY <1>1 DEF Wires, Shapes, gateVars
  <2> QED
    BY <1>1, <1>3, <1>4, <1>6, <2>1, <2>2, <2>3, LoginsAlone
<1>7. ASSUME caller[t] \in Logins,
             \/ toGate' = toGate /\ lg' = [lg EXCEPT ![caller[t]] = NoLogin]
             \/ /\ AnswersLogin(t)
                /\ lg' = [lg EXCEPT ![caller[t]] = [lg[caller[t]] EXCEPT !.st = "sure_agent"]]
                /\ toGate' = Append(toGate, Sure(lg[caller[t]].p, caller[t], mRet[t].agent))
      PROVE  Wires'
  <2>1. PICK l \in Logins : l = caller[t]
    BY <1>7
  <2>2. ~Has(toMgr, l) /\ ~Has(toGate, l) /\ \A u \in Tasks : u # t => caller[u] # l
    BY <2>1 DEF Wires, OnePlace
  <2>3. \A k : k # l /\ k \in Logins \cup {Nil} => LoginStays(k)
    BY <1>2, <1>7, <2>1 DEF LoginStays
  <2>4. \A u \in Tasks : u # t => TaskStays(u)
    BY <1>1, <1>2, <1>5, <2>2, <2>3 DEF TaskStays
  <2>5. \A m \in MgrMsg : In(toMgr', m) => In(toMgr, m) /\ LoginStays(m.l)
    BY <1>1, <1>2, <2>2, <2>3, Contents DEF MgrMsg
  <2>6. \A m \in GateMsg : In(toGate, m) => LoginStays(m.l)
    BY <1>2, <2>2, <2>3, Contents DEF GateMsg
  <2>7. lg[l] \in LoginState
    BY <1>2
  <2>8. CASE toGate' = toGate /\ lg' = [lg EXCEPT ![l] = NoLogin]
    <3>1. NoLogin \in LoginState /\ NoLogin.st = "idle"
      BY DEF NoLogin, LoginState
    <3>2. \A k \in Logins : lg'[k] = IF k = l THEN NoLogin ELSE lg[k]
      BY <1>2, <2>8
    <3>3. Shapes'
      BY <1>1, <1>2, <2>8, <3>1 DEF Wires, Shapes
    <3>4. Begun'
      BY <1>1, <3>1, <3>2 DEF Wires, Begun, gateVars
    <3>5. OnePlace'
      BY <1>1, <1>5, <2>8, NilApart DEF Wires, OnePlace
    <3> QED
      BY <1>3, <1>4, <2>4, <2>5, <2>6, <2>8, <3>3, <3>4, <3>5, WiresKept DEF AgentsStay
  <2>9. CASE /\ AnswersLogin(t)
             /\ lg' = [lg EXCEPT ![l] = [lg[l] EXCEPT !.st = "sure_agent"]]
             /\ toGate' = Append(toGate, Sure(lg[l].p, l, mRet[t].agent))
    <3>1. PICK x : x = [k |-> "sure_agent", p |-> lg[l].p, l |-> l, a |-> mRet[t].agent]
      OBVIOUS
    <3>2. lg[l].st = "reqlogin" /\ mRet[t].agent \in Agents
      BY <2>1, <2>9 DEF AnswersLogin
    <3>3. lg[l].p \in Players /\ lg[l].fd \in Fds /\ loop[lg[l].fd] # "none"
      BY <3>2 DEF Wires, Begun
    <3>4. x \in GateMsg
      BY <3>1, <3>2, <3>3 DEF GateMsg
    <3>5. toGate' = Append(toGate, x) /\ x.l = l
      BY <2>9, <3>1 DEF Sure
    <3>6. /\ toGate' \in Seq(GateMsg)
          /\ \A m : In(toGate', m) <=> In(toGate, m) \/ m = x
          /\ \A k : Has(toGate', k) <=> Has(toGate, k) \/ l = k
          /\ \A k : Once(toGate, k) /\ ~(l = k /\ Has(toGate, k)) => Once(toGate', k)
      BY <1>2, <3>4, <3>5, Appended
    <3>7. /\ \A k \in Logins : k # l => lg'[k] = lg[k]
          /\ lg'[l] \in LoginState /\ lg'[l].st = "sure_agent"
          /\ lg'[l].p = lg[l].p /\ lg'[l].fd = lg[l].fd
      BY <1>2, <2>7, <2>9 DEF LoginState
    <3>8. Shapes'
      <4>1. lg' \in [Logins -> LoginState]
        BY <1>2, <2>9, <3>7
      <4> QED
        BY <1>1, <1>2, <3>6, <4>1 DEF Wires, Shapes
    <3>9. Begun'
      BY <1>1, <3>3, <3>7 DEF Wires, Begun, gateVars
    <3>10. OnePlace'
      BY <1>1, <1>5, <2>2, <3>6, NilApart DEF Wires, OnePlace
    <3>11. ForGate(x)'
      BY <1>1, <2>1, <2>9, <3>1, <3>2, <3>7 DEF ForGate, AnswersLogin
    <3> QED
      BY <1>3, <1>4, <2>4, <2>5, <2>6, <3>6, <3>8, <3>9, <3>10, <3>11, WiresKept
         DEF AgentsStay
  <2> QED
    BY <1>7, <2>1, <2>8, <2>9
<1>8. \/ caller[t] = Nil /\ UNCHANGED <<lg, toGate>>
      \/ /\ caller[t] \in Logins
         /\ \/ toGate' = toGate /\ lg' = [lg EXCEPT ![caller[t]] = NoLogin]
            \/ /\ AnswersLogin(t)
               /\ lg' = [lg EXCEPT ![caller[t]] = [lg[caller[t]] EXCEPT !.st = "sure_agent"]]
               /\ toGate' = Append(toGate, Sure(lg[caller[t]].p, caller[t], mRet[t].agent))
  BY AnswerMoves DEF AnswersLogin
<1> QED
  BY <1>6, <1>7, <1>8

(* Shutdowns have no login that waits.                                     *)
LEMMA StopWires ==
    ASSUME Wires, M!TypeOK, NEW t \in Tasks, Stop(t) \/ StopWaits(t)
    PROVE  Wires'
<1>1. UNCHANGED <<lg, caller, toMgr, toGate, owner, loop>>
  BY DEF Stop, StopWaits, gateVars
<1>2. CASE Stop(t)
  <2>1. /\ mAgent' = mAgent /\ mRet' = mRet
        /\ \A u \in Tasks : mObj'[u].p = mObj[u].p
        /\ mPc[t] = "idle" /\ mPc' = [mPc EXCEPT ![t] = "wait"]
    BY <1>2, StopMoves DEF Stop
  <2>2. AgentsStay
    BY <1>1, <2>1, SameAgents
  <2>3. \A u \in Tasks : u # t => TaskStays(u)
    BY <1>1, <2>1 DEF TaskStays, LoginStays, M!TypeOK
  <2>4. Serves(t)'
    BY <1>1, <2>1 DEF Wires, TasksServe, Serves, M!TypeOK
  <2> QED
    BY <1>1, <2>2, <2>3, <2>4, LoginsAlone DEF Wires, Shapes
<1>3. CASE M!ShutdownReturns(t)
  <2>1. /\ UNCHANGED <<mPlayers, mObj, mAgent>>
        /\ mPc[t] = "wait" /\ mPc' = [mPc EXCEPT ![t] = "ret"]
        /\ \E ok \in {"zero", "more"} : mRet' = [mRet EXCEPT ![t] = [ok |-> ok, agent |-> Nil]]
    BY <1>3 DEF M!ShutdownReturns, M!Reply, M!Answer
  <2>2. AgentsStay
    BY <1>1, <2>1, SameAgents
  <2>3. \A u \in Tasks : u # t => TaskStays(u)
    BY <1>1, <2>1 DEF TaskStays, LoginStays, M!TypeOK
  <2>4. Serves(t)'
    BY <1>1, <2>1 DEF Wires, TasksServe, Serves, M!TypeOK
  <2> QED
    BY <1>1, <2>2, <2>3, <2>4, LoginsAlone DEF Wires, Shapes
<1>4. CASE M!ShutdownSleeps(t)
  <2>1. UNCHANGED mgrVars
    BY <1>4 DEF M!ShutdownSleeps, M!vars, mgrVars
  <2> QED
    BY <1>1, <2>1, SocketWires
<1> QED
  BY <1>2, <1>3, <1>4 DEF Stop, StopWaits

(* An agent that is kicked is still used.                                  *)
LEMMA AgentKickedWires ==
    ASSUME Wires, M!TypeOK, NEW a \in Agents, AgentKicked(a)
    PROVE  Wires'
<1>1. /\ mAgent' = [mAgent EXCEPT ![a] = "kicked"]
      /\ UNCHANGED <<mPlayers, mObj, mPc, mRet, lg, caller, toMgr, toGate, owner, loop>>
  BY DEF AgentKicked, M!AgentKick, gateVars
<1>2. AgentsStay
  BY <1>1, SameAgents DEF M!TypeOK
<1>3. \A t \in Tasks : TaskStays(t)
  BY <1>1 DEF TaskStays, LoginStays
<1> QED
  BY <1>1, <1>2, <1>3, LoginsAlone DEF Wires, Shapes

(* An agent is gone when nothing on its way names it.                      *)
LEMMA AgentGoneMoves ==
    ASSUME NEW a \in Agents, AgentGone(a)
    PROVE  /\ mAgent[a] = "exiting" /\ mAgent' = [mAgent EXCEPT ![a] = "free"]
           /\ owner' = [owner EXCEPT ![a] = Nil]
           /\ \A t \in Tasks : mRet[t].agent # a
           /\ \A o \in Objs : gp[o].agent # a
           /\ \A m \in GateMsg : In(toGate, m) => m.a # a
           /\ UNCHANGED <<mPlayers, mObj, mPc, mRet, lg, caller, toMgr, toGate, gateVars>>
BY DEF AgentGone, M!AgentExit, In

(* So it stays with the logins that have one.                              *)
LEMMA AgentGoneWires ==
    ASSUME Wires, M!TypeOK, NEW a \in Agents, AgentGone(a)
    PROVE  Wires'
<1>1. /\ mAgent' = [mAgent EXCEPT ![a] = "free"] /\ owner' = [owner EXCEPT ![a] = Nil]
      /\ \A t \in Tasks : mRet[t].agent # a
      /\ \A m \in GateMsg : In(toGate, m) => m.a # a
      /\ UNCHANGED <<mPlayers, mObj, mPc, mRet, lg, caller, toMgr, toGate, loop>>
  BY AgentGoneMoves DEF gateVars
<1>2. \A b \in Agents : b # a /\ mAgent[b] # "free" => AgentStays(b)
  BY <1>1 DEF AgentStays, Wires, Shapes, M!TypeOK
<1>3. \A t \in Tasks : AgentStays(mRet[t].agent)
  <2>1. \A t \in Tasks : mRet[t].agent # Nil =>
           mRet[t].agent \in Agents /\ mAgent[mRet[t].agent] # "free"
    BY DEF Wires, TasksServe, Serves, AnswersLogin
  <2> QED
    BY <1>1, <1>2, <2>1 DEF AgentStays
<1>4. \A m \in GateMsg : In(toGate, m) => AgentStays(m.a)
  <2>1. \A m \in GateMsg : In(toGate, m) /\ m.a # Nil => m.a \in Agents /\ mAgent[m.a] # "free"
    BY DEF Wires, Sent, ForGate
  <2> QED
    BY <1>1, <1>2, <2>1 DEF AgentStays
<1>5. \A t \in Tasks : TaskStays(t)
  BY <1>1 DEF TaskStays, LoginStays
<1>6. owner' \in [Agents -> Players \cup {Nil}]
  BY <1>1 DEF Wires, Shapes
<1> QED
  BY <1>1, <1>3, <1>4, <1>5, <1>6, LoginsAlone DEF AgentsStay

(* What the gateway does with sure_agent: a session, or a reqkick that the *)
(* login waits for.                                                        *)
LEMMA SureTaken ==
    ASSUME Wires, GateTakesSure
    PROVE  \E m \in GateMsg :
             /\ toGate # <<>> /\ m = Head(toGate) /\ toGate' = Tail(toGate)
             /\ m.k = "sure_agent" /\ In(toGate, m)
             /\ m.l \in Logins /\ lg[m.l].st = "sure_agent" /\ lg[m.l].p = m.p
             /\ m.a \in Agents /\ owner[m.a] = m.p /\ mAgent[m.a] # "free"
             /\ m.p \in Players /\ lg[m.l].fd \in Fds /\ loop[lg[m.l].fd] # "none"
             /\ UNCHANGED <<mgrVars, caller, owner>>
             /\ \/ /\ G!SureAgent(lg[m.l].fd, m.p, m.a)
                   /\ lg' = [lg EXCEPT ![m.l] = NoLogin] /\ toMgr' = toMgr
                \/ /\ G!SureAgentRefused(lg[m.l].fd, m.p)
                   /\ lg' = lg /\ toMgr' = Append(toMgr, Msg("reqkick", m.p, m.l))
<1>1. PICK m \in GateMsg : m = Head(toGate) /\ In(toGate, m)
  BY Taken DEF GateTakesSure, Wires, Shapes
<1>2. /\ toGate # <<>> /\ toGate' = Tail(toGate) /\ m.k = "sure_agent"
      /\ UNCHANGED <<mgrVars, caller, owner>>
      /\ \/ /\ G!SureAgent(lg[m.l].fd, m.p, m.a)
            /\ lg' = [lg EXCEPT ![m.l] = NoLogin] /\ toMgr' = toMgr
         \/ /\ G!SureAgentRefused(lg[m.l].fd, m.p)
            /\ lg' = lg /\ toMgr' = Append(toMgr, Msg("reqkick", m.p, m.l))
  BY <1>1 DEF GateTakesSure, Refusal
<1>3. /\ m.l \in Logins /\ lg[m.l].st = "sure_agent" /\ lg[m.l].p = m.p
      /\ m.a \in Agents /\ owner[m.a] = m.p /\ mAgent[m.a] # "free"
  BY <1>1, <1>2 DEF Wires, Sent, ForGate
<1>4. m.p \in Players /\ lg[m.l].fd \in Fds /\ loop[lg[m.l].fd] # "none"
  BY <1>3 DEF Wires, Begun
<1> QED
  BY <1>1, <1>2, <1>3, <1>4

(* The login leaves the mailbox of the gateway.                            *)
LEMMA SureWires ==
    ASSUME Wires, G!TypeOK, GateTakesSure
    PROVE  Wires'
<1>1. PICK m \in GateMsg :
        /\ toGate # <<>> /\ m = Head(toGate) /\ toGate' = Tail(toGate)
        /\ m.l \in Logins /\ lg[m.l].st = "sure_agent" /\ m.a \in Agents
        /\ m.p \in Players /\ lg[m.l].fd \in Fds
        /\ UNCHANGED <<mgrVars, caller, owner>>
        /\ \/ /\ G!SureAgent(lg[m.l].fd, m.p, m.a)
              /\ lg' = [lg EXCEPT ![m.l] = NoLogin] /\ toMgr' = toMgr
           \/ /\ G!SureAgentRefused(lg[m.l].fd, m.p)
              /\ lg' = lg /\ toMgr' = Append(toMgr, Msg("reqkick", m.p, m.l))
  BY SureTaken
<1>2. loop' = loop
  BY <1>1 DEF G!SureAgent, G!SureAgentRefused
<1>3. PICK l \in Logins : l = m.l
  BY <1>1
<1>4. /\ lg \in [Logins -> LoginState] /\ caller \in [Tasks -> Logins \cup {Nil}]
      /\ toMgr \in Seq(MgrMsg) /\ toGate \in Seq(GateMsg)
  BY DEF Wires, Shapes
<1>5. /\ toGate' \in Seq(GateMsg) /\ Has(toGate, l)
      /\ \A x : In(toGate', x) => In(toGate, x)
      /\ \A k : Has(toGate', k) => Has(toGate, k)
      /\ \A k : Once(toGate, k) => Once(toGate', k) /\ ~(l = k /\ Has(toGate', k))
  BY <1>1, <1>3, <1>4, Taken
<1>6. ~Has(toGate', l) /\ ~Has(toMgr, l) /\ \A t \in Tasks : caller[t] # l
  BY <1>5 DEF Wires, OnePlace
<1>7. AgentsStay
  BY <1>1, SameAgents DEF mgrVars
<1>8. \A k : k # l /\ k \in Logins \cup {Nil} => LoginStays(k)
  BY <1>1, <1>3, <1>4 DEF LoginStays
<1>9. \A t \in Tasks : TaskStays(t)
  BY <1>1, <1>4, <1>6, <1>8 DEF mgrVars, TaskStays
<1>10. \A x \in MgrMsg : In(toMgr, x) => LoginStays(x.l)
  BY <1>4, <1>6, <1>8, Contents DEF MgrMsg
<1>11. \A x \in GateMsg : In(toGate', x) => In(toGate, x) /\ LoginStays(x.l)
  BY <1>5, <1>6, <1>8, Contents DEF GateMsg
<1>12. CASE lg' = [lg EXCEPT ![l] = NoLogin] /\ toMgr' = toMgr
  <2>1. NoLogin \in LoginState /\ NoLogin.st = "idle"
    BY DEF NoLogin, LoginState
  <2>2. \A k \in Logins : lg'[k] = IF k = l THEN NoLogin ELSE lg[k]
    BY <1>4, <1>12
  <2>3. Shapes'
    BY <1>1, <1>4, <1>5, <1>12, <2>1 DEF Wires, Shapes
  <2>4. Begun'
    BY <1>2, <2>1, <2>2 DEF Wires, Begun
  <2>5. OnePlace'
    BY <1>1, <1>5, <1>6, <1>12 DEF Wires, OnePlace
  <2> QED
    BY <1>7, <1>9, <1>10, <1>11, <1>12, <2>3, <2>4, <2>5, WiresKept DEF AgentsStay
<1>13. CASE lg' = lg /\ toMgr' = Append(toMgr, Msg("reqkick", m.p, l))
  <2>1. PICK x : x = Msg("reqkick", m.p, l)
    OBVIOUS
  <2>2. x \in MgrMsg /\ x.l = l /\ x.k = "reqkick"
    BY <1>1, <2>1 DEF Msg, MgrMsg
  <2>3. /\ toMgr' \in Seq(MgrMsg)
        /\ \A y : In(toMgr', y) <=> In(toMgr, y) \/ y = x
        /\ \A k : Has(toMgr', k) <=> Has(toMgr, k) \/ l = k
        /\ \A k : Once(toMgr, k) /\ ~(l = k /\ Has(toMgr, k)) => Once(toMgr', k)
    BY <1>4, <1>13, <2>1, <2>2, Appended
  <2>4. Shapes'
    BY <1>1, <1>4, <1>5, <1>13, <2>3 DEF Wires, Shapes
  <2>5. Begun'
    BY <1>2, <1>13 DEF Wires, Begun
  <2>6. OnePlace'
    BY <1>1, <1>5, <1>6, <2>3 DEF Wires, OnePlace
  <2>7. ForMgr(x)'
    BY <1>1, <1>3, <1>13, <2>2 DEF ForMgr
  <2> QED
    BY <1>7, <1>9, <1>10, <1>11, <2>3, <2>4, <2>5, <2>6, <2>7, WiresKept DEF AgentsStay
<1> QED
  BY <1>1, <1>3, <1>12, <1>13

(* What the gateway does with kick.                                        *)
LEMMA KickTaken ==
    ASSUME Wires, GateTakesKick
    PROVE  \E m \in GateMsg :
             /\ toGate # <<>> /\ m = Head(toGate) /\ toGate' = Tail(toGate)
             /\ m.k = "kick" /\ In(toGate, m) /\ m.a = Nil
             /\ m.p \in Players
             /\ UNCHANGED <<mgrVars, lg, caller, toMgr, owner>>
             /\ G!Kick(m.p) \/ G!KickNobody(m.p)
<1>1. PICK m \in GateMsg : m = Head(toGate) /\ In(toGate, m)
  BY Taken DEF GateTakesKick, Wires, Shapes
<1>2. m.k = "kick" /\ m.p \in Players
  BY <1>1 DEF GateTakesKick, GateMsg
<1>3. m.a = Nil
  BY <1>1, <1>2 DEF Wires, Sent, ForGate
<1> QED
  BY <1>1, <1>2, <1>3 DEF GateTakesKick

(* No login waits for it.                                                  *)
LEMMA KickTakenWires ==
    ASSUME Wires, G!TypeOK, GateTakesKick
    PROVE  Wires'
<1>1. PICK m \in GateMsg :
        /\ toGate # <<>> /\ m = Head(toGate) /\ toGate' = Tail(toGate) /\ m.p \in Players
        /\ UNCHANGED <<mgrVars, lg, caller, toMgr, owner>>
        /\ G!Kick(m.p) \/ G!KickNobody(m.p)
  BY KickTaken
<1>2. loop' = loop
  BY <1>1, KickMoves
<1>3. toGate \in Seq(GateMsg)
  BY DEF Wires, Shapes
<1>4. /\ toGate' \in Seq(GateMsg)
      /\ \A x : In(toGate', x) => In(toGate, x)
      /\ \A k : Has(toGate', k) => Has(toGate, k)
      /\ \A k : Once(toGate, k) => Once(toGate', k)
  BY <1>1, <1>3, Taken
<1>5. Shapes' /\ Begun'
  BY <1>1, <1>2, <1>4 DEF Wires, Shapes, Begun
<1>6. OnePlace'
  BY <1>1, <1>4 DEF Wires, OnePlace
<1>7. AgentsStay
  BY <1>1, SameAgents DEF mgrVars
<1>8. \A l : LoginStays(l)
  BY <1>1 DEF LoginStays
<1>9. \A t \in Tasks : TaskStays(t)
  BY <1>1, MgrAlone
<1> QED
  BY <1>1, <1>4, <1>5, <1>6, <1>7, <1>8, <1>9, WiresKept DEF AgentsStay

(* Every step keeps Wires.                                                 *)
LEMMA WiresStep ==
    ASSUME Wires, M!TypeOK, M!EntriesMatch, M!LocalsCurrent, G!TypeOK, OwnedByPlayers,
           [Next]_vars
    PROVE  Wires'
<1>1. ASSUME NEW fd \in Fds, Socket(fd) PROVE Wires'
  <2>1. SessionsStay
    BY <1>1, SocketMoves DEF Socket
  <2> QED
    BY <1>1, <2>1, SocketWires DEF Socket, SessionsStay
<1>2. ASSUME NEW o \in Objs, Timer(o) PROVE Wires'
  <2>1. SessionsStay /\ gp[o].p \in Players
    BY <1>2, TimerMoves DEF Timer
  <2>2. UNCHANGED <<mgrVars, lg, caller, toGate, owner>>
    BY <1>2 DEF Timer
  <2>3. CASE toMgr' = toMgr
    BY <2>1, <2>2, <2>3, SocketWires DEF SessionsStay
  <2>4. CASE toMgr' = Append(toMgr, Msg("reqkick", gp[o].p, Nil))
    <3>1. Msg("reqkick", gp[o].p, Nil) \in MgrMsg
      BY <2>1 DEF Msg, MgrMsg
    <3>2. PICK x \in MgrMsg : x = Msg("reqkick", gp[o].p, Nil)
      BY <3>1
    <3>3. x.k = "reqkick" /\ x.l = Nil
      BY <3>2 DEF Msg
    <3> QED
      BY <2>1, <2>2, <2>4, <3>2, <3>3, AskedWires DEF SessionsStay
  <2> QED
    BY <1>2, <2>3, <2>4 DEF Timer
<1>3. CASE GateCloses \/ UNCHANGED vars
  BY <1>3, SocketWires DEF GateCloses, G!Shutdown, vars, gateVars
<1> QED
  BY <1>1, <1>2, <1>3, LoginLineWires, LoginRejectedWires, LoginPassedWires,
     MgrTakesWires, LaunchedWires, KickedWires, MgrAnswersWires, StopWires,
     AgentKickedWires, AgentGoneWires, SureWires, KickTakenWires
     DEF Next

-----------------------------------------------------------------------------
(* A session is made of its parts *)

(* Every step is one of agentmgr and one of the gateway, or leaves them.   *)
LEMMA PartsStep ==
    ASSUME Wires, G!TypeOK, OwnedByPlayers, [Next]_vars
    PROVE  [MP!Next]_(MP!vars) /\ [GP!Next]_(GP!vars)
<1>1. UNCHANGED mgrVars => UNCHANGED MP!vars
  BY DEF mgrVars, MP!vars
<1>2. UNCHANGED gateVars => UNCHANGED GP!vars
  BY DEF gateVars, GP!vars
<1>3. ASSUME NEW fd \in Fds, Socket(fd) PROVE GP!Next /\ UNCHANGED mgrVars
  BY <1>3, GateSocketStep DEF Socket
<1>4. ASSUME NEW fd \in Fds, NEW p \in Players, NEW l \in Logins, LoginLine(fd, p, l)
      PROVE  GP!Next /\ UNCHANGED mgrVars
  BY <1>4, GateSocketStep DEF LoginLine
<1>5. ASSUME NEW o \in Objs, Timer(o) PROVE GP!Next /\ UNCHANGED mgrVars
  BY <1>5, GateTimerStep DEF Timer
<1>6. ASSUME NEW l \in Logins, LoginRejected(l) \/ LoginPassed(l)
      PROVE  UNCHANGED <<mgrVars, gateVars>>
  BY <1>6 DEF LoginRejected, LoginPassed
<1>7. ASSUME NEW t \in Tasks, MgrTakes(t) PROVE MP!Next /\ UNCHANGED gateVars
  <2>1. Head(toMgr) \in MgrMsg
    <3>1. toMgr \in Seq(MgrMsg) /\ toMgr # <<>>
      BY <1>7 DEF MgrTakes, Wires, Shapes
    <3> QED
      BY <3>1, HeadTailProperties
  <2>2. Head(toMgr).p \in Players
    BY <2>1 DEF MgrMsg
  <2> QED
    BY <1>7, <2>2, MgrTakesStep DEF MgrTakes
<1>8. ASSUME NEW t \in Tasks,
             \/ Kicked(t) \/ MgrAnswers(t) \/ ForkedKicked(t)
             \/ \E a \in Agents : Launched(t, a)
      PROVE  MP!Next /\ UNCHANGED gateVars
  BY <1>8, MgrResumesStep DEF Kicked, MgrAnswers, ForkedKicked, Launched
<1>9. ASSUME NEW t \in Tasks, Stop(t) \/ StopWaits(t)
      PROVE  MP!Next /\ UNCHANGED gateVars
  BY <1>9, MgrStopsStep DEF Stop, StopWaits
<1>10. ASSUME NEW a \in Agents, AgentKicked(a) \/ AgentGone(a)
       PROVE  MP!Next /\ UNCHANGED gateVars
  BY <1>10, MgrAgentStep DEF AgentKicked, AgentGone
<1>11. CASE GateTakesSure
  BY <1>1, <1>11, SureTaken, GateSureStep
<1>12. CASE GateTakesKick
  BY <1>1, <1>12, KickTaken, GateKickStep
<1>13. CASE GateCloses
  BY <1>1, <1>13, GateStopStep DEF GateCloses
<1>14. CASE UNCHANGED vars
  BY <1>1, <1>2, <1>14 DEF vars
<1> QED
  BY <1>1, <1>2, <1>3, <1>4, <1>5, <1>6, <1>7, <1>8, <1>9, <1>10, <1>11, <1>12, <1>13, <1>14
     DEF Next

(* The inductive invariant of a session: those of its parts, and that      *)
(* every login waits for one thing, which belongs to it.                   *)
Base == MP!Inv /\ GP!Inv /\ Wires

(* What it says in the terms of the model.                                 *)
LEMMA BaseFacts ==
    ASSUME Base
    PROVE  /\ M!TypeOK /\ M!EntriesMatch /\ M!LocalsCurrent /\ M!OneAgentPerPlayer
           /\ G!TypeOK /\ OwnedByPlayers /\ Wires
BY MgrFacts, GateFacts DEF Base

(* It holds when nobody has connected.                                     *)
LEMMA BaseInit == Init => Base /\ MP!Init /\ GP!Init
<1> SUFFICES ASSUME Init PROVE Base /\ MP!Init /\ GP!Init
  OBVIOUS
<1>1. MP!Init
  BY DEF Init, M!Init, MP!Init, M!NoObj, MP!NoObj, M!NoRet, MP!NoRet
<1>2. GP!Init
  BY DEF Init, G!Init, GP!Init, G!NoGp, GP!NoGp
<1>3. MP!Inv
  BY <1>1, MgrAssumptions, MP!InvInit
<1>4. GP!Inv
  BY <1>2, GateAssumptions, GP!InvInit
<1>5. NoLogin \in LoginState /\ NoLogin.st = "idle"
  BY DEF NoLogin, LoginState
<1>6. /\ \A l \in Logins : lg[l].st = "idle"
      /\ \A t \in Tasks : caller[t] = Nil /\ mPc[t] = "idle" /\ mRet[t].agent = Nil
      /\ toMgr = <<>> /\ toGate = <<>>
  BY <1>5 DEF Init, M!Init, M!NoRet
<1>7. Shapes
  BY <1>5, NothingIn DEF Init, Shapes
<1>8. Begun /\ TasksServe
  BY <1>6 DEF Begun, TasksServe, Serves
<1>9. OnePlace /\ Sent
  BY <1>6, NilApart, NothingIn DEF OnePlace, Sent
<1> QED
  BY <1>1, <1>2, <1>3, <1>4, <1>7, <1>8, <1>9 DEF Base, Wires

(* Every step keeps it.                                                    *)
LEMMA BaseStep ==
    Base /\ [Next]_vars => Base' /\ [MP!Next]_(MP!vars) /\ [GP!Next]_(GP!vars)
<1> SUFFICES ASSUME Base, [Next]_vars
             PROVE  Base' /\ [MP!Next]_(MP!vars) /\ [GP!Next]_(GP!vars)
  OBVIOUS
<1>1. [MP!Next]_(MP!vars) /\ [GP!Next]_(GP!vars)
  BY BaseFacts, PartsStep
<1>2. MP!Inv'
  BY <1>1, MgrAssumptions, MP!InvStep DEF Base
<1>3. GP!Inv'
  BY <1>1, GateAssumptions, GP!InvStep DEF Base
<1>4. Wires'
  BY BaseFacts, WiresStep
<1> QED
  BY <1>1, <1>2, <1>3, <1>4 DEF Base

(* A session behaves as agentmgr and as a gateway: what is proved of each  *)
(* alone holds in it.                                                      *)
THEOREM Parts == Spec => []Base /\ MP!Spec /\ GP!Spec
BY BaseInit, BaseStep, PTL DEF Spec, MP!Spec, GP!Spec

(* The entries of agentmgr keep their order in a session, too.             *)
THEOREM EntriesInOrder == Spec => MP!StatusOrder
BY Parts, MgrAssumptions, MP!StatusOrdered, PTL

(* So does what agentmgr promises about a player: whatever logins, timers  *)
(* and kicks come through the mailboxes, a session keeps PlayerLifecycle.  *)
THEOREM LifecycleKept == Spec => MP!LifecycleSpec
BY Parts, MgrAssumptions, MP!Refinement, PTL

(* A shutdown that comes while sessions live has a batch that suffices.    *)
THEOREM BatchesSuffice == Spec => MP!BatchSuffices
BY Parts, MgrAssumptions, MP!BatchesSuffice, PTL

(* A gateplayer that is left without a socket and without a timer has its  *)
(* player asked for in that step, whatever agentmgr and logins do.         *)
THEOREM NobodyIsForgotten == Spec => GP!NobodyForgotten
BY Parts, GateAssumptions, GP!NobodyIsForgotten, PTL

(* In a session, too, an entry keeps the coroutine that takes it further,  *)
(* unless a failure of its own takes it away.                              *)
THEOREM NobodyIsStranded == Spec => MP!NobodyStranded
BY Parts, MgrAssumptions, MP!NobodyIsStranded, PTL

(* A session is left on a socket nobody reads only in the ways the gateway *)
(* alone leaves it there; with packable messages no flush raises.          *)
THEOREM GoneSocketsNoticed == Spec => GoneSocketNoticed
<1>1. Spec => GP!GoneSocketNoticed
  BY Parts, GateAssumptions, GP!GoneSocketsNoticed, PTL
<1> QED
  BY <1>1 DEF GoneSocketNoticed, G!GoneSocketNoticed, GP!GoneSocketNoticed,
     G!Serves, GP!Serves, G!Live, GP!Live, G!Deaf, GP!Deaf, G!Jammed, GP!Jammed,
     G!Jams, GP!Jams, G!vars, GP!vars

(* Tables, mailboxes and login coroutines keep their types.                *)
THEOREM TypeCorrect == Spec => []TypeOK
<1>1. Base => TypeOK
  <2> SUFFICES ASSUME Base PROVE TypeOK
    OBVIOUS
  <2>1. \A i \in DOMAIN toMgr : toMgr[i] \in MgrMsg
    BY ElementOfSeq, LenProperties DEF Base, Wires, Shapes
  <2>2. \A i \in DOMAIN toGate : toGate[i] \in GateMsg
    BY ElementOfSeq, LenProperties DEF Base, Wires, Shapes
  <2> QED
    BY <2>1, <2>2, BaseFacts DEF TypeOK, Wires, Shapes, LoginState, MgrMsg, GateMsg
<1> QED
  BY <1>1, Parts, PTL

=============================================================================
