------------------------- MODULE SessionInvariants --------------------------
(***************************************************************************)
(* Theorems about the sessions of players in Session: whose agent a        *)
(* session has, and that sessions, agents and timers end together.         *)
(*                                                                         *)
(* SessionProofs shows that every step is a step of agentmgr and of the    *)
(* gateway, and that logins find their way.  Here the two tables, the one  *)
(* of agentmgr and the one of the gateway, are related.                    *)
(***************************************************************************)
EXTENDS SessionProofs

-----------------------------------------------------------------------------
(* What steps do to the two tables *)

(* What is on its way for a player: a request that ends the entry, a kick  *)
(* to the gateway, or the agent of the entry, with an answer or a message. *)
Asking(p) == \E m \in MgrMsg : In(toMgr, m) /\ m.k = "reqkick" /\ m.p = p
KickGoes(p) == \E m \in GateMsg : In(toGate, m) /\ m.k = "kick" /\ m.p = p
Coming(p) ==
    \/ \E t \in Tasks : mRet[t].agent = M!ServedBy(p)
    \/ \E m \in GateMsg : In(toGate, m) /\ m.p = p /\ m.a = M!ServedBy(p)

(* A step that leaves agents and the way to the gateway alone.  A reqkick  *)
(* that is taken leaves its player not in GAME.                            *)
Calm == /\ EntriesStay /\ UNCHANGED <<toGate, owner, mAgent>>
        /\ \A t \in Tasks : mRet'[t].agent = mRet[t].agent
        /\ \A p \in Players : Asking(p) => Asking(p)' \/ M!Status(p)' # "GAME"

(* A player who has no socket has had a timer started; when it is over     *)
(* agentmgr has been asked to end the entry.                               *)
Timely == \A p \in Players : gPlayers[p] # Nil =>
    LET o == gPlayers[p] IN
    /\ gp'[o].conn = Nil => gp[o].conn = Nil \/ timers'[o] > 0
    /\ timers[o] > 0 => timers'[o] > 0 \/ gp'[o].conn # Nil \/ Asking(p)'

(* What is sent to agentmgr leaves what was there.                         *)
LEMMA AskedMore ==
    ASSUME Wires, NEW x \in MgrMsg, toMgr' = Append(toMgr, x)
    PROVE  /\ \A p \in Players : Asking(p) => Asking(p)'
           /\ x.k = "reqkick" => Asking(x.p)'
<1>1. toMgr \in Seq(MgrMsg)
  BY DEF Wires, Shapes
<1>2. \A m : In(toMgr', m) <=> In(toMgr, m) \/ m = x
  BY <1>1, Appended
<1> QED
  BY <1>2 DEF Asking

(* Nothing changes for who asked when the mailbox does not.                *)
LEMMA AskedSame ==
    ASSUME toMgr' = toMgr
    PROVE  \A p \in Players : Asking(p)' <=> Asking(p)
BY DEF Asking

(* Entries stay when agentmgr does.                                        *)
LEMMA EntriesAlone ==
    ASSUME UNCHANGED <<mPlayers, mObj>>
    PROVE  EntriesStay /\ \A p \in Players : M!Status(p)' = M!Status(p)
BY DEF EntriesStay, M!ServedBy, M!Status

(* A step of the gateway that keeps the sessions and sends nothing to it.  *)
LEMMA GateCalm ==
    ASSUME UNCHANGED <<mgrVars, toGate, owner>>,
           \A p \in Players : Asking(p) => Asking(p)'
    PROVE  Calm
<1>1. EntriesStay
  BY EntriesAlone DEF mgrVars
<1> QED
  BY <1>1 DEF Calm, mgrVars

(* A step of agentmgr leaves sessions and timers alone.                    *)
LEMMA GateAlone ==
    ASSUME UNCHANGED gateVars
    PROVE  SessionsStay /\ Timely
BY DEF gateVars, SessionsStay, Timely

(* Sockets, timers, and the shutdown of the gateway.                       *)
LEMMA GateCalmSteps ==
    ASSUME Wires, G!TypeOK, OwnedByPlayers,
           \/ \E fd \in Fds : Socket(fd) \/ \E p \in Players, l \in Logins : LoginLine(fd, p, l)
           \/ \E o \in Objs : Timer(o)
           \/ GateCloses \/ UNCHANGED vars
    PROVE  Calm /\ SessionsStay /\ Timely
<1>1. ASSUME NEW fd \in Fds, Socket(fd) \/ \E p \in Players, l \in Logins : LoginLine(fd, p, l)
      PROVE  Calm /\ SessionsStay /\ Timely
  <2>1. SessionsStay /\ TimersStay
    BY <1>1, SocketMoves DEF Socket, LoginLine
  <2>2. UNCHANGED <<mgrVars, toMgr, toGate, owner>>
    BY <1>1 DEF Socket, LoginLine
  <2>3. Calm
    BY <2>2, AskedSame, GateCalm
  <2>4. Timely
    BY <2>1 DEF TimersStay, Timely, G!TypeOK
  <2> QED
    BY <2>1, <2>3, <2>4
<1>2. ASSUME NEW o \in Objs, Timer(o) PROVE Calm /\ SessionsStay /\ Timely
  <2>1. /\ SessionsStay
        /\ \A p \in Players : gPlayers[p] # Nil => gp'[gPlayers[p]] = gp[gPlayers[p]]
        /\ \A q \in Objs : q # o => timers'[q] = timers[q]
        /\ gp[o].p \in Players
        /\ asked' = IF gp[o].conn = Nil THEN {gp[o].p} ELSE {}
    BY <1>2, TimerMoves DEF Timer
  <2>2. /\ UNCHANGED <<mgrVars, toGate, owner>>
        /\ toMgr' = IF asked' = {} THEN toMgr ELSE Append(toMgr, Msg("reqkick", gp[o].p, Nil))
    BY <1>2 DEF Timer
  <2>3. Msg("reqkick", gp[o].p, Nil) \in MgrMsg
    BY <2>1 DEF Msg, MgrMsg
  <2>4. PICK x \in MgrMsg : x = Msg("reqkick", gp[o].p, Nil)
    BY <2>3
  <2>5. x.k = "reqkick" /\ x.p = gp[o].p
    BY <2>4 DEF Msg
  <2>6. \A p \in Players : Asking(p) => Asking(p)'
    BY <2>2, <2>4, AskedMore, AskedSame
  <2>7. gp[o].conn = Nil => Asking(x.p)'
    BY <2>1, <2>2, <2>4, <2>5, AskedMore
  <2>8. Calm
    BY <2>2, <2>6, GateCalm
  <2>9. \A p \in Players : gPlayers[p] # Nil => gPlayers[p] \in Objs
    BY DEF G!TypeOK
  <2>10. Timely
    BY <2>1, <2>5, <2>7, <2>9 DEF Timely, OwnedByPlayers
  <2> QED
    BY <2>1, <2>8, <2>10
<1>3. CASE GateCloses \/ UNCHANGED vars
  <2>1. UNCHANGED <<mgrVars, toMgr, toGate, owner, gPlayers, gp, timers, loop>>
    BY <1>3 DEF GateCloses, G!Shutdown, vars, gateVars
  <2>2. Calm
    BY <2>1, AskedSame, GateCalm
  <2>3. SessionsStay /\ Timely
    BY <2>1 DEF SessionsStay, Timely
  <2> QED
    BY <2>2, <2>3
<1> QED
  BY <1>1, <1>2, <1>3

(* A login that asks, or does not.                                         *)
LEMMA LoginCalmSteps ==
    ASSUME Wires, NEW l \in Logins, LoginRejected(l) \/ LoginPassed(l)
    PROVE  Calm /\ SessionsStay /\ Timely
<1>1. UNCHANGED <<mgrVars, gateVars, toGate, owner>>
  BY DEF LoginRejected, LoginPassed
<1>2. CASE LoginRejected(l)
  BY <1>1, <1>2, AskedSame, GateCalm, GateAlone DEF LoginRejected
<1>3. CASE LoginPassed(l)
  <2>1. lg[l].p \in Players /\ toMgr' = Append(toMgr, Msg("reqlogin", lg[l].p, l))
    BY <1>3 DEF LoginPassed, Wires, Begun
  <2>2. Msg("reqlogin", lg[l].p, l) \in MgrMsg
    BY <2>1 DEF Msg, MgrMsg
  <2> QED
    BY <1>1, <2>1, <2>2, AskedMore, GateCalm, GateAlone
<1> QED
  BY <1>2, <1>3

(* agentmgr takes a message.                                               *)
LEMMA MgrTakesCalm ==
    ASSUME Wires, M!TypeOK, M!EntriesMatch, NEW t \in Tasks, MgrTakes(t)
    PROVE  Calm /\ SessionsStay /\ Timely
<1>1. PICK m \in MgrMsg : m = Head(toMgr) /\ toMgr' = Tail(toMgr)
  BY Taken DEF MgrTakes, Wires, Shapes
<1>2. m.p \in Players
  BY DEF MgrMsg
<1>3. /\ UNCHANGED <<gateVars, toGate, owner>>
      /\ \/ /\ m.k = "reqlogin"
            /\ \/ M!ReqLogin(t, m.p, TheGate)
               \/ M!ReqLoginRefused(t, m.p)
               \/ M!ReqLoginReplace(t, m.p)
         \/ /\ m.k = "reqkick"
            /\ M!ReqKick(t, m.p) \/ M!ReqKickRefused(t, m.p)
  BY <1>1 DEF MgrTakes
<1>4. \A q \in Players : Asking(q) => Asking(q)' \/ (m.k = "reqkick" /\ m.p = q)
  <2>1. toMgr \in Seq(MgrMsg) /\ toMgr # <<>>
    BY DEF Wires, Shapes, MgrTakes
  <2>2. \A x : In(toMgr, x) => x = m \/ In(toMgr', x)
    BY <1>1, <2>1, Taken
  <2> QED
    BY <2>2 DEF Asking
<1>5. /\ EntriesStay /\ OthersStay(t) /\ mAgent' = mAgent /\ mPc[t] = "idle"
      /\ mRet'[t] = mRet[t] \/ mRet'[t].agent = Nil
  BY <1>2, <1>3, LoginMoves, KickTakenMoves
<1>6. m.k = "reqkick" => M!Status(m.p)' # "GAME"
  BY <1>2, <1>3, KickTakenMoves
<1>7. mRet[t].agent = Nil
  BY <1>5 DEF Wires, TasksServe, Serves
<1>8. \A u \in Tasks : mRet'[u].agent = mRet[u].agent
  BY <1>5, <1>7 DEF OthersStay
<1> QED
  BY <1>3, <1>4, <1>5, <1>6, <1>8, GateAlone DEF Calm

(* A shutdown begins, waits and ends.                                      *)
LEMMA StopCalm ==
    ASSUME Wires, M!TypeOK, NEW t \in Tasks, Stop(t) \/ StopWaits(t)
    PROVE  Calm /\ SessionsStay /\ Timely
<1>1. UNCHANGED <<gateVars, toMgr, toGate, owner>>
  BY DEF Stop, StopWaits
<1>2. CASE Stop(t)
  <2>1. EntriesStay /\ mAgent' = mAgent /\ mRet' = mRet
    BY <1>2, StopMoves DEF Stop
  <2> QED
    BY <1>1, <2>1, AskedSame, GateAlone DEF Calm
<1>3. CASE StopWaits(t)
  <2>1. UNCHANGED <<mPlayers, mObj, mAgent>>
    BY <1>3 DEF StopWaits, M!ShutdownReturns, M!ShutdownSleeps, M!vars
  <2>2. \A u \in Tasks : mRet'[u].agent = mRet[u].agent
    <3>1. CASE M!ShutdownSleeps(t)
      BY <3>1 DEF M!ShutdownSleeps, M!vars
    <3>2. CASE M!ShutdownReturns(t)
      <4>1. mRet[t].agent = Nil
        BY <3>2 DEF M!ShutdownReturns, Wires, TasksServe, Serves
      <4>2. /\ \A u \in Tasks : u # t => mRet'[u] = mRet[u]
            /\ mRet'[t].agent = Nil
        BY <3>2 DEF M!ShutdownReturns, M!Reply, M!Answer, M!TypeOK
      <4> QED
        BY <4>1, <4>2
    <3> QED
      BY <1>3, <3>1, <3>2 DEF StopWaits
  <2> QED
    BY <1>1, <2>1, <2>2, AskedSame, EntriesAlone, GateAlone DEF Calm
<1> QED
  BY <1>2, <1>3

(* The calm steps of a session, for all of the following.                  *)
CalmStep ==
    \/ \E fd \in Fds : Socket(fd) \/ \E p \in Players, l \in Logins : LoginLine(fd, p, l)
    \/ \E o \in Objs : Timer(o)
    \/ GateCloses \/ UNCHANGED vars
    \/ \E l \in Logins : LoginRejected(l) \/ LoginPassed(l)
    \/ \E t \in Tasks : MgrTakes(t) \/ Stop(t) \/ StopWaits(t)

(* They are.                                                               *)
LEMMA CalmSteps ==
    ASSUME Base, CalmStep
    PROVE  Calm /\ SessionsStay /\ Timely
BY BaseFacts, GateCalmSteps, LoginCalmSteps, MgrTakesCalm, StopCalm DEF CalmStep

(* The others.                                                             *)
LEMMA StepKinds ==
    ASSUME [Next]_vars
    PROVE  \/ CalmStep
           \/ \E t \in Tasks, a \in Agents : Launched(t, a)
           \/ \E t \in Tasks : Kicked(t) \/ ForkedKicked(t)
           \/ \E t \in Tasks : MgrAnswers(t)
           \/ \E a \in Agents : AgentKicked(a) \/ AgentGone(a)
           \/ GateTakesSure \/ GateTakesKick
BY DEF CalmStep, Next

(* What a launched agent changes.                                          *)
LEMMA LaunchedMoves ==
    ASSUME Base, NEW t \in Tasks, NEW a \in Agents, Launched(t, a)
    PROVE  /\ UNCHANGED <<gateVars, toMgr, toGate>> /\ WaitEnds
           /\ mAgent[a] = "free" /\ mAgent' = [mAgent EXCEPT ![a] = "up"]
           /\ mRet[t].agent = Nil /\ mRet'[t].agent = a
           /\ \A u \in Tasks : u # t => mRet'[u] = mRet[u]
           /\ \E p \in Players :
                 /\ owner' = [owner EXCEPT ![a] = p]
                 /\ M!ServedBy(p) = Nil /\ M!ServedBy(p)' = a
                 /\ \A q \in Players : q # p =>
                       M!ServedBy(q)' = M!ServedBy(q) /\ M!Status(q)' = M!Status(q)
<1>1. /\ mPc[t] = "launch" /\ mTgt[t] = t
      /\ \E p \in Players :
            /\ p = mObj[t].p /\ M!ServedBy(p) = Nil /\ M!ServedBy(p)' = a
            /\ \A q \in Players : q # p =>
                  M!ServedBy(q)' = M!ServedBy(q) /\ M!Status(q)' = M!Status(q)
      /\ OthersStay(t) /\ mPc'[t] = "ret" /\ mRet'[t] = [ok |-> "true", agent |-> a]
      /\ mAgent[a] = "free" /\ mAgent' = [mAgent EXCEPT ![a] = "up"]
  BY BaseFacts, LaunchMoves DEF Launched
<1>2. /\ UNCHANGED <<gateVars, toMgr, toGate>> /\ WaitEnds
      /\ owner' = [owner EXCEPT ![a] = mObj[t].p]
  BY <1>1 DEF Launched
<1>3. mRet[t].agent = Nil
  BY <1>1, BaseFacts DEF Wires, TasksServe, Serves
<1>4. mRet'[t].agent = a /\ \A u \in Tasks : u # t => mRet'[u] = mRet[u]
  BY <1>1 DEF OthersStay
<1>5. \E p \in Players :
         /\ owner' = [owner EXCEPT ![a] = p]
         /\ M!ServedBy(p) = Nil /\ M!ServedBy(p)' = a
         /\ \A q \in Players : q # p =>
               M!ServedBy(q)' = M!ServedBy(q) /\ M!Status(q)' = M!Status(q)
  BY <1>1, <1>2
<1> QED
  BY <1>1, <1>2, <1>3, <1>4, <1>5

(* What a kick that returns changes.                                       *)
LEMMA ClearedMoves ==
    ASSUME Base, NEW t \in Tasks, Kicked(t) \/ ForkedKicked(t)
    PROVE  /\ UNCHANGED <<gateVars, lg, caller, toMgr, owner>>
           /\ \A u \in Tasks : mRet'[u].agent = mRet[u].agent
           /\ \E p \in Players, a \in Agents :
                 /\ toGate' = Append(toGate, Msg("kick", p, Nil))
                 /\ mAgent[a] = "kicked" /\ mAgent' = [mAgent EXCEPT ![a] = "exiting"]
                 /\ M!ServedBy(p) = a
                 /\ M!ServedBy(p)' = Nil /\ M!Status(p)' = "none"
                 /\ \A q \in Players : q # p =>
                       M!ServedBy(q)' = M!ServedBy(q) /\ M!Status(q)' = M!Status(q)
<1>1. PICK o \in Tasks :
        /\ M!ClearEntry(o) /\ mObj[o].status = "LOGOUT" /\ mObj[o].agent # Nil
        /\ toGate' = KickSent(o) /\ UNCHANGED <<gateVars, lg, caller, toMgr, owner>>
        /\ \A u \in Tasks : \/ mPc'[u] = mPc[u] /\ mRet'[u] = mRet[u]
                            \/ /\ mPc[u] = "kick" /\ mPc'[u] = "ret"
                               /\ mRet'[u].agent = Nil
  BY BaseFacts, KickedMoves
<1>2. \E p \in Players, a \in Agents :
         /\ p = mObj[o].p /\ M!ServedBy(p) = a /\ mAgent[a] = "kicked"
         /\ M!ServedBy(p)' = Nil /\ M!Status(p)' = "none"
         /\ \A q \in Players : q # p =>
               M!ServedBy(q)' = M!ServedBy(q) /\ M!Status(q)' = M!Status(q)
         /\ mAgent' = [mAgent EXCEPT ![a] = "exiting"]
  BY <1>1, BaseFacts, ClearMoves
<1>3. \A u \in Tasks : mPc[u] = "kick" => mRet[u].agent = Nil
  BY BaseFacts DEF Wires, TasksServe, Serves
<1>4. \A u \in Tasks : mRet'[u].agent = mRet[u].agent
  BY <1>1, <1>3
<1> QED
  BY <1>1, <1>2, <1>4 DEF KickSent

(* What an agent that is kicked changes.                                   *)
LEMMA AgentKickedMoves ==
    ASSUME NEW a \in Agents, AgentKicked(a)
    PROVE  /\ UNCHANGED <<gateVars, toMgr, toGate, owner, mPlayers, mObj, mRet>> /\ WaitEnds
           /\ mAgent[a] = "up" /\ mAgent' = [mAgent EXCEPT ![a] = "kicked"]
BY DEF AgentKicked, M!AgentKick

-----------------------------------------------------------------------------
(* A session's agent was started for its player *)

(* A handle a gateplayer keeps is that of a service, ...                   *)
InUse == \A o \in Objs : gp[o].agent # Nil => mAgent[gp[o].agent] # "free"
(* ... which for a session is one of its player.                           *)
OwnAgent == \A p \in Players : gPlayers[p] # Nil =>
    gp[gPlayers[p]].agent \in Agents /\ owner[gp[gPlayers[p]].agent] = p
Owners == InUse /\ OwnAgent

(* Steps that keep the agents in use, and have new sessions with agents of *)
(* their players.                                                          *)
LEMMA OwnersKept ==
    ASSUME Owners, G!TypeOK, G!TypeOK',
           \A o \in Objs : AgentStays(gp[o].agent),
           \A o \in Objs : \/ gp'[o].agent \in {gp[o].agent, Nil}
                           \/ mAgent'[gp'[o].agent] # "free",
           \A p \in Players :
               \/ gPlayers'[p] = Nil
               \/ gPlayers'[p] = gPlayers[p] /\ gp'[gPlayers[p]].agent = gp[gPlayers[p]].agent
               \/ gp'[gPlayers'[p]].agent \in Agents /\ owner'[gp'[gPlayers'[p]].agent] = p
    PROVE  Owners'
<1>1. InUse'
  BY DEF Owners, InUse, AgentStays
<1>2. OwnAgent'
  <2> SUFFICES ASSUME NEW p \in Players, gPlayers'[p] # Nil
               PROVE  gp'[gPlayers'[p]].agent \in Agents /\ owner'[gp'[gPlayers'[p]].agent] = p
    BY DEF OwnAgent
  <2>1. CASE gPlayers'[p] = gPlayers[p] /\ gp'[gPlayers[p]].agent = gp[gPlayers[p]].agent
    <3>1. gPlayers[p] \in Objs /\ gp[gPlayers[p]].agent \in Agents /\ owner[gp[gPlayers[p]].agent] = p
      BY <2>1 DEF Owners, OwnAgent, G!TypeOK
    <3>2. owner'[gp[gPlayers[p]].agent] = owner[gp[gPlayers[p]].agent]
      BY <3>1, NilApart DEF AgentStays
    <3> QED
      BY <2>1, <3>1, <3>2
  <2> QED
    BY <2>1
<1> QED
  BY <1>1, <1>2 DEF Owners

(* Agents in use that keep owner and service stay with the gateplayers.    *)
LEMMA UsedKept ==
    ASSUME Owners, owner' = owner,
           \A o \in Objs : gp[o].agent # Nil => mAgent'[gp[o].agent] # "free"
    PROVE  \A o \in Objs : AgentStays(gp[o].agent)
BY DEF AgentStays

(* The gateway's tables have their types before and after each step.       *)
LEMMA GateTyped == Base => G!TypeOK
BY BaseFacts

(* Every step keeps the sessions with their agents.                        *)
LEMMA OwnersStep ==
    ASSUME Base, Base', Owners, [Next]_vars
    PROVE  Owners'
<1> USE BaseFacts
<1>0. G!TypeOK' /\ \A o \in Objs : gp[o].agent \in Agents \cup {Nil}
  <2>1. Base' => G!TypeOK'
    BY GateTyped, PTL
  <2> QED
    BY <2>1 DEF G!TypeOK, G!Gateplayer
<1>1. CASE CalmStep
  <2>1. Calm /\ SessionsStay
    BY <1>1, CalmSteps
  <2>2. \A o \in Objs : AgentStays(gp[o].agent)
    BY <2>1, UsedKept DEF Calm, Owners, InUse
  <2> QED
    BY <1>0, <2>1, <2>2, OwnersKept DEF SessionsStay
<1>2. ASSUME NEW t \in Tasks, NEW a \in Agents, Launched(t, a) PROVE Owners'
  <2>1. PICK p \in Players : owner' = [owner EXCEPT ![a] = p]
    BY <1>2, LaunchedMoves
  <2>2. /\ UNCHANGED <<gPlayers, gp>> /\ mAgent[a] = "free"
        /\ mAgent' = [mAgent EXCEPT ![a] = "up"]
    BY <1>2, LaunchedMoves DEF gateVars
  <2>3. \A o \in Objs : gp[o].agent # a
    BY <2>2, NilApart DEF Owners, InUse
  <2>4. \A o \in Objs : AgentStays(gp[o].agent)
    BY <1>0, <2>1, <2>2, <2>3 DEF AgentStays, Owners, InUse, Wires, Shapes, M!TypeOK
  <2> QED
    BY <1>0, <2>2, <2>4, OwnersKept
<1>3. ASSUME NEW t \in Tasks, Kicked(t) \/ ForkedKicked(t) PROVE Owners'
  <2>1. PICK a \in Agents : mAgent' = [mAgent EXCEPT ![a] = "exiting"]
    BY <1>3, ClearedMoves
  <2>2. UNCHANGED <<gPlayers, gp, owner>>
    BY <1>3, ClearedMoves DEF gateVars
  <2>3. \A o \in Objs : AgentStays(gp[o].agent)
    BY <1>0, <2>1, <2>2, UsedKept DEF Owners, InUse, M!TypeOK
  <2> QED
    BY <1>0, <2>2, <2>3, OwnersKept
<1>4. ASSUME NEW t \in Tasks, MgrAnswers(t) PROVE Owners'
  <2>1. UNCHANGED <<gPlayers, gp, owner, mAgent>>
    BY <1>4, AnswerMoves DEF gateVars
  <2>2. \A o \in Objs : AgentStays(gp[o].agent)
    BY <2>1, UsedKept DEF Owners, InUse
  <2> QED
    BY <1>0, <2>1, <2>2, OwnersKept
<1>5. ASSUME NEW a \in Agents, AgentKicked(a) PROVE Owners'
  <2>1. UNCHANGED <<gPlayers, gp, owner>> /\ mAgent' = [mAgent EXCEPT ![a] = "kicked"]
    BY <1>5, AgentKickedMoves DEF gateVars
  <2>2. \A o \in Objs : AgentStays(gp[o].agent)
    BY <1>0, <2>1, UsedKept DEF Owners, InUse, M!TypeOK
  <2> QED
    BY <1>0, <2>1, <2>2, OwnersKept
<1>6. ASSUME NEW a \in Agents, AgentGone(a) PROVE Owners'
  <2>1. /\ UNCHANGED <<gPlayers, gp>> /\ owner' = [owner EXCEPT ![a] = Nil]
        /\ mAgent' = [mAgent EXCEPT ![a] = "free"] /\ \A o \in Objs : gp[o].agent # a
    BY <1>6, AgentGoneMoves DEF gateVars
  <2>2. \A o \in Objs : AgentStays(gp[o].agent)
    BY <1>0, <2>1 DEF AgentStays, Owners, InUse, Wires, Shapes, M!TypeOK
  <2> QED
    BY <1>0, <2>1, <2>2, OwnersKept
<1>7. CASE GateTakesSure
  <2>1. PICK m \in GateMsg :
          /\ m.a \in Agents /\ owner[m.a] = m.p /\ mAgent[m.a] # "free"
          /\ m.p \in Players /\ lg[m.l].fd \in Fds
          /\ UNCHANGED <<mgrVars, caller, owner>>
          /\ G!SureAgent(lg[m.l].fd, m.p, m.a) \/ G!SureAgentRefused(lg[m.l].fd, m.p)
    BY <1>7, SureTaken
  <2>2. \A o \in Objs : AgentStays(gp[o].agent)
    BY <2>1, UsedKept DEF Owners, InUse, mgrVars
  <2>3. CASE G!SureAgentRefused(lg[m.l].fd, m.p)
    <3>1. UNCHANGED <<gPlayers, gp>>
      BY <2>3 DEF G!SureAgentRefused
    <3> QED
      BY <1>0, <2>2, <3>1, OwnersKept
  <2>4. CASE G!SureAgent(lg[m.l].fd, m.p, m.a)
    <3>1. /\ gPlayers'[m.p] \in Objs
          /\ gp'[gPlayers'[m.p]] = [p |-> m.p, agent |-> m.a, conn |-> lg[m.l].fd, cache |-> <<>>]
          /\ \A q \in Players : q # m.p =>
                /\ gPlayers'[q] = gPlayers[q]
                /\ gPlayers[q] # Nil => gp'[gPlayers[q]] = gp[gPlayers[q]]
          /\ \A o \in Objs : gp'[o].agent \in {gp[o].agent, m.a, Nil}
      BY <2>1, <2>4, SureMoves
    <3>2. gp'[gPlayers'[m.p]].agent = m.a
      BY <3>1
    <3>3. \A q \in Players :
               \/ gPlayers'[q] = Nil
               \/ gPlayers'[q] = gPlayers[q] /\ gp'[gPlayers[q]].agent = gp[gPlayers[q]].agent
               \/ gp'[gPlayers'[q]].agent \in Agents /\ owner'[gp'[gPlayers'[q]].agent] = q
      BY <2>1, <3>1, <3>2
    <3>4. \A o \in Objs : \/ gp'[o].agent \in {gp[o].agent, Nil}
                          \/ mAgent'[gp'[o].agent] # "free"
      BY <2>1, <3>1 DEF mgrVars
    <3> QED
      BY <1>0, <2>2, <3>3, <3>4, OwnersKept
  <2> QED
    BY <2>1, <2>3, <2>4
<1>8. CASE GateTakesKick
  <2>1. PICK m \in GateMsg : /\ m.p \in Players
                             /\ UNCHANGED <<mgrVars, lg, caller, toMgr, owner>>
                             /\ G!Kick(m.p) \/ G!KickNobody(m.p)
    BY <1>8, KickTaken
  <2>2. \A o \in Objs : AgentStays(gp[o].agent)
    BY <2>1, UsedKept DEF Owners, InUse, mgrVars
  <2>3. /\ gPlayers'[m.p] = Nil
        /\ \A q \in Players : q # m.p =>
              /\ gPlayers'[q] = gPlayers[q]
              /\ gPlayers[q] # Nil => gp'[gPlayers[q]] = gp[gPlayers[q]]
        /\ \A o \in Objs : gp'[o].agent \in {gp[o].agent, Nil}
    BY <2>1, KickMoves
  <2> QED
    BY <1>0, <2>2, <2>3, OwnersKept
<1> QED
  BY StepKinds, <1>1, <1>2, <1>3, <1>4, <1>5, <1>6, <1>7, <1>8

-----------------------------------------------------------------------------
(* Players who have no socket *)

(* An entry with an agent is in GAME or on its way out.                    *)
LEMMA EntryServed ==
    ASSUME Base, NEW p \in Players, M!ServedBy(p) # Nil
    PROVE  M!Status(p) \in {"GAME", "LOGOUT"}
<1>1. M!TypeOK /\ M!EntriesMatch /\ M!OneAgentPerPlayer
  BY BaseFacts
<1> QED
  BY <1>1 DEF M!ServedBy, M!Status, M!TypeOK, M!Entry, M!EntriesMatch, M!OneAgentPerPlayer

(* A player whose session has lost its socket while the agent serves has a *)
(* timer that runs, or a request or kick on its way.                       *)
Timed(p) ==
    (/\ gPlayers[p] # Nil /\ gp[gPlayers[p]].conn = Nil
     /\ M!ServedBy(p) = gp[gPlayers[p]].agent)
    => timers[gPlayers[p]] > 0 \/ Asking(p) \/ M!Status(p) = "LOGOUT"
AllTimed == \A p \in Players : Timed(p)

(* In a calm step what is on its way for the player stays so: an entry     *)
(* whose reqkick is taken has its agent, so it is in LOGOUT then.          *)
LEMMA TimedCalm ==
    ASSUME Base, Owners, AllTimed, Calm, SessionsStay, Timely
    PROVE  AllTimed'
<1> SUFFICES ASSUME NEW p \in Players,
                    gPlayers'[p] # Nil, gp'[gPlayers'[p]].conn = Nil,
                    M!ServedBy(p)' = gp'[gPlayers'[p]].agent
             PROVE  timers'[gPlayers'[p]] > 0 \/ Asking(p)' \/ M!Status(p)' = "LOGOUT"
  BY DEF AllTimed, Timed
<1>1. /\ gPlayers'[p] = gPlayers[p] /\ gPlayers[p] # Nil
      /\ gp'[gPlayers[p]].agent = gp[gPlayers[p]].agent
  BY DEF SessionsStay
<1>2. M!ServedBy(p) = gp[gPlayers[p]].agent
  BY <1>1 DEF Calm, EntriesStay
<1>3. M!ServedBy(p) # Nil
  BY <1>1, <1>2, NilApart DEF Owners, OwnAgent
<1>4. M!Status(p) \in {"GAME", "LOGOUT"}
  BY <1>3, EntryServed
<1>5. /\ M!Status(p)' \in {"GAME", "LOGOUT"}
      /\ M!Status(p) = "LOGOUT" => M!Status(p)' = "LOGOUT"
  BY <1>4 DEF Calm, EntriesStay
<1>6. Asking(p) => Asking(p)' \/ M!Status(p)' = "LOGOUT"
  BY <1>5 DEF Calm
<1>7. gp[gPlayers[p]].conn = Nil \/ timers'[gPlayers[p]] > 0
  BY <1>1 DEF Timely
<1>8. gp[gPlayers[p]].conn = Nil =>
        timers[gPlayers[p]] > 0 \/ Asking(p) \/ M!Status(p) = "LOGOUT"
  BY <1>1, <1>2 DEF AllTimed, Timed
<1>9. timers[gPlayers[p]] > 0 => timers'[gPlayers[p]] > 0 \/ Asking(p)'
  BY <1>1 DEF Timely
<1> QED
  BY <1>1, <1>5, <1>6, <1>7, <1>8, <1>9

(* A player whose session and entry are left alone.                        *)
LEMMA TimedAlone ==
    ASSUME NEW p \in Players, Timed(p),
           gPlayers'[p] = gPlayers[p],
           gPlayers[p] # Nil => gp'[gPlayers[p]] = gp[gPlayers[p]],
           timers' = timers,
           M!ServedBy(p)' = M!ServedBy(p), M!Status(p)' = M!Status(p),
           Asking(p) => Asking(p)'
    PROVE  Timed(p)'
BY DEF Timed

(* Every step keeps the timers of players who have no socket.              *)
LEMMA TimedStep ==
    ASSUME Base, Owners, AllTimed, [Next]_vars
    PROVE  AllTimed'
<1>0. \A p \in Players : Timed(p)
  BY DEF AllTimed
<1>1. CASE CalmStep
  BY <1>1, CalmSteps, TimedCalm
<1>2. ASSUME NEW t \in Tasks, NEW a \in Agents, Launched(t, a) PROVE AllTimed'
  <2>1. UNCHANGED <<gPlayers, gp, timers, toMgr>> /\ mAgent[a] = "free"
    BY <1>2, LaunchedMoves DEF gateVars
  <2>2. PICK p \in Players :
          /\ M!ServedBy(p)' = a
          /\ \A q \in Players : q # p =>
                M!ServedBy(q)' = M!ServedBy(q) /\ M!Status(q)' = M!Status(q)
    BY <1>2, LaunchedMoves
  <2>3. \A o \in Objs : gp[o].agent # a
    BY <2>1, NilApart DEF Owners, InUse
  <2>4. Timed(p)'
    <3>1. gPlayers[p] # Nil => gPlayers[p] \in Objs
      BY BaseFacts DEF G!TypeOK
    <3> QED
      BY <2>1, <2>2, <2>3, <3>1 DEF Timed
  <2>5. \A q \in Players : q # p => Timed(q)'
    BY <1>0, <2>1, <2>2, AskedSame, TimedAlone
  <2> QED
    BY <2>4, <2>5 DEF AllTimed
<1>3. ASSUME NEW t \in Tasks, Kicked(t) \/ ForkedKicked(t) PROVE AllTimed'
  <2>1. UNCHANGED <<gPlayers, gp, timers, toMgr>>
    BY <1>3, ClearedMoves DEF gateVars
  <2>2. PICK p \in Players :
          /\ M!ServedBy(p)' = Nil
          /\ \A q \in Players : q # p =>
                M!ServedBy(q)' = M!ServedBy(q) /\ M!Status(q)' = M!Status(q)
    BY <1>3, ClearedMoves
  <2>3. Timed(p)'
    BY <2>1, <2>2, NilApart DEF Timed, Owners, OwnAgent
  <2>4. \A q \in Players : q # p => Timed(q)'
    BY <1>0, <2>1, <2>2, AskedSame, TimedAlone
  <2> QED
    BY <2>3, <2>4 DEF AllTimed
<1>4. ASSUME UNCHANGED <<mPlayers, mObj, gPlayers, gp, timers, toMgr>> PROVE AllTimed'
  BY <1>0, <1>4, AskedSame, EntriesAlone, TimedAlone DEF AllTimed, EntriesStay
<1>5. ASSUME NEW t \in Tasks, MgrAnswers(t) PROVE AllTimed'
  BY <1>4, <1>5, BaseFacts, AnswerMoves DEF gateVars
<1>6. ASSUME NEW a \in Agents, AgentKicked(a) \/ AgentGone(a) PROVE AllTimed'
  BY <1>4, <1>6, AgentKickedMoves, AgentGoneMoves DEF gateVars
<1>7. CASE GateTakesSure
  <2>1. PICK m \in GateMsg :
          /\ m.l \in Logins /\ m.p \in Players /\ m.a \in Agents /\ lg[m.l].fd \in Fds
          /\ UNCHANGED <<mgrVars, caller, owner>>
          /\ \/ G!SureAgent(lg[m.l].fd, m.p, m.a) /\ toMgr' = toMgr
             \/ /\ G!SureAgentRefused(lg[m.l].fd, m.p)
                /\ toMgr' = Append(toMgr, Msg("reqkick", m.p, m.l))
    BY <1>7, BaseFacts, SureTaken
  <2>2. \A q \in Players : M!ServedBy(q)' = M!ServedBy(q) /\ M!Status(q)' = M!Status(q)
    BY <2>1, EntriesAlone DEF mgrVars, EntriesStay
  <2>3. CASE G!SureAgent(lg[m.l].fd, m.p, m.a) /\ toMgr' = toMgr
    <3>1. /\ gp'[gPlayers'[m.p]] = [p |-> m.p, agent |-> m.a, conn |-> lg[m.l].fd, cache |-> <<>>]
          /\ \A q \in Players : q # m.p =>
                /\ gPlayers'[q] = gPlayers[q]
                /\ gPlayers[q] # Nil => gp'[gPlayers[q]] = gp[gPlayers[q]]
          /\ timers' = timers
      BY <2>1, <2>3, BaseFacts, SureMoves
    <3>2. gp'[gPlayers'[m.p]].conn # Nil
      BY <2>1, <3>1, NilApart
    <3>3. Timed(m.p)'
      BY <3>2 DEF Timed
    <3>4. \A q \in Players : q # m.p => Timed(q)'
      BY <1>0, <2>2, <2>3, <3>1, AskedSame, TimedAlone
    <3> QED
      BY <3>3, <3>4 DEF AllTimed
  <2>4. CASE /\ G!SureAgentRefused(lg[m.l].fd, m.p)
             /\ toMgr' = Append(toMgr, Msg("reqkick", m.p, m.l))
    <3>1. Msg("reqkick", m.p, m.l) \in MgrMsg
      BY <2>1 DEF Msg, MgrMsg
    <3>2. UNCHANGED <<gPlayers, gp, timers>>
      BY <2>4 DEF G!SureAgentRefused
    <3>3. \A q \in Players : Asking(q) => Asking(q)'
      BY <2>4, <3>1, BaseFacts, AskedMore
    <3> QED
      BY <1>0, <2>2, <3>2, <3>3, TimedAlone DEF AllTimed
  <2> QED
    BY <2>1, <2>3, <2>4
<1>8. CASE GateTakesKick
  <2>1. PICK m \in GateMsg : /\ m.p \in Players
                             /\ UNCHANGED <<mgrVars, lg, caller, toMgr, owner>>
                             /\ G!Kick(m.p) \/ G!KickNobody(m.p)
    BY <1>8, BaseFacts, KickTaken
  <2>2. \A q \in Players : M!ServedBy(q)' = M!ServedBy(q) /\ M!Status(q)' = M!Status(q)
    BY <2>1, EntriesAlone DEF mgrVars, EntriesStay
  <2>3. /\ gPlayers'[m.p] = Nil
        /\ \A q \in Players : q # m.p =>
              /\ gPlayers'[q] = gPlayers[q]
              /\ gPlayers[q] # Nil => gp'[gPlayers[q]] = gp[gPlayers[q]]
        /\ timers' = timers
    BY <2>1, BaseFacts, KickMoves
  <2>4. Timed(m.p)'
    BY <2>3 DEF Timed
  <2>5. \A q \in Players : q # m.p => Timed(q)'
    BY <1>0, <2>1, <2>2, <2>3, AskedSame, TimedAlone
  <2> QED
    BY <2>4, <2>5 DEF AllTimed
<1> QED
  BY StepKinds, <1>1, <1>2, <1>3, <1>5, <1>6, <1>7, <1>8

-----------------------------------------------------------------------------
(* The agents of entries *)

(* A player in GAME has an agent.                                          *)
GameServed == \A p \in Players : M!Status(p) = "GAME" => M!ServedBy(p) # Nil

(* Only a launch makes an entry one in GAME, with the agent.               *)
LEMMA GameServedKept ==
    ASSUME GameServed,
           EntriesStay \/ \E p \in Players :
               /\ M!ServedBy(p)' # Nil \/ M!Status(p)' = "none"
               /\ \A q \in Players : q # p =>
                     M!ServedBy(q)' = M!ServedBy(q) /\ M!Status(q)' = M!Status(q)
    PROVE  GameServed'
BY DEF GameServed, EntriesStay

(* Every step keeps the players in GAME with an agent.                     *)
LEMMA GameServedStep ==
    ASSUME Base, GameServed, [Next]_vars
    PROVE  GameServed'
<1>1. CASE CalmStep
  BY <1>1, CalmSteps, GameServedKept DEF Calm
<1>2. ASSUME UNCHANGED <<mPlayers, mObj>> PROVE GameServed'
  BY <1>2, EntriesAlone, GameServedKept
<1>3. ASSUME NEW t \in Tasks, NEW a \in Agents, Launched(t, a) PROVE GameServed'
  BY <1>3, LaunchedMoves, GameServedKept, NilApart
<1>4. ASSUME NEW t \in Tasks, Kicked(t) \/ ForkedKicked(t) PROVE GameServed'
  BY <1>4, ClearedMoves, GameServedKept
<1>5. ASSUME NEW t \in Tasks, MgrAnswers(t) PROVE GameServed'
  BY <1>2, <1>5, BaseFacts, AnswerMoves
<1>6. ASSUME NEW a \in Agents, AgentKicked(a) \/ AgentGone(a) PROVE GameServed'
  BY <1>2, <1>6, AgentKickedMoves, AgentGoneMoves
<1>7. CASE GateTakesSure \/ GateTakesKick
  BY <1>2, <1>7 DEF GateTakesSure, GateTakesKick, mgrVars
<1> QED
  BY StepKinds, <1>1, <1>3, <1>4, <1>5, <1>6, <1>7

(* The agent of an entry was started for its player.                       *)
ServedOwned == \A p \in Players : M!ServedBy(p) # Nil =>
    /\ M!ServedBy(p) \in Agents
    /\ owner[M!ServedBy(p)] = p /\ mAgent[M!ServedBy(p)] # "free"

(* An agent that serves is not on its way out.                             *)
LEMMA ServedUp ==
    ASSUME Base, NEW p \in Players, M!ServedBy(p) # Nil
    PROVE  M!ServedBy(p) \in Agents /\ mAgent[M!ServedBy(p)] # "exiting"
<1>1. mPlayers[p] \in Tasks /\ M!ServedBy(p) = mObj[mPlayers[p]].agent
  BY BaseFacts DEF M!ServedBy, M!TypeOK
<1> QED
  BY <1>1, BaseFacts DEF M!OneAgentPerPlayer, M!TypeOK, M!Entry

(* Entries and their agents stay.                                          *)
LEMMA ServedKept ==
    ASSUME ServedOwned, \A p \in Players : M!ServedBy(p)' = M!ServedBy(p),
           \A p \in Players : AgentStays(M!ServedBy(p))
    PROVE  ServedOwned'
BY DEF ServedOwned, AgentStays

(* Every step keeps it.                                                    *)
LEMMA ServedOwnedStep ==
    ASSUME Base, ServedOwned, [Next]_vars
    PROVE  ServedOwned'
<1> USE BaseFacts
<1>1. CASE CalmStep
  <2>1. Calm
    BY <1>1, CalmSteps
  <2> QED
    BY <2>1, ServedKept DEF Calm, EntriesStay, AgentStays, ServedOwned
<1>2. ASSUME UNCHANGED <<mPlayers, mObj, mAgent, owner>> PROVE ServedOwned'
  BY <1>2, EntriesAlone, ServedKept DEF EntriesStay, AgentStays, ServedOwned
<1>3. ASSUME NEW t \in Tasks, NEW a \in Agents, Launched(t, a) PROVE ServedOwned'
  <2>1. PICK p \in Players :
          /\ owner' = [owner EXCEPT ![a] = p]
          /\ M!ServedBy(p)' = a
          /\ \A q \in Players : q # p => M!ServedBy(q)' = M!ServedBy(q)
    BY <1>3, LaunchedMoves
  <2>2. mAgent[a] = "free" /\ mAgent' = [mAgent EXCEPT ![a] = "up"]
    BY <1>3, LaunchedMoves
  <2>3. /\ owner'[a] = p /\ mAgent'[a] = "up"
        /\ \A b \in Agents : b # a => owner'[b] = owner[b] /\ mAgent'[b] = mAgent[b]
    BY <2>1, <2>2 DEF Wires, Shapes, M!TypeOK
  <2>4. \A q \in Players : M!ServedBy(q) # a
    BY <2>2, NilApart DEF ServedOwned
  <2> QED
    BY <2>1, <2>3, <2>4 DEF ServedOwned
<1>4. ASSUME NEW t \in Tasks, Kicked(t) \/ ForkedKicked(t) PROVE ServedOwned'
  <2>1. PICK p \in Players, a \in Agents :
          /\ mAgent' = [mAgent EXCEPT ![a] = "exiting"]
          /\ M!ServedBy(p)' = Nil
          /\ \A q \in Players : q # p => M!ServedBy(q)' = M!ServedBy(q)
    BY <1>4, ClearedMoves
  <2>2. owner' = owner
    BY <1>4, ClearedMoves
  <2>3. \A b \in Agents : mAgent[b] # "free" => mAgent'[b] # "free"
    BY <2>1 DEF M!TypeOK
  <2> QED
    BY <2>1, <2>2, <2>3 DEF ServedOwned
<1>5. ASSUME NEW t \in Tasks, MgrAnswers(t) PROVE ServedOwned'
  BY <1>2, <1>5, AnswerMoves
<1>6. ASSUME NEW a \in Agents, AgentKicked(a) PROVE ServedOwned'
  <2>1. /\ UNCHANGED <<mPlayers, mObj, owner>>
        /\ mAgent' = [mAgent EXCEPT ![a] = "kicked"]
    BY <1>6, AgentKickedMoves
  <2>2. \A b \in Agents : mAgent[b] # "free" => mAgent'[b] # "free"
    BY <2>1 DEF M!TypeOK
  <2> QED
    BY <2>1, <2>2, EntriesAlone, ServedKept DEF EntriesStay, AgentStays, ServedOwned
<1>7. ASSUME NEW a \in Agents, AgentGone(a) PROVE ServedOwned'
  <2>1. /\ UNCHANGED <<mPlayers, mObj>> /\ mAgent[a] = "exiting"
        /\ mAgent' = [mAgent EXCEPT ![a] = "free"] /\ owner' = [owner EXCEPT ![a] = Nil]
    BY <1>7, AgentGoneMoves
  <2>2. \A p \in Players : M!ServedBy(p) # a
    BY <2>1, ServedUp, NilApart
  <2>3. \A b \in Agents : b # a => owner'[b] = owner[b] /\ mAgent'[b] = mAgent[b]
    BY <2>1 DEF Wires, Shapes, M!TypeOK
  <2> QED
    BY <2>1, <2>2, <2>3, EntriesAlone, ServedKept DEF EntriesStay, AgentStays, ServedOwned
<1>8. CASE GateTakesSure \/ GateTakesKick
  BY <1>2, <1>8 DEF GateTakesSure, GateTakesKick, mgrVars
<1> QED
  BY StepKinds, <1>1, <1>3, <1>4, <1>5, <1>6, <1>7, <1>8

(* An agent serves one player.                                             *)
LEMMA ServedOnce ==
    ASSUME Base, NEW p \in Players, NEW q \in Players,
           M!ServedBy(p) # Nil, M!ServedBy(p) = M!ServedBy(q)
    PROVE  p = q
<1>1. M!TypeOK /\ M!EntriesMatch /\ M!OneAgentPerPlayer
  BY BaseFacts
<1>2. mPlayers[p] \in Tasks /\ mPlayers[q] \in Tasks
  BY <1>1 DEF M!ServedBy, M!TypeOK
<1>3. mPlayers[p] = mPlayers[q]
  BY <1>1, <1>2 DEF M!ServedBy, M!OneAgentPerPlayer
<1> QED
  BY <1>1, <1>2, <1>3, NilApart DEF M!EntriesMatch, M!ServedBy

-----------------------------------------------------------------------------
(* Kicks on their way to the gateway *)

(* A kick on its way is for an agent that has served: the session is not   *)
(* with the agent of a later entry, nor will a sure_agent before the kick  *)
(* make it so.                                                             *)
Serving(p, a) == a # Nil /\ M!ServedBy(p) = a
HasSession(p) == gPlayers[p] # Nil /\ gp[gPlayers[p]].agent = M!ServedBy(p)
KickIsOld(i) ==
    /\ ~HasSession(toGate[i].p)
    /\ \A j \in 1 .. i - 1 : toGate[j].p = toGate[i].p => ~Serving(toGate[i].p, toGate[j].a)
KicksOld == \A i \in DOMAIN toGate : toGate[i].k = "kick" => KickIsOld(i)

(* The mailbox stays, and nobody comes to be served by an agent in it.     *)
LEMMA KicksKept ==
    ASSUME KicksOld, toGate \in Seq(GateMsg), toGate' = toGate,
           \A p \in Players : HasSession(p)' => HasSession(p),
           \A m \in GateMsg : In(toGate, m) /\ Serving(m.p, m.a)' => Serving(m.p, m.a)
    PROVE  KicksOld'
<1>1. \A i \in DOMAIN toGate : toGate[i] \in GateMsg /\ In(toGate, toGate[i])
  BY ElementOfSeq, LenProperties DEF In
<1>2. Len(toGate) \in Nat /\ DOMAIN toGate = 1 .. Len(toGate)
  BY LenProperties
<1> SUFFICES ASSUME NEW i \in DOMAIN toGate, toGate[i].k = "kick"
             PROVE  KickIsOld(i)'
  BY DEF KicksOld
<1>3. KickIsOld(i) /\ toGate[i].p \in Players
  BY <1>1 DEF KicksOld, GateMsg
<1>4. PICK p \in Players : p = toGate[i].p
  BY <1>3
<1>5. ~HasSession(p)'
  BY <1>3, <1>4 DEF KickIsOld
<1>6. ASSUME NEW j \in 1 .. i - 1, toGate[j].p = p PROVE ~Serving(p, toGate[j].a)'
  <2>1. j \in DOMAIN toGate
    BY <1>2
  <2>2. PICK m \in GateMsg : m = toGate[j] /\ In(toGate, m)
    BY <1>1, <2>1
  <2>3. ~Serving(p, m.a)
    BY <1>3, <1>4, <1>6, <2>2 DEF KickIsOld
  <2>4. ~Serving(p, m.a)'
    BY <1>6, <2>2, <2>3
  <2> QED
    BY <2>2, <2>4 DEF Serving
<1> QED
  BY <1>4, <1>5, <1>6 DEF KickIsOld, HasSession, Serving

(* A message is sent: a kick for a player who is not served any more, or   *)
(* an agent.                                                               *)
LEMMA KicksSent ==
    ASSUME KicksOld, toGate \in Seq(GateMsg), NEW x \in GateMsg, toGate' = Append(toGate, x),
           \A p \in Players : HasSession(p)' => HasSession(p),
           \A p \in Players : M!ServedBy(p)' \in {M!ServedBy(p), Nil},
           x.k = "kick" => M!ServedBy(x.p)' = Nil /\ ~HasSession(x.p)'
    PROVE  KicksOld'
<1>1. /\ Len(toGate) \in Nat
      /\ DOMAIN toGate = 1 .. Len(toGate) /\ DOMAIN toGate' = 1 .. Len(toGate) + 1
      /\ \A i \in 1 .. Len(toGate) : toGate'[i] = toGate[i]
      /\ toGate'[Len(toGate) + 1] = x
  BY AppendProperties, LenProperties
<1>2. \A i \in DOMAIN toGate : toGate[i].p \in Players
  <2>1. \A i \in DOMAIN toGate : toGate[i] \in GateMsg
    BY ElementOfSeq, LenProperties
  <2> QED
    BY <2>1 DEF GateMsg
<1> SUFFICES ASSUME NEW i \in DOMAIN toGate', toGate'[i].k = "kick"
             PROVE  KickIsOld(i)'
  BY DEF KicksOld
<1>3. CASE i \in DOMAIN toGate
  <2>1. KickIsOld(i) /\ toGate'[i] = toGate[i]
    BY <1>1, <1>3 DEF KicksOld
  <2>2. PICK p \in Players : p = toGate[i].p
    BY <1>2, <1>3
  <2>3. ~HasSession(p)'
    BY <2>1, <2>2 DEF KickIsOld
  <2>4. ASSUME NEW j \in 1 .. i - 1, toGate[j].p = p PROVE ~Serving(p, toGate[j].a)
    BY <2>1, <2>2, <2>4 DEF KickIsOld
  <2>5. \A j \in 1 .. i - 1 : toGate'[j] = toGate[j]
    BY <1>1, <1>3
  <2> QED
    BY <2>1, <2>2, <2>3, <2>4, <2>5 DEF KickIsOld, HasSession, Serving
<1>4. CASE i = Len(toGate) + 1
  <2>1. PICK p \in Players : p = x.p
    BY DEF GateMsg
  <2>2. M!ServedBy(p)' = Nil /\ ~HasSession(p)'
    BY <1>1, <1>4, <2>1
  <2> QED
    BY <1>1, <1>4, <2>1, <2>2 DEF KickIsOld, HasSession, Serving
<1> QED
  BY <1>1, <1>3, <1>4

(* A message is taken: an agent that serves may come to be in a session.   *)
LEMMA KicksTaken ==
    ASSUME KicksOld, toGate \in Seq(GateMsg), toGate # <<>>, toGate' = Tail(toGate),
           \A p \in Players : M!ServedBy(p)' = M!ServedBy(p),
           \A p \in Players : HasSession(p)' =>
               HasSession(p) \/ (p = Head(toGate).p /\ Serving(p, Head(toGate).a))
    PROVE  KicksOld'
<1>1. /\ Len(toGate) \in Nat \ {0}
      /\ DOMAIN toGate = 1 .. Len(toGate) /\ DOMAIN toGate' = 1 .. Len(toGate) - 1
      /\ \A i \in 1 .. Len(toGate) - 1 : toGate'[i] = toGate[i + 1]
      /\ Head(toGate) = toGate[1]
  BY HeadTailProperties, LenProperties, EmptySeq
<1>2. \A i \in DOMAIN toGate : toGate[i].p \in Players
  <2>1. \A i \in DOMAIN toGate : toGate[i] \in GateMsg
    BY ElementOfSeq, LenProperties
  <2> QED
    BY <2>1 DEF GateMsg
<1> SUFFICES ASSUME NEW i \in DOMAIN toGate', toGate'[i].k = "kick"
             PROVE  KickIsOld(i)'
  BY DEF KicksOld
<1>3. i + 1 \in DOMAIN toGate /\ toGate'[i] = toGate[i + 1] /\ KickIsOld(i + 1)
  BY <1>1 DEF KicksOld
<1>4. PICK p \in Players : p = toGate[i + 1].p
  BY <1>2, <1>3
<1>5. 1 \in 1 .. (i + 1) - 1 /\ \A j \in 1 .. i - 1 : j + 1 \in 1 .. (i + 1) - 1
  BY <1>1
<1>6. ~HasSession(p)'
  BY <1>1, <1>3, <1>4, <1>5 DEF KickIsOld
<1>7. \A j \in 1 .. i - 1 : toGate'[j] = toGate[j + 1]
  BY <1>1
<1>8. ASSUME NEW j \in 1 .. i - 1, toGate[j + 1].p = p PROVE ~Serving(p, toGate[j + 1].a)
  BY <1>3, <1>4, <1>5, <1>8 DEF KickIsOld
<1> QED
  BY <1>3, <1>4, <1>6, <1>7, <1>8 DEF KickIsOld, HasSession, Serving

(* The sessions with the agents of entries are those there were.           *)
LEMMA SessionsKept ==
    ASSUME NEW p \in Players,
           gPlayers'[p] = gPlayers[p] /\ (gPlayers[p] # Nil => gp'[gPlayers[p]].agent = gp[gPlayers[p]].agent),
           M!ServedBy(p)' = M!ServedBy(p)
    PROVE  HasSession(p)' <=> HasSession(p)
BY DEF HasSession

(* Every step keeps the kicks for agents that have served.                 *)
LEMMA KicksOldStep ==
    ASSUME Base, Owners, KicksOld, [Next]_vars
    PROVE  KicksOld'
<1> USE BaseFacts
<1>0. toGate \in Seq(GateMsg)
  BY DEF Wires, Shapes
<1>1. ASSUME toGate' = toGate, SessionsStay, EntriesStay PROVE KicksOld'
  <2>1. \A p \in Players : HasSession(p)' <=> HasSession(p)
    BY <1>1, SessionsKept DEF SessionsStay, EntriesStay
  <2>2. \A m \in GateMsg : Serving(m.p, m.a)' => Serving(m.p, m.a)
    BY <1>1 DEF EntriesStay, Serving, GateMsg
  <2> QED
    BY <1>0, <1>1, <2>1, <2>2, KicksKept
<1>2. CASE CalmStep
  BY <1>1, <1>2, CalmSteps DEF Calm
<1>3. ASSUME NEW t \in Tasks, NEW a \in Agents, Launched(t, a) PROVE KicksOld'
  <2>1. PICK p \in Players :
          /\ M!ServedBy(p) = Nil /\ M!ServedBy(p)' = a
          /\ \A q \in Players : q # p => M!ServedBy(q)' = M!ServedBy(q)
    BY <1>3, LaunchedMoves
  <2>2. UNCHANGED <<gPlayers, gp, toGate>> /\ mAgent[a] = "free"
    BY <1>3, LaunchedMoves DEF gateVars
  <2>3. gPlayers[p] # Nil => gp[gPlayers[p]].agent # a
    <3>1. gPlayers[p] # Nil => gPlayers[p] \in Objs
      BY DEF G!TypeOK
    <3> QED
      BY <2>2, <3>1, NilApart DEF Owners, InUse, OwnAgent
  <2>4. \A q \in Players : HasSession(q)' => HasSession(q)
    BY <2>1, <2>2, <2>3 DEF HasSession
  <2>5. ASSUME NEW m \in GateMsg, In(toGate, m), Serving(m.p, m.a)'
        PROVE  Serving(m.p, m.a)
    <3>1. m.p \in Players /\ m.a # a
      BY <2>2, <2>5, NilApart DEF Wires, Sent, ForGate, GateMsg
    <3> QED
      BY <2>1, <2>5, <3>1 DEF Serving
  <2> QED
    BY <1>0, <2>2, <2>4, <2>5, KicksKept
<1>4. ASSUME NEW t \in Tasks, Kicked(t) \/ ForkedKicked(t) PROVE KicksOld'
  <2>1. PICK p \in Players :
          /\ toGate' = Append(toGate, Msg("kick", p, Nil))
          /\ M!ServedBy(p)' = Nil
          /\ \A q \in Players : q # p => M!ServedBy(q)' = M!ServedBy(q)
    BY <1>4, ClearedMoves
  <2>2. UNCHANGED <<gPlayers, gp>>
    BY <1>4, ClearedMoves DEF gateVars
  <2>3. PICK x \in GateMsg : x = Msg("kick", p, Nil)
    BY DEF Msg, GateMsg
  <2>4. ~HasSession(p)'
    BY <2>1, <2>2, NilApart DEF HasSession, Owners, OwnAgent
  <2>5. \A q \in Players : HasSession(q)' => HasSession(q)
    BY <2>1, <2>2, <2>4 DEF HasSession
  <2>6. x.p = p
    BY <2>3 DEF Msg
  <2> QED
    BY <1>0, <2>1, <2>3, <2>4, <2>5, <2>6, KicksSent
<1>5. ASSUME NEW t \in Tasks, MgrAnswers(t) PROVE KicksOld'
  <2>1. /\ UNCHANGED <<mPlayers, mObj, gPlayers, gp, loop>>
        /\ \/ toGate' = toGate
           \/ /\ AnswersLogin(t)
              /\ toGate' = Append(toGate, Sure(lg[caller[t]].p, caller[t], mRet[t].agent))
    BY <1>5, AnswerMoves DEF gateVars
  <2>2. EntriesStay /\ SessionsStay
    BY <2>1, EntriesAlone DEF SessionsStay
  <2>3. CASE toGate' = toGate
    BY <1>1, <2>2, <2>3
  <2>4. CASE /\ AnswersLogin(t)
             /\ toGate' = Append(toGate, Sure(lg[caller[t]].p, caller[t], mRet[t].agent))
    <3>1. /\ caller[t] \in Logins /\ lg[caller[t]].p \in Players /\ mRet[t].agent \in Agents
      BY <2>4 DEF AnswersLogin, Wires, Begun
    <3>2. PICK x \in GateMsg : x = Sure(lg[caller[t]].p, caller[t], mRet[t].agent)
      BY <3>1 DEF Sure, GateMsg
    <3>3. x.k # "kick"
      BY <3>2 DEF Sure
    <3>4. \A p \in Players : HasSession(p)' <=> HasSession(p)
      BY <2>2, SessionsKept DEF SessionsStay, EntriesStay
    <3> QED
      BY <1>0, <2>2, <2>4, <3>2, <3>3, <3>4, KicksSent DEF EntriesStay
  <2> QED
    BY <2>1, <2>3, <2>4
<1>6. ASSUME NEW a \in Agents, AgentKicked(a) \/ AgentGone(a) PROVE KicksOld'
  <2>1. UNCHANGED <<mPlayers, mObj, toGate, gateVars>>
    BY <1>6, AgentKickedMoves, AgentGoneMoves
  <2> QED
    BY <1>1, <2>1, EntriesAlone, GateAlone
<1>7. CASE GateTakesSure
  <2>1. PICK m \in GateMsg :
          /\ toGate # <<>> /\ m = Head(toGate) /\ toGate' = Tail(toGate)
          /\ m.a \in Agents /\ m.p \in Players /\ lg[m.l].fd \in Fds
          /\ UNCHANGED <<mgrVars, caller, owner>>
          /\ \/ G!SureAgent(lg[m.l].fd, m.p, m.a)
             \/ G!SureAgentRefused(lg[m.l].fd, m.p)
    BY <1>7, SureTaken
  <2>2. \A q \in Players : M!ServedBy(q)' = M!ServedBy(q)
    BY <2>1, EntriesAlone DEF mgrVars, EntriesStay
  <2>3. ASSUME NEW q \in Players, HasSession(q)'
        PROVE  HasSession(q) \/ (q = m.p /\ Serving(q, m.a))
    <3>1. CASE G!SureAgentRefused(lg[m.l].fd, m.p)
      BY <2>2, <2>3, <3>1 DEF G!SureAgentRefused, HasSession
    <3>2. CASE G!SureAgent(lg[m.l].fd, m.p, m.a)
      <4>1. /\ gp'[gPlayers'[m.p]] =
                  [p |-> m.p, agent |-> m.a, conn |-> lg[m.l].fd, cache |-> <<>>]
            /\ \A x \in Players : x # m.p =>
                  /\ gPlayers'[x] = gPlayers[x]
                  /\ gPlayers[x] # Nil => gp'[gPlayers[x]] = gp[gPlayers[x]]
        BY <2>1, <3>2, SureMoves
      <4> QED
        BY <2>1, <2>2, <2>3, <4>1, NilApart DEF HasSession, Serving
    <3> QED
      BY <2>1, <3>1, <3>2
  <2> QED
    BY <1>0, <2>1, <2>2, <2>3, KicksTaken
<1>8. CASE GateTakesKick
  <2>1. PICK m \in GateMsg :
          /\ toGate # <<>> /\ m = Head(toGate) /\ toGate' = Tail(toGate)
          /\ m.p \in Players
          /\ UNCHANGED <<mgrVars, lg, caller, toMgr, owner>>
          /\ G!Kick(m.p) \/ G!KickNobody(m.p)
    BY <1>8, KickTaken
  <2>2. \A q \in Players : M!ServedBy(q)' = M!ServedBy(q)
    BY <2>1, EntriesAlone DEF mgrVars, EntriesStay
  <2>3. /\ gPlayers'[m.p] = Nil
        /\ \A q \in Players : q # m.p =>
              /\ gPlayers'[q] = gPlayers[q]
              /\ gPlayers[q] # Nil => gp'[gPlayers[q]] = gp[gPlayers[q]]
    BY <2>1, KickMoves
  <2>4. \A q \in Players : HasSession(q)' => HasSession(q)
    BY <2>2, <2>3 DEF HasSession
  <2> QED
    BY <1>0, <2>1, <2>2, <2>4, KicksTaken
<1> QED
  BY StepKinds, <1>2, <1>3, <1>4, <1>5, <1>6, <1>7, <1>8

-----------------------------------------------------------------------------
(* Sessions and entries *)

(* The session is that of the entry, or is about to be kicked.             *)
Backed(p) == gPlayers[p] # Nil => M!ServedBy(p) = gp[gPlayers[p]].agent \/ KickGoes(p)

(* The agent of an entry in GAME is in a session, on its way to one, or    *)
(* asked to be kicked.                                                     *)
IsHeld(p) == M!Status(p) = "GAME" => HasSession(p) \/ Coming(p) \/ Asking(p)

(* A step keeps both, for a player, ...                                    *)
PairKept(p) == (Backed(p) => Backed(p)') /\ (IsHeld(p) => IsHeld(p)')
(* ... but for the step that takes a sure_agent which was overtaken.       *)
PairStays(p) == PairKept(p) \/ Overtaken(p)

(* Calm steps do.                                                          *)
LEMMA PairedCalm ==
    ASSUME Calm, SessionsStay, NEW p \in Players
    PROVE  PairKept(p)
<1>1. /\ M!ServedBy(p)' = M!ServedBy(p)
      /\ M!Status(p)' = "GAME" => M!Status(p) = "GAME" /\ (Asking(p) => Asking(p)')
  BY DEF Calm, EntriesStay
<1>2. /\ gPlayers'[p] = gPlayers[p]
      /\ gPlayers[p] # Nil => gp'[gPlayers'[p]].agent = gp[gPlayers[p]].agent
  BY DEF SessionsStay
<1>3. (KickGoes(p) => KickGoes(p)') /\ (Coming(p) => Coming(p)')
  BY <1>1 DEF Calm, KickGoes, Coming
<1>4. HasSession(p) => HasSession(p)'
  BY <1>1, <1>2 DEF HasSession
<1> QED
  BY <1>1, <1>2, <1>3, <1>4 DEF PairKept, Backed, IsHeld

(* So does a step for a player whose session and entry are left alone, and *)
(* whose messages are not taken.                                           *)
LEMMA PairedAlone ==
    ASSUME NEW p \in Players,
           gPlayers'[p] = gPlayers[p],
           gPlayers[p] # Nil => gp'[gPlayers[p]] = gp[gPlayers[p]],
           M!ServedBy(p)' = M!ServedBy(p), M!Status(p)' = M!Status(p),
           Asking(p) => Asking(p)',
           \A m \in GateMsg : In(toGate, m) /\ m.p = p => In(toGate', m),
           \/ \A t \in Tasks : mRet'[t].agent = mRet[t].agent
           \/ M!Status(p) = "GAME" /\ Coming(p) => Coming(p)'
    PROVE  PairKept(p)
<1>1. KickGoes(p) => KickGoes(p)'
  BY DEF KickGoes
<1>2. Coming(p) /\ M!Status(p) = "GAME" => Coming(p)'
  BY DEF Coming
<1>3. HasSession(p) => HasSession(p)'
  BY DEF HasSession
<1> QED
  BY <1>1, <1>2, <1>3 DEF PairKept, Backed, IsHeld

(* A launched agent is about to be answered; a session there is is one of  *)
(* an agent before, and about to be kicked.                                *)
LEMMA PairedLaunched ==
    ASSUME Base, Owners, GameServed, NEW t \in Tasks, NEW a \in Agents, Launched(t, a),
           NEW q \in Players
    PROVE  PairKept(q)
<1>1. PICK p \in Players :
        /\ M!ServedBy(p) = Nil /\ M!ServedBy(p)' = a
        /\ \A x \in Players : x # p =>
              M!ServedBy(x)' = M!ServedBy(x) /\ M!Status(x)' = M!Status(x)
  BY LaunchedMoves
<1>2. /\ UNCHANGED <<gPlayers, gp, toMgr, toGate>>
      /\ mRet[t].agent = Nil /\ mRet'[t].agent = a
      /\ \A u \in Tasks : u # t => mRet'[u] = mRet[u]
  BY LaunchedMoves DEF gateVars
<1>3. CASE q = p
  <2>1. Backed(q) => gPlayers[q] = Nil \/ KickGoes(q)
    BY <1>1, <1>3, NilApart DEF Backed, Owners, OwnAgent
  <2>2. Backed(q) => Backed(q)'
    BY <1>2, <2>1 DEF Backed, KickGoes
  <2>3. IsHeld(q)'
    BY <1>1, <1>2, <1>3 DEF IsHeld, Coming
  <2> QED
    BY <2>2, <2>3 DEF PairKept
<1>4. CASE q # p
  <2>1. M!Status(q) = "GAME" /\ Coming(q) => Coming(q)'
    BY <1>1, <1>2, <1>4 DEF Coming, GameServed
  <2> QED
    BY <1>1, <1>2, <1>4, <2>1, AskedSame, PairedAlone
<1> QED
  BY <1>3, <1>4

(* A cleared entry leaves a session that is about to be kicked.            *)
LEMMA PairedCleared ==
    ASSUME Base, NEW t \in Tasks, Kicked(t) \/ ForkedKicked(t), NEW q \in Players
    PROVE  PairKept(q)
<1>1. PICK p \in Players :
        /\ toGate' = Append(toGate, Msg("kick", p, Nil))
        /\ M!Status(p)' = "none"
        /\ \A x \in Players : x # p =>
              M!ServedBy(x)' = M!ServedBy(x) /\ M!Status(x)' = M!Status(x)
  BY ClearedMoves
<1>2. /\ UNCHANGED <<gPlayers, gp, toMgr>>
      /\ \A u \in Tasks : mRet'[u].agent = mRet[u].agent
  BY ClearedMoves DEF gateVars
<1>3. PICK x \in GateMsg : x = Msg("kick", p, Nil)
  BY DEF Msg, GateMsg
<1>4. \A m : In(toGate', m) <=> In(toGate, m) \/ m = x
  BY <1>1, <1>3, BaseFacts, Appended DEF Wires, Shapes
<1>5. CASE q = p
  <2>1. x.k = "kick" /\ x.p = q
    BY <1>3, <1>5 DEF Msg
  <2>2. KickGoes(q)'
    BY <1>4, <2>1 DEF KickGoes
  <2> QED
    BY <1>1, <1>5, <2>2 DEF PairKept, Backed, IsHeld
<1>6. CASE q # p
  BY <1>1, <1>2, <1>4, <1>6, AskedSame, PairedAlone
<1> QED
  BY <1>5, <1>6

(* An answered agent is on its way to the gateway, for the player it was   *)
(* started for.                                                            *)
LEMMA PairedAnswered ==
    ASSUME Base, GameServed, ServedOwned, NEW t \in Tasks, MgrAnswers(t), NEW q \in Players
    PROVE  PairKept(q)
<1>1. /\ \A u \in Tasks : u # t => mRet'[u] = mRet[u]
      /\ UNCHANGED <<mPlayers, mObj, gPlayers, gp, toMgr>>
  <2>1. /\ mRet' = [mRet EXCEPT ![t] = [ok |-> "none", agent |-> Nil]]
        /\ UNCHANGED <<mPlayers, mObj, gateVars, toMgr>>
    BY BaseFacts, AnswerMoves
  <2> QED
    BY <2>1, BaseFacts DEF gateVars, M!TypeOK
<1>2. \/ mRet[t].agent = Nil /\ toGate' = toGate
      \/ /\ AnswersLogin(t)
         /\ toGate' = Append(toGate, Sure(lg[caller[t]].p, caller[t], mRet[t].agent))
  BY BaseFacts, AnswerMoves
<1>3. /\ \A m \in GateMsg : In(toGate, m) => In(toGate', m)
      /\ mRet[t].agent # Nil => \E x \in GateMsg :
            In(toGate', x) /\ x.a = mRet[t].agent /\ owner[mRet[t].agent] = x.p
  <2>1. CASE mRet[t].agent = Nil /\ toGate' = toGate
    BY <2>1
  <2>2. CASE /\ AnswersLogin(t)
             /\ toGate' = Append(toGate, Sure(lg[caller[t]].p, caller[t], mRet[t].agent))
    <3>1. /\ caller[t] \in Logins /\ lg[caller[t]].p \in Players /\ mRet[t].agent \in Agents
          /\ owner[mRet[t].agent] = lg[caller[t]].p
      BY <2>2, BaseFacts DEF AnswersLogin, Wires, Begun
    <3>2. PICK x \in GateMsg : x = Sure(lg[caller[t]].p, caller[t], mRet[t].agent)
      BY <3>1 DEF Sure, GateMsg
    <3>3. x.p = lg[caller[t]].p /\ x.a = mRet[t].agent
      BY <3>2 DEF Sure
    <3>4. \A m : In(toGate', m) <=> In(toGate, m) \/ m = x
      BY <2>2, <3>2, BaseFacts, Appended DEF Wires, Shapes
    <3> QED
      BY <3>1, <3>3, <3>4
  <2> QED
    BY <1>2, <2>1, <2>2
<1>4. M!ServedBy(q)' = M!ServedBy(q) /\ M!Status(q)' = M!Status(q)
  BY <1>1, EntriesAlone DEF EntriesStay
<1>5. ASSUME M!Status(q) = "GAME", Coming(q)
      PROVE  Coming(q)'
  <2>1. M!ServedBy(q) # Nil
    BY <1>5 DEF GameServed
  <2>2. CASE \E m \in GateMsg : In(toGate, m) /\ m.p = q /\ m.a = M!ServedBy(q)
    BY <1>3, <1>4, <2>2 DEF Coming
  <2>3. CASE \E u \in Tasks : u # t /\ mRet[u].agent = M!ServedBy(q)
    BY <1>1, <1>4, <2>3 DEF Coming
  <2>4. CASE mRet[t].agent = M!ServedBy(q)
    <3>1. PICK x \in GateMsg :
            In(toGate', x) /\ x.a = mRet[t].agent /\ owner[mRet[t].agent] = x.p
      BY <1>3, <2>1, <2>4
    <3>2. x.p = q
      BY <2>1, <2>4, <3>1 DEF ServedOwned
    <3> QED
      BY <1>4, <2>4, <3>1, <3>2 DEF Coming
  <2> QED
    BY <1>5, <2>2, <2>3, <2>4 DEF Coming
<1> QED
  BY <1>1, <1>3, <1>4, <1>5, AskedSame, PairedAlone

(* sure_agent makes the session of the entry, or asks for its end, or has  *)
(* been overtaken.                                                         *)
LEMMA PairedSure ==
    ASSUME Base, GateTakesSure, NEW q \in Players
    PROVE  PairStays(q)
<1>1. PICK m \in GateMsg :
        /\ toGate # <<>> /\ m = Head(toGate) /\ toGate' = Tail(toGate)
        /\ m.k = "sure_agent" /\ In(toGate, m)
        /\ m.l \in Logins /\ m.a \in Agents /\ m.p \in Players /\ lg[m.l].fd \in Fds
        /\ UNCHANGED <<mgrVars, caller, owner>>
        /\ \/ G!SureAgent(lg[m.l].fd, m.p, m.a) /\ toMgr' = toMgr
           \/ /\ G!SureAgentRefused(lg[m.l].fd, m.p)
              /\ toMgr' = Append(toMgr, Msg("reqkick", m.p, m.l))
  BY BaseFacts, SureTaken
<1>2. \A x \in GateMsg : In(toGate, x) => x = m \/ In(toGate', x)
  BY <1>1, BaseFacts, Taken DEF Wires, Shapes
<1>3. M!ServedBy(q)' = M!ServedBy(q) /\ M!Status(q)' = M!Status(q)
  BY <1>1, EntriesAlone DEF mgrVars, EntriesStay
<1>4. mRet' = mRet
  BY <1>1 DEF mgrVars
<1>5. CASE G!SureAgent(lg[m.l].fd, m.p, m.a) /\ toMgr' = toMgr
  <2>1. /\ gPlayers'[m.p] \in Objs
        /\ gp'[gPlayers'[m.p]] = [p |-> m.p, agent |-> m.a, conn |-> lg[m.l].fd, cache |-> <<>>]
        /\ \A x \in Players : x # m.p =>
              /\ gPlayers'[x] = gPlayers[x]
              /\ gPlayers[x] # Nil => gp'[gPlayers[x]] = gp[gPlayers[x]]
    BY <1>1, <1>5, BaseFacts, SureMoves
  <2>2. gPlayers'[m.p] # Nil /\ gp'[gPlayers'[m.p]].agent = m.a
    BY <2>1, SessionAssumption
  <2>3. CASE q = m.p /\ M!ServedBy(q) = m.a
    <3>1. Backed(q)' /\ IsHeld(q)'
      BY <1>3, <2>2, <2>3 DEF Backed, IsHeld, HasSession
    <3> QED
      BY <3>1 DEF PairStays, PairKept
  <2>4. CASE q = m.p /\ M!ServedBy(q) # m.a
    BY <1>1, <2>4 DEF PairStays, Overtaken
  <2>5. CASE q # m.p
    <3>1. PairKept(q)
      BY <1>2, <1>3, <1>4, <1>5, <2>1, <2>5, AskedSame, PairedAlone
    <3> QED
      BY <3>1 DEF PairStays
  <2> QED
    BY <2>3, <2>4, <2>5
<1>6. CASE /\ G!SureAgentRefused(lg[m.l].fd, m.p)
           /\ toMgr' = Append(toMgr, Msg("reqkick", m.p, m.l))
  <2>1. UNCHANGED <<gPlayers, gp>>
    BY <1>6 DEF G!SureAgentRefused
  <2>2. PICK x \in MgrMsg : x = Msg("reqkick", m.p, m.l)
    BY <1>1 DEF Msg, MgrMsg
  <2>3. x.k = "reqkick" /\ x.p = m.p
    BY <2>2 DEF Msg
  <2>4. Asking(m.p)' /\ (Asking(q) => Asking(q)')
    BY <1>6, <2>2, <2>3, BaseFacts, AskedMore
  <2>5. CASE q = m.p
    <3>1. KickGoes(q) => KickGoes(q)'
      BY <1>1, <1>2 DEF KickGoes
    <3> QED
      BY <1>3, <2>1, <2>4, <2>5, <3>1 DEF PairStays, PairKept, Backed, IsHeld
  <2>6. CASE q # m.p
    <3>1. PairKept(q)
      BY <1>2, <1>3, <1>4, <2>1, <2>4, <2>6, PairedAlone
    <3> QED
      BY <3>1 DEF PairStays
  <2> QED
    BY <2>5, <2>6
<1> QED
  BY <1>1, <1>5, <1>6

(* kick ends a session; it is not with an agent that serves.               *)
LEMMA PairedKick ==
    ASSUME Base, GameServed, KicksOld, GateTakesKick, NEW q \in Players
    PROVE  PairKept(q)
<1>1. PICK m \in GateMsg :
        /\ toGate # <<>> /\ m = Head(toGate) /\ toGate' = Tail(toGate)
        /\ m.k = "kick" /\ m.a = Nil /\ m.p \in Players
        /\ UNCHANGED <<mgrVars, lg, caller, toMgr, owner>>
        /\ G!Kick(m.p) \/ G!KickNobody(m.p)
  BY BaseFacts, KickTaken
<1>2. \A x \in GateMsg : In(toGate, x) => x = m \/ In(toGate', x)
  BY <1>1, BaseFacts, Taken DEF Wires, Shapes
<1>3. M!ServedBy(q)' = M!ServedBy(q) /\ M!Status(q)' = M!Status(q)
  BY <1>1, EntriesAlone DEF mgrVars, EntriesStay
<1>4. mRet' = mRet
  BY <1>1 DEF mgrVars
<1>5. /\ gPlayers'[m.p] = Nil
      /\ \A x \in Players : x # m.p =>
            /\ gPlayers'[x] = gPlayers[x]
            /\ gPlayers[x] # Nil => gp'[gPlayers[x]] = gp[gPlayers[x]]
  BY <1>1, BaseFacts, KickMoves
<1>6. ~HasSession(m.p)
  <2>1. /\ Len(toGate) \in Nat \ {0} /\ DOMAIN toGate = 1 .. Len(toGate)
        /\ Head(toGate) = toGate[1]
    BY <1>1, BaseFacts, HeadTailProperties, LenProperties, EmptySeq DEF Wires, Shapes
  <2>2. 1 \in DOMAIN toGate /\ toGate[1] = m
    BY <1>1, <2>1
  <2> QED
    BY <1>1, <2>2 DEF KicksOld, KickIsOld
<1>7. CASE q = m.p
  <2>1. Backed(q)'
    BY <1>5, <1>7 DEF Backed
  <2>2. M!Status(q) = "GAME" /\ Coming(q) => Coming(q)'
    BY <1>1, <1>2, <1>3, <1>4 DEF Coming, GameServed
  <2>3. IsHeld(q) => IsHeld(q)'
    BY <1>1, <1>3, <1>6, <1>7, <2>2, AskedSame DEF IsHeld
  <2> QED
    BY <2>1, <2>3 DEF PairKept
<1>8. CASE q # m.p
  BY <1>1, <1>2, <1>3, <1>4, <1>5, <1>8, AskedSame, PairedAlone
<1> QED
  BY <1>7, <1>8

(* Every step keeps a player's session and entry together, unless it takes *)
(* a sure_agent that was overtaken.                                        *)
LEMMA PairedStep ==
    ASSUME Base, Owners, GameServed, ServedOwned, KicksOld, [Next]_vars, NEW q \in Players
    PROVE  PairStays(q)
<1>1. CASE CalmStep
  BY <1>1, CalmSteps, PairedCalm DEF PairStays
<1>2. ASSUME NEW a \in Agents, AgentKicked(a) \/ AgentGone(a) PROVE PairKept(q)
  <2>1. UNCHANGED <<mPlayers, mObj, mRet, gPlayers, gp, toMgr, toGate>>
    BY <1>2, AgentKickedMoves, AgentGoneMoves DEF gateVars
  <2>2. M!ServedBy(q)' = M!ServedBy(q) /\ M!Status(q)' = M!Status(q)
    BY <2>1, EntriesAlone DEF EntriesStay
  <2> QED
    BY <2>1, <2>2, AskedSame, PairedAlone
<1>3. ASSUME PairKept(q) PROVE PairStays(q)
  BY <1>3 DEF PairStays
<1> QED
  BY StepKinds, <1>1, <1>2, <1>3, PairedLaunched, PairedCleared, PairedAnswered, PairedSure,
     PairedKick

-----------------------------------------------------------------------------
(* The theorems *)

(* The invariant of sessions.                                              *)
Whole == Base /\ Owners /\ AllTimed /\ GameServed /\ ServedOwned /\ KicksOld

(* It holds when nobody has connected.                                     *)
LEMMA WholeInit == Init => Whole
<1> SUFFICES ASSUME Init PROVE Whole
  OBVIOUS
<1>1. Base
  BY BaseInit
<1>2. /\ \A p \in Players : gPlayers[p] = Nil /\ mPlayers[p] = Nil
      /\ \A o \in Objs : gp[o].agent = Nil
      /\ \A a \in Agents : mAgent[a] = "free"
      /\ \A t \in Tasks : mRet[t].agent = Nil
      /\ \A m : ~In(toGate, m)
  <2>1. \A p \in Players : gPlayers[p] = Nil /\ mPlayers[p] = Nil
    BY DEF Init, M!Init, G!Init
  <2>2. \A o \in Objs : gp[o].agent = Nil
    BY DEF Init, G!Init, G!NoGp
  <2>3. /\ \A a \in Agents : mAgent[a] = "free"
        /\ \A t \in Tasks : mRet[t].agent = Nil
    BY DEF Init, M!Init, M!NoRet
  <2>4. \A m : ~In(toGate, m)
    BY NothingIn DEF Init
  <2> QED
    BY <2>1, <2>2, <2>3, <2>4
<1>3. \A p \in Players : M!Status(p) = "none" /\ M!ServedBy(p) = Nil
  BY <1>2 DEF M!Status, M!ServedBy
<1>4. Owners /\ AllTimed /\ GameServed
  BY <1>2, <1>3 DEF Owners, InUse, OwnAgent, AllTimed, Timed, GameServed
<1>5. ServedOwned
  BY <1>3 DEF ServedOwned
<1>6. KicksOld
  BY <1>2 DEF KicksOld, In
<1> QED
  BY <1>1, <1>4, <1>5, <1>6 DEF Whole

(* Every step keeps it.                                                    *)
LEMMA WholeStep == Whole /\ [Next]_vars => Whole'
<1> SUFFICES ASSUME Whole, [Next]_vars PROVE Whole'
  OBVIOUS
<1>1. Base'
  BY BaseStep DEF Whole
<1> QED
  BY <1>1, OwnersStep, TimedStep, GameServedStep, ServedOwnedStep, KicksOldStep DEF Whole

(* In every run of a session.                                              *)
THEOREM Sessions == Spec => []Whole
BY WholeInit, WholeStep, PTL DEF Spec

(* Lines of a player go to an agent that was started for the player: the   *)
(* arguments that login and gateway keep over their calls never mix up two *)
(* sessions.                                                               *)
THEOREM NoCrossedLines == Spec => []NoCrossTalk
<1>1. Whole => NoCrossTalk
  BY DEF Whole, Owners, OwnAgent, NoCrossTalk
<1> QED
  BY <1>1, Sessions, PTL

(* What is in a mailbox is at some place in it.                            *)
LEMMA Places ==
    ASSUME Base, NEW p \in Players
    PROVE  /\ Asking(p) \/ M!Status(p) = "LOGOUT" <=> KickOnItsWay(p)
           /\ KickGoes(p) <=> KickedAtGate(p)
           /\ Coming(p) <=> AgentOnItsWay(p, M!ServedBy(p))
<1>1. /\ \A i \in DOMAIN toMgr : toMgr[i] \in MgrMsg
      /\ \A i \in DOMAIN toGate : toGate[i] \in GateMsg
  BY BaseFacts, ElementOfSeq, LenProperties DEF Wires, Shapes
<1> QED
  BY <1>1 DEF Asking, KickGoes, Coming, In, KickOnItsWay, KickedAtGate, AgentOnItsWay

(* So what is kept is what the properties say.                             *)
LEMMA Pairs ==
    ASSUME Base, NEW p \in Players
    PROVE  /\ Unbacked(p) <=> ~Backed(p)
           /\ Unheld(p) <=> ~IsHeld(p)
BY Places DEF Unbacked, Backed, Unheld, IsHeld, HasSession

(* A player whose socket is gone while the agent serves has a timer that   *)
(* runs, or is about to be kicked: nobody stays in GAME unheard.           *)
THEOREM OfflineTimed == Spec => []OfflineIsTimed
<1>1. Whole => OfflineIsTimed
  BY Places DEF Whole, AllTimed, Timed, OfflineIsTimed, KickOnItsWay
<1> QED
  BY <1>1, Sessions, PTL

(* A session is left on an agent that agentmgr has let go of, with no kick *)
(* coming, only by a sure_agent that was overtaken by the kick.            *)
THEOREM SessionsKeepEntries == Spec => SessionsStayBacked
<1>1. ASSUME Whole, Whole', [Next]_vars
      PROVE  \A p \in Players : Unbacked(p)' /\ ~Unbacked(p) => Overtaken(p)
  <2> SUFFICES ASSUME NEW p \in Players PROVE Unbacked(p)' /\ ~Unbacked(p) => Overtaken(p)
    OBVIOUS
  <2>1. Unbacked(p) <=> ~Backed(p)
    BY <1>1, Pairs DEF Whole
  <2>2. Unbacked(p)' <=> ~Backed(p)'
    <3>1. Base' => (Unbacked(p)' <=> ~Backed(p)')
      BY Pairs, PTL
    <3> QED
      BY <1>1, <3>1 DEF Whole
  <2>3. PairStays(p)
    BY <1>1, PairedStep DEF Whole
  <2> QED
    BY <2>1, <2>2, <2>3 DEF PairStays, PairKept
<1>2. Whole /\ Whole' /\ [Next]_vars =>
         [\A p \in Players : Unbacked(p)' /\ ~Unbacked(p) => Overtaken(p)]_vars
  BY <1>1
<1> QED
  BY <1>2, Sessions, PTL DEF Spec, SessionsStayBacked

(* An agent that serves in GAME is left without a session that could end   *)
(* it, and without a kick coming, only by a sure_agent that was overtaken. *)
THEOREM EntriesKeepSessions == Spec => AgentsStayHeld
<1>1. ASSUME Whole, Whole', [Next]_vars
      PROVE  \A p \in Players : Unheld(p)' /\ ~Unheld(p) => Overtaken(p)
  <2> SUFFICES ASSUME NEW p \in Players PROVE Unheld(p)' /\ ~Unheld(p) => Overtaken(p)
    OBVIOUS
  <2>1. Unheld(p) <=> ~IsHeld(p)
    BY <1>1, Pairs DEF Whole
  <2>2. Unheld(p)' <=> ~IsHeld(p)'
    <3>1. Base' => (Unheld(p)' <=> ~IsHeld(p)')
      BY Pairs, PTL
    <3> QED
      BY <1>1, <3>1 DEF Whole
  <2>3. PairStays(p)
    BY <1>1, PairedStep DEF Whole
  <2> QED
    BY <2>1, <2>2, <2>3 DEF PairStays, PairKept
<1>2. Whole /\ Whole' /\ [Next]_vars =>
         [\A p \in Players : Unheld(p)' /\ ~Unheld(p) => Overtaken(p)]_vars
  BY <1>1
<1> QED
  BY <1>2, Sessions, PTL DEF Spec, AgentsStayHeld

=============================================================================
