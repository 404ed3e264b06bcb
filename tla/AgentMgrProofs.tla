--------------------------- MODULE AgentMgrProofs ---------------------------
(***************************************************************************)
(* Theorems about AgentMgr for any players, agents and coroutines.         *)
(***************************************************************************)
EXTENDS AgentMgr, FiniteSetTheorems, TLAPS

(* The number of entries is a number: the table has finitely many.         *)
LEMMA CountType == Count \in Nat
<1>1. IsFiniteSet(Online)
  BY PlayersAssumption, FS_Subset DEF Online
<1> QED
  BY <1>1, FS_CardinalityType DEF Count

(* Storing LOGOUT keeps the objects well typed.                            *)
LEMMA LeavingType ==
    ASSUME TypeOK, NEW S
    PROVE  Leaving(S) \in [Tasks -> Entry]
<1>1. ASSUME NEW o \in Tasks
      PROVE  /\ obj[o] \in Entry
             /\ [obj[o] EXCEPT !.status = "LOGOUT"] \in Entry
  <2>1. obj[o] \in Entry
    BY DEF TypeOK
  <2> QED
    BY <2>1 DEF Entry
<1> QED
  BY <1>1 DEF Leaving

(* So does storing the agent of an entry.                                  *)
LEMMA AdmittedType ==
    ASSUME TypeOK, NEW o, NEW a \in Agents \cup {Nil}
    PROVE  Admitted(o, a) \in [Tasks -> Entry]
BY DEF Admitted, TypeOK, Entry

(* Nobody is logged in initially: every variable has its type.             *)
LEMMA TypeInit == Init => TypeOK
BY NilAssumption DEF Init, TypeOK, NoObj, NoRet, Entry

(* Every step keeps the types.                                             *)
LEMMA TypeStep == TypeOK /\ [Next]_vars => TypeOK'
<1> SUFFICES ASSUME TypeOK, [Next]_vars PROVE TypeOK'
  OBVIOUS
<1> USE NilAssumption DEF TypeOK
<1>1. ASSUME NEW t \in Tasks, NEW p \in Players, ReqLoginRefused(t, p)
      PROVE TypeOK'
  BY <1>1 DEF ReqLoginRefused, Reply, Answer
<1>2. ASSUME NEW t \in Tasks, NEW p \in Players, ReqLoginReplace(t, p)
      PROVE TypeOK'
  BY <1>2 DEF ReqLoginReplace, Reply, Answer
<1>3. ASSUME NEW t \in Tasks, NEW p \in Players, NEW g \in Gates, ReqLogin(t, p, g)
      PROVE TypeOK'
  BY <1>3 DEF ReqLogin, Entry
<1>4. ASSUME NEW t \in Tasks, NEW a \in Agents, LaunchReturns(t, a)
      PROVE TypeOK'
  BY <1>4, AdmittedType DEF LaunchReturns, Reply
<1>5. ASSUME NEW t \in Tasks, LaunchFails(t)
      PROVE TypeOK'
  BY <1>5, AdmittedType DEF LaunchFails, Reply, Answer
<1>6. ASSUME NEW t \in Tasks, LaunchRaises(t) \/ KickRaises(t)
      PROVE TypeOK'
  <2>1. /\ Reply(t, Answer("nil"))
        /\ UNCHANGED <<players, obj, cnt, forked, agent>>
    BY <1>6 DEF LaunchRaises, KickRaises
  <2> QED
    BY <2>1 DEF Reply, Answer
<1>7. ASSUME NEW t \in Tasks, NEW p \in Players, ReqKickRefused(t, p)
      PROVE TypeOK'
  BY <1>7 DEF ReqKickRefused, Reply, Answer
<1>8. ASSUME NEW t \in Tasks, NEW p \in Players, ReqKick(t, p)
      PROVE TypeOK'
  <2>1. obj' \in [Tasks -> Entry]
    BY <1>8, LeavingType DEF ReqKick
  <2>2. players[p] \in Tasks \cup {Nil}
    OBVIOUS
  <2> QED
    BY <1>8, <2>1, <2>2 DEF ReqKick
<1>9. ASSUME NEW t \in Tasks, NEW p \in Players, ReqKickNoAgent(t, p)
      PROVE TypeOK'
  <2>1. obj' \in [Tasks -> Entry]
    BY <1>9, LeavingType DEF ReqKickNoAgent
  <2> QED
    BY <1>9, <2>1 DEF ReqKickNoAgent, Reply, Answer
<1>10. ASSUME NEW o, ClearEntry(o)
       PROVE  /\ agent' \in [Agents -> {"free", "up", "kicked", "exiting", "dead"}]
              /\ players' \in [Players -> Tasks \cup {Nil}]
              /\ obj' \in [Tasks -> Entry]
  BY <1>10 DEF ClearEntry, ExitSent, NoObj, Entry
<1>11. ASSUME NEW t \in Tasks, KickReturns(t)
       PROVE TypeOK'
  BY <1>10, <1>11 DEF KickReturns, Reply, Answer
<1>12. ASSUME NEW o \in Tasks, ForkedKickReturns(o)
       PROVE TypeOK'
  BY <1>10, <1>12 DEF ForkedKickReturns
<1>13. ASSUME NEW o \in Tasks, ForkedKickRaises(o)
       PROVE TypeOK'
  BY <1>13 DEF ForkedKickRaises
<1>14. ASSUME NEW t \in Tasks, Shutdown(t)
       PROVE TypeOK'
  <2>1. obj' \in [Tasks -> Entry]
    BY <1>14, LeavingType DEF Shutdown
  <2>2. cnt' \in [Tasks -> Nat]
    BY <1>14, CountType DEF Shutdown
  <2>3. forked' \in SUBSET Tasks
    <3>1. PICK S \in Batches :
             forked' = forked \cup {o \in {players[p] : p \in {q \in S : MayKick(q)}} :
                                        obj[o].agent # Nil}
      BY <1>14 DEF Shutdown
    <3>2. \A q \in S : MayKick(q) => players[q] \in Tasks
      BY DEF Batches, Online, MayKick, Status
    <3> QED
      BY <3>1, <3>2
  <2> QED
    BY <1>14, <2>1, <2>2, <2>3 DEF Shutdown
<1>15. ASSUME NEW t \in Tasks, ShutdownReturns(t)
       PROVE TypeOK'
  BY <1>15 DEF ShutdownReturns, Reply, Answer
<1>16. ASSUME NEW t \in Tasks, Answered(t)
       PROVE TypeOK'
  BY <1>16 DEF Answered, NoRet
<1>17. ASSUME NEW a \in Agents, AgentKick(a) \/ AgentExit(a) \/ AgentDies(a)
       PROVE TypeOK'
  BY <1>17 DEF AgentKick, AgentExit, AgentDies
<1>18. CASE UNCHANGED vars
  BY <1>18 DEF vars
<1>19. ASSUME NEW t \in Tasks, ShutdownSleeps(t)
       PROVE TypeOK'
  BY <1>19, <1>18 DEF ShutdownSleeps
<1> QED
  BY <1>1, <1>2, <1>3, <1>4, <1>5, <1>6, <1>7, <1>8, <1>9, <1>11, <1>12, <1>13,
     <1>14, <1>15, <1>16, <1>17, <1>18, <1>19
     DEF Next, Request, Resume

(* Every variable keeps its type: TypeOK is an invariant.                  *)
THEOREM TypeCorrect == Spec => []TypeOK
BY TypeInit, TypeStep, PTL DEF Spec

-----------------------------------------------------------------------------
(* The inductive invariant: what the table, the objects, the locals and    *)
(* the agents say of each other.  Each part needs the others.              *)
Coherent == EntriesMatch /\ LocalsCurrent /\ OneAgentPerPlayer /\ GameIsServed
Inv == TypeOK /\ Coherent

(* What the types say of the values the invariant is about.                *)
LEMMA Ranges ==
    ASSUME TypeOK
    PROVE  /\ forked \subseteq Tasks
           /\ \A p \in Players : players[p] \in Tasks \cup {Nil}
           /\ \A o \in Tasks : obj[o].agent \in Agents \cup {Nil}
BY DEF TypeOK, Entry

(* Nobody is logged in initially, so the tables agree trivially.            *)
LEMMA InitCoherent == Init => Coherent
BY NilAssumption DEF Init, NoObj, Coherent, EntriesMatch, LocalsCurrent,
   OneAgentPerPlayer, GameIsServed

(* A step of a coroutine that touches neither table, objects nor agents    *)
(* and leaves the coroutines that wait in a call alone.                    *)
LEMMA QuietStep ==
    ASSUME Inv, TypeOK', UNCHANGED <<players, obj, forked, agent>>,
           \A u \in Tasks : pc'[u] \in {"launch", "kick"} =>
                            pc'[u] = pc[u] /\ tgt'[u] = tgt[u]
    PROVE  Coherent'
<1>1. EntriesMatch' /\ OneAgentPerPlayer' /\ GameIsServed'
  BY DEF Inv, Coherent, EntriesMatch, OneAgentPerPlayer, GameIsServed
<1>2. LocalsCurrent'
  BY DEF Inv, Coherent, LocalsCurrent
<1> QED
  BY <1>1, <1>2 DEF Coherent

(* reqlogin enters a player under a name no object has.                    *)
LEMMA ReqLoginStep ==
    ASSUME Inv, TypeOK', NEW t \in Tasks, NEW p \in Players, NEW g \in Gates,
           ReqLogin(t, p, g)
    PROVE  Coherent'
<1>1. players[p] = Nil /\ obj[t].status = "none" /\ t \notin forked /\ pc[t] = "idle"
  BY DEF ReqLogin, MayEnter, Status, Free, Inv, Coherent, EntriesMatch,
         LocalsCurrent, NoObj
<1>2. /\ obj'[t].p = p /\ obj'[t].status = "LOGIN" /\ obj'[t].agent = Nil
      /\ \A o \in Tasks : o # t => obj'[o] = obj[o]
      /\ players'[p] = t
      /\ \A q \in Players : q # p => players'[q] = players[q]
      /\ pc'[t] = "launch" /\ tgt'[t] = t
      /\ \A u \in Tasks : u # t => pc'[u] = pc[u] /\ tgt'[u] = tgt[u]
      /\ UNCHANGED <<forked, agent>>
  BY DEF ReqLogin, Inv, TypeOK
<1>3. EntriesMatch'
  BY <1>1, <1>2, NilAssumption, Ranges DEF Inv, Coherent, EntriesMatch
<1>4. LocalsCurrent'
  BY <1>1, <1>2, Ranges DEF Inv, Coherent, LocalsCurrent
<1>5. OneAgentPerPlayer' /\ GameIsServed'
  BY <1>1, <1>2, Ranges DEF Inv, Coherent, OneAgentPerPlayer, GameIsServed
<1> QED
  BY <1>3, <1>4, <1>5 DEF Coherent

(* The object of a coroutine that waits for its launch is in LOGIN, so no  *)
(* coroutine waits for its kick, and a new agent is nobody else's.         *)
LEMMA LaunchReturnsStep ==
    ASSUME Inv, TypeOK', NEW t \in Tasks, NEW a \in Agents, LaunchReturns(t, a)
    PROVE  Coherent'
<1>1. tgt[t] = t /\ obj[t].status = "LOGIN"
  BY DEF LaunchReturns, Inv, Coherent, LocalsCurrent
<1>2. \A o \in Tasks : obj[o].agent # a
  BY NilAssumption DEF LaunchReturns, Inv, Coherent, OneAgentPerPlayer
<1>3. /\ obj'[t].p = obj[t].p /\ obj'[t].status = "GAME" /\ obj'[t].agent = a
      /\ \A o \in Tasks : o # t => obj'[o] = obj[o]
      /\ agent'[a] = "up" /\ \A b \in Agents : b # a => agent'[b] = agent[b]
      /\ pc'[t] = "ret"
      /\ \A u \in Tasks : u # t => pc'[u] = pc[u] /\ tgt'[u] = tgt[u]
      /\ UNCHANGED <<players, forked>>
  BY <1>1 DEF LaunchReturns, Admitted, Reply, Inv, TypeOK
<1>4. EntriesMatch'
  BY <1>1, <1>3, Ranges DEF Inv, Coherent, EntriesMatch
<1>5. LocalsCurrent'
  BY <1>1, <1>3, Ranges DEF Inv, Coherent, LocalsCurrent
<1>6. OneAgentPerPlayer' /\ GameIsServed'
  BY <1>1, <1>2, <1>3, NilAssumption, Ranges DEF Inv, Coherent, OneAgentPerPlayer, GameIsServed
<1> QED
  BY <1>4, <1>5, <1>6 DEF Coherent

(* A launch that answers no agent leaves an entry in GAME without one.      *)
LEMMA LaunchFailsStep ==
    ASSUME Inv, TypeOK', NEW t \in Tasks, LaunchFails(t)
    PROVE  Coherent'
<1>1. tgt[t] = t /\ obj[t].status = "LOGIN" /\ obj[t].agent = Nil
  BY DEF LaunchFails, Inv, Coherent, LocalsCurrent
<1>2. /\ obj'[t].p = obj[t].p /\ obj'[t].status = "GAME" /\ obj'[t].agent = Nil
      /\ \A o \in Tasks : o # t => obj'[o] = obj[o]
      /\ pc'[t] = "ret"
      /\ \A u \in Tasks : u # t => pc'[u] = pc[u] /\ tgt'[u] = tgt[u]
      /\ UNCHANGED <<players, forked, agent>>
  BY <1>1 DEF LaunchFails, Admitted, Reply, Answer, Inv, TypeOK
<1>3. EntriesMatch'
  BY <1>1, <1>2, Ranges DEF Inv, Coherent, EntriesMatch
<1>4. LocalsCurrent'
  BY <1>1, <1>2, Ranges DEF Inv, Coherent, LocalsCurrent
<1>5. OneAgentPerPlayer' /\ GameIsServed'
  BY <1>1, <1>2, Ranges DEF Inv, Coherent, OneAgentPerPlayer, GameIsServed
<1> QED
  BY <1>3, <1>4, <1>5 DEF Coherent

(* Storing LOGOUT in entries that are in GAME: kick has not been sent yet, *)
(* so their agents still serve.                                            *)
LEMMA LeavingStep ==
    ASSUME Inv, UNCHANGED <<players, agent>>,
           \A o \in Tasks : /\ obj'[o].p = obj[o].p /\ obj'[o].agent = obj[o].agent
                            /\ \/ obj'[o].status = obj[o].status
                               \/ obj[o].status = "GAME" /\ obj'[o].status = "LOGOUT"
    PROVE  EntriesMatch' /\ OneAgentPerPlayer' /\ GameIsServed'
<1>1. EntriesMatch'
  BY Ranges DEF Inv, Coherent, EntriesMatch
<1>2. OneAgentPerPlayer'
  BY Ranges DEF Inv, Coherent, OneAgentPerPlayer
<1>3. GameIsServed'
  BY DEF Inv, Coherent, GameIsServed
<1> QED
  BY <1>1, <1>2, <1>3

(* The entry of a player in GAME is an object nobody waits on.             *)
LEMMA InGame ==
    ASSUME Inv, NEW p \in Players, MayKick(p)
    PROVE  /\ players[p] \in Tasks \ forked
           /\ obj[players[p]].status = "GAME"
           /\ \A u \in Tasks : pc[u] \in {"launch", "kick"} => tgt[u] # players[p]
<1>1. players[p] \in Tasks /\ obj[players[p]].status = "GAME"
  BY Ranges DEF MayKick, Status, Inv
<1> QED
  BY <1>1 DEF Inv, Coherent, LocalsCurrent

(* reqkick stores LOGOUT before its call; its entry has no other waiter.    *)
LEMMA ReqKickStep ==
    ASSUME Inv, TypeOK', NEW t \in Tasks, NEW p \in Players, ReqKick(t, p)
    PROVE  Coherent'
<1> DEFINE o == players[p]
<1>1. /\ o \in Tasks \ forked /\ obj[o].status = "GAME"
      /\ \A u \in Tasks : pc[u] \in {"launch", "kick"} => tgt[u] # o
  BY InGame DEF ReqKick
<1>2. /\ pc'[t] = "kick" /\ tgt'[t] = o /\ obj[o].agent # Nil
      /\ \A u \in Tasks : u # t => pc'[u] = pc[u] /\ tgt'[u] = tgt[u]
      /\ UNCHANGED <<players, forked, agent>>
  BY DEF ReqKick, Inv, TypeOK
<1>3. /\ obj'[o].p = obj[o].p /\ obj'[o].agent = obj[o].agent
      /\ obj'[o].status = "LOGOUT"
      /\ \A x \in Tasks : x # o => obj'[x] = obj[x]
  BY <1>1 DEF ReqKick, Leaving, Inv, TypeOK, Entry
<1> HIDE DEF o
<1>4. EntriesMatch' /\ OneAgentPerPlayer' /\ GameIsServed'
  BY <1>1, <1>2, <1>3, LeavingStep
<1>5. LocalsCurrent'
  BY <1>1, <1>2, <1>3, Ranges DEF Inv, Coherent, LocalsCurrent
<1> QED
  BY <1>4, <1>5 DEF Coherent

(* The same without an agent: the coroutine ends at line 74.                *)
LEMMA ReqKickNoAgentStep ==
    ASSUME Inv, TypeOK', NEW t \in Tasks, NEW p \in Players, ReqKickNoAgent(t, p)
    PROVE  Coherent'
<1> DEFINE o == players[p]
<1>1. /\ o \in Tasks \ forked /\ obj[o].status = "GAME"
      /\ \A u \in Tasks : pc[u] \in {"launch", "kick"} => tgt[u] # o
  BY InGame DEF ReqKickNoAgent
<1>2. /\ pc'[t] = "ret"
      /\ \A u \in Tasks : u # t => pc'[u] = pc[u] /\ tgt'[u] = tgt[u]
      /\ UNCHANGED <<players, forked, agent>>
  BY DEF ReqKickNoAgent, Reply, Inv, TypeOK
<1>3. /\ obj'[o].p = obj[o].p /\ obj'[o].agent = obj[o].agent
      /\ obj'[o].status = "LOGOUT"
      /\ \A x \in Tasks : x # o => obj'[x] = obj[x]
  BY <1>1 DEF ReqKickNoAgent, Leaving, Inv, TypeOK, Entry
<1> HIDE DEF o
<1>4. EntriesMatch' /\ OneAgentPerPlayer' /\ GameIsServed'
  BY <1>1, <1>2, <1>3, LeavingStep
<1>5. LocalsCurrent'
  BY <1>1, <1>2, <1>3, Ranges DEF Inv, Coherent, LocalsCurrent
<1> QED
  BY <1>4, <1>5 DEF Coherent

(* The entries a shutdown kicks are those of the batch that are in GAME.   *)
LEMMA ShutdownStep ==
    ASSUME Inv, TypeOK', NEW t \in Tasks, Shutdown(t)
    PROVE  Coherent'
<1>1. PICK hit :
        /\ \E S \in Batches : hit = {players[p] : p \in {q \in S : MayKick(q)}}
        /\ obj' = [o \in Tasks |-> IF o \in hit THEN [obj[o] EXCEPT !.status = "LOGOUT"]
                                                ELSE obj[o]]
        /\ forked' = forked \cup {o \in hit : obj[o].agent # Nil}
  BY DEF Shutdown, Leaving
<1>2. \A o \in hit : /\ o \in Tasks \ forked /\ obj[o].status = "GAME"
                     /\ \A u \in Tasks : pc[u] \in {"launch", "kick"} => tgt[u] # o
  <2>1. PICK S \in Batches : hit = {players[p] : p \in {q \in S : MayKick(q)}}
    BY <1>1
  <2> QED
    BY <2>1, InGame DEF Batches, Online
<1>3. \A x \in Tasks : /\ obj'[x].p = obj[x].p /\ obj'[x].agent = obj[x].agent
                       /\ x \in hit => obj'[x].status = "LOGOUT"
                       /\ x \notin hit => obj'[x] = obj[x]
  BY <1>1 DEF Inv, TypeOK, Entry
<1>4. /\ UNCHANGED <<players, agent>>
      /\ \A o \in Tasks : o \in forked' <=> o \in forked \/ (o \in hit /\ obj[o].agent # Nil)
      /\ pc'[t] = "wait"
      /\ \A u \in Tasks : (u # t => pc'[u] = pc[u]) /\ tgt'[u] = tgt[u]
  <2>1. \A o \in Tasks : o \in forked' <=> o \in forked \/ (o \in hit /\ obj[o].agent # Nil)
    BY <1>1
  <2>2. UNCHANGED <<players, agent, tgt>> /\ pc' = [pc EXCEPT ![t] = "wait"]
    BY DEF Shutdown
  <2> QED
    BY <2>1, <2>2 DEF Inv, TypeOK
<1>5. EntriesMatch' /\ OneAgentPerPlayer' /\ GameIsServed'
  <2>1. \A x \in Tasks : \/ obj'[x].status = obj[x].status
                         \/ obj[x].status = "GAME" /\ obj'[x].status = "LOGOUT"
    BY <1>2, <1>3
  <2> QED
    BY <2>1, <1>3, <1>4, LeavingStep
<1>6. LocalsCurrent'
  <2>1. forked' \subseteq Tasks
    BY DEF TypeOK
  <2> QED
    BY <2>1, <1>2, <1>3, <1>4, Ranges DEF Inv, Coherent, LocalsCurrent
<1> QED
  BY <1>5, <1>6 DEF Coherent

(* An entry goes with its agent, and no other coroutine waits on it.       *)
LEMMA ClearStep ==
    ASSUME Inv, TypeOK', NEW o \in Tasks, ClearEntry(o),
           obj[o].status = "LOGOUT", obj[o].agent # Nil,
           \A u \in Tasks : pc'[u] \in {"launch", "kick"} =>
               pc'[u] = pc[u] /\ tgt'[u] = tgt[u] /\ tgt[u] # o,
           forked' = forked \ {o}
    PROVE  Coherent'
<1>1. /\ obj[o].p \in Players /\ players[obj[o].p] = o
      /\ obj[o].agent \in Agents
  BY Ranges DEF Inv, Coherent, EntriesMatch
<1>2. /\ obj'[o].status = "none" /\ obj'[o].agent = Nil
      /\ \A x \in Tasks : x # o => obj'[x] = obj[x]
      /\ players'[obj[o].p] = Nil
      /\ \A q \in Players : q # obj[o].p => players'[q] = players[q]
      /\ agent'[obj[o].agent] = "exiting"
      /\ \A b \in Agents : b # obj[o].agent => agent'[b] = agent[b]
  BY <1>1 DEF ClearEntry, ExitSent, NoObj, Inv, TypeOK
<1>3. EntriesMatch'
  BY <1>1, <1>2, Ranges DEF Inv, Coherent, EntriesMatch
<1>4. LocalsCurrent'
  BY <1>1, <1>2, Ranges DEF Inv, Coherent, LocalsCurrent
<1>5. OneAgentPerPlayer' /\ GameIsServed'
  BY <1>1, <1>2, Ranges DEF Inv, Coherent, OneAgentPerPlayer, GameIsServed
<1> QED
  BY <1>3, <1>4, <1>5 DEF Coherent

(* A reqkick that comes back clears the entry it left.                      *)
LEMMA KickReturnsStep ==
    ASSUME Inv, TypeOK', NEW t \in Tasks, KickReturns(t) PROVE Coherent'
<1>1. /\ tgt[t] \in Tasks \ forked /\ obj[tgt[t]].status = "LOGOUT"
      /\ obj[tgt[t]].agent # Nil
      /\ \A u \in Tasks : pc[u] \in {"launch", "kick"} /\ u # t => tgt[u] # tgt[t]
  BY DEF KickReturns, Inv, Coherent, LocalsCurrent
<1>2. /\ ClearEntry(tgt[t]) /\ pc'[t] = "ret" /\ forked' = forked
      /\ \A u \in Tasks : u # t => pc'[u] = pc[u] /\ tgt'[u] = tgt[u]
  BY DEF KickReturns, Reply, Inv, TypeOK
<1> QED
  BY <1>1, <1>2, ClearStep

(* So does a reqkick forked by shutdown, which nobody waits for.            *)
LEMMA ForkedKickReturnsStep ==
    ASSUME Inv, TypeOK', NEW o \in Tasks, ForkedKickReturns(o) PROVE Coherent'
<1>1. /\ obj[o].status = "LOGOUT" /\ obj[o].agent # Nil
      /\ \A u \in Tasks : pc[u] \in {"launch", "kick"} => tgt[u] # o
  BY DEF ForkedKickReturns, Inv, Coherent, LocalsCurrent
<1>2. ClearEntry(o) /\ forked' = forked \ {o} /\ UNCHANGED <<pc, tgt>>
  BY DEF ForkedKickReturns
<1> QED
  BY <1>1, <1>2, ClearStep

(* An agent handles kick only for an entry in LOGOUT.                      *)
LEMMA AgentStep ==
    ASSUME Inv, TypeOK', NEW a \in Agents, AgentKick(a) \/ AgentExit(a) \/ AgentDies(a)
    PROVE  Coherent'
<1>1. /\ UNCHANGED <<players, obj, pc, tgt, forked>>
      /\ \A b \in Agents : b # a => agent'[b] = agent[b]
  BY DEF AgentKick, AgentExit, AgentDies, Inv, TypeOK
<1>2. EntriesMatch' /\ LocalsCurrent'
  BY <1>1 DEF Inv, Coherent, EntriesMatch, LocalsCurrent
<1>3. CASE AgentKick(a)
  <2>1. agent[a] = "up" /\ agent'[a] = "kicked"
    BY <1>3 DEF AgentKick, Inv, TypeOK
  <2>2. PICK o \in Kicking : obj[o].agent = a
    BY <1>3 DEF AgentKick
  <2>3. o \in Tasks /\ obj[o].status = "LOGOUT"
    BY <2>2, Ranges DEF Kicking, Inv, Coherent, LocalsCurrent
  <2>4. OneAgentPerPlayer' /\ GameIsServed'
    BY <1>1, <2>1, <2>2, <2>3, Ranges
       DEF Inv, Coherent, OneAgentPerPlayer, GameIsServed
  <2> QED
    BY <1>2, <2>4 DEF Coherent
<1>4. CASE AgentExit(a)
  <2>1. agent[a] = "exiting" /\ agent'[a] = "free"
    BY <1>4 DEF AgentExit, Inv, TypeOK
  <2>2. OneAgentPerPlayer' /\ GameIsServed'
    BY <1>1, <2>1, Ranges DEF Inv, Coherent, OneAgentPerPlayer, GameIsServed
  <2> QED
    BY <1>2, <2>2 DEF Coherent
<1>5. CASE AgentDies(a)
  <2>1. agent[a] \in {"up", "kicked", "exiting"} /\ agent'[a] = "dead"
    BY <1>5 DEF AgentDies, Inv, TypeOK
  <2>2. OneAgentPerPlayer' /\ GameIsServed'
    BY <1>1, <2>1, Ranges DEF Inv, Coherent, OneAgentPerPlayer, GameIsServed
  <2> QED
    BY <1>2, <2>2 DEF Coherent
<1> QED
  BY <1>3, <1>4, <1>5

(* Every step keeps the invariant.                                         *)
LEMMA NextCoherent ==
    ASSUME Inv, TypeOK', [Next]_vars
    PROVE  Coherent'
<1> USE DEF Inv
<1>1. ASSUME NEW t \in Tasks, NEW p \in Players,
             ReqLoginRefused(t, p) \/ ReqLoginReplace(t, p) \/ ReqKickRefused(t, p)
      PROVE Coherent'
  BY <1>1, QuietStep DEF ReqLoginRefused, ReqLoginReplace, ReqKickRefused, Reply, TypeOK
<1>2. ASSUME NEW t \in Tasks, LaunchRaises(t) \/ KickRaises(t) \/ ShutdownReturns(t)
      PROVE Coherent'
  BY <1>2, QuietStep DEF LaunchRaises, KickRaises, ShutdownReturns, Reply, TypeOK
<1>3. ASSUME NEW t \in Tasks, Answered(t)
      PROVE Coherent'
  BY <1>3, QuietStep DEF Answered, TypeOK
<1>4. ASSUME NEW o \in Tasks, ForkedKickRaises(o)
      PROVE Coherent'
  <2>1. /\ UNCHANGED <<players, obj, pc, tgt, agent>>
        /\ forked' \subseteq forked
    BY <1>4 DEF ForkedKickRaises
  <2>2. LocalsCurrent'
    BY <2>1, Ranges DEF Coherent, LocalsCurrent
  <2>3. EntriesMatch' /\ OneAgentPerPlayer' /\ GameIsServed'
    BY <2>1 DEF Coherent, EntriesMatch, OneAgentPerPlayer, GameIsServed
  <2> QED
    BY <2>2, <2>3 DEF Coherent
<1>5. CASE UNCHANGED vars
  BY <1>5, QuietStep DEF vars
<1>6. ASSUME NEW t \in Tasks, ShutdownSleeps(t)
      PROVE Coherent'
  BY <1>5, <1>6 DEF ShutdownSleeps
<1> QED
  BY <1>1, <1>2, <1>3, <1>4, <1>5, <1>6, ReqLoginStep, LaunchReturnsStep,
     LaunchFailsStep, ReqKickStep, ReqKickNoAgentStep, ShutdownStep,
     KickReturnsStep, ForkedKickReturnsStep, AgentStep
     DEF Next, Request, Resume

(* It holds at first.                                                      *)
LEMMA InvInit == Init => Inv
BY TypeInit, InitCoherent DEF Inv

(* Every step keeps it.                                                    *)
LEMMA InvStep == Inv /\ [Next]_vars => Inv'
BY TypeStep, NextCoherent DEF Inv

(* Tables, locals and agents stay coherent, whatever step is taken.         *)
THEOREM Invariance == Spec => []Inv
BY InvInit, InvStep, PTL DEF Spec

(* The table and its objects agree, whatever interleaves.                  *)
THEOREM EntriesMatchAlways == Spec => []EntriesMatch
BY Invariance, PTL DEF Inv, Coherent

(* A local held across a call is never stale and never shared.             *)
THEOREM LocalsStayCurrent == Spec => []LocalsCurrent
BY Invariance, PTL DEF Inv, Coherent

(* A serving agent belongs to exactly one player.                          *)
THEOREM OneAgent == Spec => []OneAgentPerPlayer
BY Invariance, PTL DEF Inv, Coherent

(* Kick reaches an agent only after LOGOUT is stored.                      *)
THEOREM GameServed == Spec => []GameIsServed
BY Invariance, PTL DEF Inv, Coherent

-----------------------------------------------------------------------------
(* What a step does to the entry of a player.  The five cases of           *)
(* StatusMoves are the only ones, as no coroutine waits in a call for an   *)
(* entry it does not own.                                                  *)
LEMMA NextStatusMoves ==
    ASSUME Inv, TypeOK', [Next]_vars, NEW p \in Players
    PROVE  StatusMoves(p)
<1> USE DEF Inv
<1>1. CASE UNCHANGED <<players, obj>>
  BY <1>1 DEF StatusMoves, Status
<1>2. ASSUME NEW t \in Tasks, NEW q \in Players, NEW g \in Gates, ReqLogin(t, q, g)
      PROVE StatusMoves(p)
  <2>1. /\ players[q] = Nil /\ obj[t].status = "none"
        /\ obj'[t].status = "LOGIN" /\ players'[q] = t
        /\ \A o \in Tasks : o # t => obj'[o] = obj[o]
        /\ \A x \in Players : x # q => players'[x] = players[x]
    BY <1>2, NilAssumption DEF ReqLogin, MayEnter, Status, Free, Coherent, EntriesMatch, NoObj, TypeOK
  <2>2. p # q => players[p] # t
    BY <2>1, NilAssumption DEF Coherent, EntriesMatch
  <2> QED
    BY <2>1, <2>2, Ranges, NilAssumption DEF StatusMoves, Status
<1>3. ASSUME NEW t \in Tasks, NEW a \in Agents \cup {Nil}, pc[t] = "launch",
             obj' = Admitted(tgt[t], a), players' = players
      PROVE StatusMoves(p)
  <2>1. tgt[t] = t /\ obj[t].status = "LOGIN"
    BY <1>3 DEF Coherent, LocalsCurrent
  <2>2. obj'[t].status = "GAME" /\ \A o \in Tasks : o # t => obj'[o] = obj[o]
    BY <1>3, <2>1 DEF Admitted, TypeOK
  <2> QED
    BY <1>3, <2>1, <2>2, Ranges, NilAssumption DEF StatusMoves, Status
<1>4. ASSUME NEW S \in SUBSET Tasks, \A o \in S : obj[o].status = "GAME",
             obj' = Leaving(S), players' = players
      PROVE StatusMoves(p)
  <2>1. \A o \in Tasks : \/ obj'[o].status = obj[o].status
                         \/ obj[o].status = "GAME" /\ obj'[o].status = "LOGOUT"
    BY <1>4 DEF Leaving, TypeOK, Entry
  <2> QED
    BY <1>4, <2>1, Ranges DEF StatusMoves, Status
<1>5. ASSUME NEW o \in Tasks, obj[o].status = "LOGOUT", ClearEntry(o)
      PROVE StatusMoves(p)
  <2>1. /\ obj[o].p \in Players /\ players[obj[o].p] = o
        /\ players'[obj[o].p] = Nil
        /\ \A x \in Players : x # obj[o].p => players'[x] = players[x]
        /\ \A x \in Tasks : x # o => obj'[x] = obj[x]
    BY <1>5 DEF ClearEntry, Coherent, EntriesMatch, TypeOK
  <2>2. p # obj[o].p => players[p] # o
    BY <2>1, NilAssumption DEF Coherent, EntriesMatch
  <2> QED
    BY <1>5, <2>1, <2>2, Ranges DEF StatusMoves, Status
<1>6. ASSUME NEW t \in Tasks, NEW q \in Players, ReqKick(t, q) \/ ReqKickNoAgent(t, q)
      PROVE StatusMoves(p)
  <2>1. players[q] \in Tasks /\ obj[players[q]].status = "GAME"
    BY <1>6, InGame DEF ReqKick, ReqKickNoAgent
  <2>2. obj' = Leaving({players[q]}) /\ players' = players
    BY <1>6 DEF ReqKick, ReqKickNoAgent
  <2> QED
    BY <2>1, <2>2, <1>4
<1>7. ASSUME NEW t \in Tasks, Shutdown(t)
      PROVE StatusMoves(p)
  <2>1. PICK S \in Batches :
           obj' = Leaving({players[q] : q \in {x \in S : MayKick(x)}})
    BY <1>7 DEF Shutdown
  <2>2. \A o \in {players[q] : q \in {x \in S : MayKick(x)}} :
           o \in Tasks /\ obj[o].status = "GAME"
    BY InGame DEF Batches, Online
  <2>3. players' = players
    BY <1>7 DEF Shutdown
  <2> QED
    BY <2>1, <2>2, <2>3, <1>4
<1>8. ASSUME NEW t \in Tasks, LaunchFails(t) \/ \E a \in Agents : LaunchReturns(t, a)
      PROVE StatusMoves(p)
  BY <1>8, <1>3 DEF LaunchFails, LaunchReturns
<1>9. ASSUME NEW t \in Tasks, KickReturns(t)
      PROVE StatusMoves(p)
  BY <1>9, <1>5 DEF KickReturns, Coherent, LocalsCurrent
<1>10. ASSUME NEW o \in Tasks, ForkedKickReturns(o)
       PROVE StatusMoves(p)
  BY <1>10, <1>5 DEF ForkedKickReturns, Coherent, LocalsCurrent
<1> QED
  BY <1>1, <1>2, <1>6, <1>7, <1>8, <1>9, <1>10
     DEF Next, Request, Resume, vars, ReqLoginRefused, ReqLoginReplace, ReqKickRefused,
         LaunchRaises, KickRaises, ForkedKickRaises, ShutdownSleeps, ShutdownReturns,
         Answered, AgentKick, AgentExit, AgentDies

(* A player's entry goes through LOGIN, GAME and LOGOUT in this order and  *)
(* is never overtaken by another login of the same player.                 *)
THEOREM StatusOrdered == Spec => StatusOrder
<1>1. Inv /\ TypeOK' /\ [Next]_vars => [\A p \in Players : StatusMoves(p)]_vars
  BY NextStatusMoves
<1> QED
  BY <1>1, TypeCorrect, Invariance, PTL DEF Spec, StatusOrder

-----------------------------------------------------------------------------
(* An object is tended: what Tended says of a player, for an entry; and    *)
(* what OwnFailure says.                                                   *)
EntryTended(o) ==
    /\ obj[o].status = "LOGIN" => pc[o] = "launch"
    /\ obj[o].status = "LOGOUT" => o \in Kicking
    /\ obj[o].status \in {"GAME", "LOGOUT"} => obj[o].agent # Nil
EntryFails(o) ==
    \/ LaunchFails(o)
    \/ LaunchRaises(o)
    \/ obj[o].agent # Nil /\ agent[obj[o].agent] = "dead"
StaysTended == \A o \in Tasks : EntryTended(o) => EntryTended(o)' \/ EntryFails(o)

(* A step in which nobody gives up an entry: objects stay, and whoever     *)
(* waits in a call for one.                                                *)
LEMMA TendedStays ==
    ASSUME UNCHANGED obj,
           \A o \in Tasks : pc[o] = "launch" => pc'[o] = "launch" \/ EntryFails(o),
           \A o \in Tasks : o \in Kicking => o \in Kicking' \/ EntryFails(o)
    PROVE  StaysTended
BY DEF StaysTended, EntryTended

(* Who waits on an entry after a step of one coroutine.                    *)
LEMMA KickingAfter ==
    ASSUME NEW t \in Tasks, \A u \in Tasks : u # t => pc'[u] = pc[u] /\ tgt'[u] = tgt[u],
           NEW o \in Kicking, forked \subseteq forked', pc[t] # "kick"
    PROVE  o \in Kicking'
BY DEF Kicking

(* A coroutine that answers has not waited in a call, or raises: then the  *)
(* failure is that of the entry it waited on.                              *)
LEMMA TendedReplies ==
    ASSUME Inv, NEW t \in Tasks, NEW r, Reply(t, r),
           UNCHANGED <<obj, forked, agent>>,
           pc[t] = "launch" => LaunchRaises(t),
           pc[t] = "kick" => agent[obj[tgt[t]].agent] = "dead"
    PROVE  StaysTended
<1>1. \A u \in Tasks : u # t => pc'[u] = pc[u] /\ tgt'[u] = tgt[u]
  BY DEF Reply, Inv, TypeOK
<1>2. ASSUME NEW o \in Tasks, o \in Kicking
      PROVE  o \in Kicking' \/ EntryFails(o)
  <2>1. CASE pc[t] = "kick" /\ tgt[t] = o
    BY <2>1 DEF EntryFails, Inv, Coherent, LocalsCurrent
  <2>2. CASE ~(pc[t] = "kick" /\ tgt[t] = o)
    BY <1>1, <1>2, <2>2 DEF Kicking
  <2> QED
    BY <2>1, <2>2
<1>3. \A o \in Tasks : pc[o] = "launch" => pc'[o] = "launch" \/ EntryFails(o)
  BY <1>1 DEF EntryFails
<1> QED
  BY <1>2, <1>3, TendedStays

(* Objects that leave are waited for, unless they had no agent.            *)
LEMMA TendedLeave ==
    ASSUME Inv, NEW S \in SUBSET Tasks, obj' = Leaving(S),
           \A o \in S : obj[o].status = "GAME",
           \A o \in Tasks : pc[o] = "launch" => pc'[o] = "launch",
           \A o \in Tasks : o \in Kicking => o \in Kicking',
           \A o \in S : obj[o].agent # Nil => o \in Kicking'
    PROVE  StaysTended
<1>1. \A o \in Tasks : /\ obj'[o].agent = obj[o].agent
                       /\ obj'[o].status = IF o \in S THEN "LOGOUT" ELSE obj[o].status
  BY DEF Leaving, Inv, TypeOK, Entry
<1> SUFFICES ASSUME NEW o \in Tasks, EntryTended(o) PROVE EntryTended(o)'
  BY DEF StaysTended
<1>2. CASE o \in S
  BY <1>1, <1>2 DEF EntryTended
<1>3. CASE o \notin S
  BY <1>1, <1>3 DEF EntryTended
<1> QED
  BY <1>2, <1>3

(* The launch of an entry is over: it has its agent, or the launch failed. *)
LEMMA TendedAdmit ==
    ASSUME Inv, NEW t \in Tasks, pc[t] = "launch", NEW a \in Agents \cup {Nil},
           obj' = Admitted(tgt[t], a), a = Nil => LaunchFails(t), UNCHANGED forked,
           \A u \in Tasks : u # t => pc'[u] = pc[u] /\ tgt'[u] = tgt[u]
    PROVE  StaysTended
<1>1. tgt[t] = t
  BY DEF Inv, Coherent, LocalsCurrent
<1>2. /\ obj'[t].status = "GAME" /\ obj'[t].agent = a
      /\ \A o \in Tasks : o # t => obj'[o] = obj[o]
  BY <1>1 DEF Admitted, Inv, TypeOK
<1>3. \A o \in Tasks : o \in Kicking => o \in Kicking'
  BY KickingAfter
<1> SUFFICES ASSUME NEW o \in Tasks, EntryTended(o) PROVE EntryTended(o)' \/ EntryFails(o)
  BY DEF StaysTended
<1>4. CASE o = t
  BY <1>2, <1>4 DEF EntryTended, EntryFails
<1>5. CASE o # t
  BY <1>2, <1>3, <1>5 DEF EntryTended
<1> QED
  BY <1>4, <1>5

(* An entry that is cleared, by the one that waited on it.                 *)
LEMMA TendedClear ==
    ASSUME Inv, NEW o \in Tasks, ClearEntry(o),
           forked' = forked \ {o},
           \A u \in Tasks : pc[u] = "launch" => pc'[u] = "launch",
           \A u \in Tasks : pc[u] = "kick" /\ tgt[u] # o => pc'[u] = "kick" /\ tgt'[u] = tgt[u]
    PROVE  StaysTended
<1>1. /\ obj'[o].status = "none"
      /\ \A x \in Tasks : x # o => obj'[x] = obj[x]
  BY DEF ClearEntry, NoObj, Inv, TypeOK
<1>2. \A x \in Tasks : x \in Kicking /\ x # o => x \in Kicking'
  BY DEF Kicking
<1> SUFFICES ASSUME NEW x \in Tasks, EntryTended(x) PROVE EntryTended(x)'
  BY DEF StaysTended
<1>3. CASE x = o
  BY <1>1, <1>3 DEF EntryTended
<1>4. CASE x # o
  BY <1>1, <1>2, <1>4 DEF EntryTended
<1> QED
  BY <1>3, <1>4

(* Whatever step is taken, an entry becomes untended by its own failure.   *)
LEMMA NextTended ==
    ASSUME Inv, [Next]_vars
    PROVE  StaysTended
<1>1. ASSUME NEW t \in Tasks, NEW p \in Players,
             ReqLoginRefused(t, p) \/ ReqLoginReplace(t, p) \/ ReqKickRefused(t, p)
      PROVE  StaysTended
  <2>1. pc[t] = "idle" /\ UNCHANGED <<obj, forked, agent>> /\ \E r : Reply(t, r)
    BY <1>1 DEF ReqLoginRefused, ReqLoginReplace, ReqKickRefused, Free
  <2> QED
    BY <2>1, TendedReplies
<1>2. ASSUME NEW t \in Tasks, NEW p \in Players, NEW g \in Gates, ReqLogin(t, p, g)
      PROVE  StaysTended
  <2>1. /\ pc[t] = "idle" /\ pc'[t] = "launch" /\ UNCHANGED forked
        /\ obj'[t].status = "LOGIN"
        /\ \A o \in Tasks : o # t => obj'[o] = obj[o] /\ pc'[o] = pc[o] /\ tgt'[o] = tgt[o]
    BY <1>2 DEF ReqLogin, Free, Inv, TypeOK
  <2>2. \A o \in Tasks : o \in Kicking => o \in Kicking'
    BY <2>1, KickingAfter
  <2> SUFFICES ASSUME NEW o \in Tasks, EntryTended(o) PROVE EntryTended(o)'
    BY DEF StaysTended
  <2>3. CASE o = t
    BY <2>1, <2>3 DEF EntryTended
  <2>4. CASE o # t
    BY <2>1, <2>2, <2>4 DEF EntryTended
  <2> QED
    BY <2>3, <2>4
<1>3. ASSUME NEW t \in Tasks, NEW a \in Agents, LaunchReturns(t, a)
      PROVE  StaysTended
  BY <1>3, TendedAdmit, NilAssumption DEF LaunchReturns, Reply, Inv, TypeOK
<1>4. ASSUME NEW t \in Tasks, LaunchFails(t)
      PROVE  StaysTended
  <2>1. /\ pc[t] = "launch" /\ obj' = Admitted(tgt[t], Nil) /\ UNCHANGED forked
        /\ \A u \in Tasks : u # t => pc'[u] = pc[u] /\ tgt'[u] = tgt[u]
    BY <1>4 DEF LaunchFails, Reply, Inv, TypeOK
  <2> QED
    BY <1>4, <2>1, TendedAdmit
<1>5. ASSUME NEW t \in Tasks, LaunchRaises(t) \/ KickRaises(t) \/ ShutdownReturns(t)
      PROVE  StaysTended
  <2>1. /\ UNCHANGED <<obj, forked, agent>> /\ \E r : Reply(t, r)
        /\ pc[t] = "launch" => LaunchRaises(t)
        /\ pc[t] = "kick" => agent[obj[tgt[t]].agent] = "dead"
    BY <1>5 DEF LaunchRaises, KickRaises, ShutdownReturns
  <2> QED
    BY <2>1, TendedReplies
<1>6. ASSUME NEW t \in Tasks, NEW p \in Players, ReqKick(t, p)
      PROVE  StaysTended
  <2>1. /\ players[p] \in Tasks /\ obj[players[p]].status = "GAME"
        /\ obj' = Leaving({players[p]}) /\ UNCHANGED forked /\ pc[t] = "idle"
        /\ pc'[t] = "kick" /\ tgt'[t] = players[p]
        /\ \A u \in Tasks : u # t => pc'[u] = pc[u] /\ tgt'[u] = tgt[u]
    BY <1>6, InGame DEF ReqKick, Free, Inv, TypeOK
  <2>2. \A o \in Tasks : o \in Kicking => o \in Kicking'
    BY <2>1, KickingAfter
  <2>3. players[p] \in Kicking'
    BY <2>1 DEF Kicking
  <2> QED
    BY <2>1, <2>2, <2>3, TendedLeave
<1>7. ASSUME NEW t \in Tasks, NEW p \in Players, ReqKickNoAgent(t, p)
      PROVE  StaysTended
  <2>1. /\ players[p] \in Tasks /\ obj[players[p]].status = "GAME"
        /\ obj' = Leaving({players[p]}) /\ UNCHANGED forked /\ pc[t] = "idle"
        /\ obj[players[p]].agent = Nil
        /\ \A u \in Tasks : u # t => pc'[u] = pc[u] /\ tgt'[u] = tgt[u]
    BY <1>7, InGame DEF ReqKickNoAgent, Reply, Free, Inv, TypeOK
  <2>2. \A o \in Tasks : o \in Kicking => o \in Kicking'
    BY <2>1, KickingAfter
  <2> QED
    BY <2>1, <2>2, TendedLeave
<1>8. ASSUME NEW t \in Tasks, Shutdown(t)
      PROVE  StaysTended
  <2>1. PICK S \in Batches :
           LET hit == {players[p] : p \in {q \in S : MayKick(q)}}
           IN  obj' = Leaving(hit) /\ forked' = forked \cup {o \in hit : obj[o].agent # Nil}
    BY <1>8 DEF Shutdown
  <2> DEFINE hit == {players[p] : p \in {q \in S : MayKick(q)}}
  <2>2. \A o \in hit : o \in Tasks /\ obj[o].status = "GAME"
    BY InGame DEF Batches, Online
  <2>3. /\ pc[t] = "idle"
        /\ \A u \in Tasks : u # t => pc'[u] = pc[u] /\ tgt'[u] = tgt[u]
    BY <1>8 DEF Shutdown, Free, Inv, TypeOK
  <2>4. \A o \in Tasks : o \in Kicking => o \in Kicking'
    BY <2>1, <2>3, KickingAfter
  <2>5. \A o \in hit : obj[o].agent # Nil => o \in Kicking'
    BY <2>1 DEF Kicking
  <2> QED
    BY <2>1, <2>2, <2>3, <2>4, <2>5, TendedLeave
<1>9. ASSUME NEW t \in Tasks, KickReturns(t)
      PROVE  StaysTended
  <2>1. /\ tgt[t] \in Tasks \ forked
        /\ ClearEntry(tgt[t]) /\ forked' = forked /\ pc[t] = "kick"
        /\ \A u \in Tasks : u # t => pc'[u] = pc[u] /\ tgt'[u] = tgt[u]
    BY <1>9 DEF KickReturns, Reply, Inv, TypeOK, Coherent, LocalsCurrent
  <2> QED
    BY <2>1, TendedClear
<1>10. ASSUME NEW o \in Tasks, ForkedKickReturns(o)
       PROVE  StaysTended
  <2>1. ClearEntry(o) /\ forked' = forked \ {o} /\ UNCHANGED <<pc, tgt>>
    BY <1>10 DEF ForkedKickReturns
  <2> QED
    BY <2>1, TendedClear
<1>11. ASSUME NEW o \in Tasks, ForkedKickRaises(o)
       PROVE  StaysTended
  <2>1. /\ EntryFails(o) /\ forked' = forked \ {o}
        /\ UNCHANGED <<obj, pc, tgt>>
    BY <1>11 DEF ForkedKickRaises, EntryFails, Inv, Coherent, LocalsCurrent
  <2>2. \A x \in Tasks : x \in Kicking => x \in Kicking' \/ x = o
    BY <2>1 DEF Kicking
  <2> QED
    BY <2>1, <2>2, TendedStays
<1>12. ASSUME NEW t \in Tasks, Answered(t)
       PROVE  StaysTended
  <2>1. /\ UNCHANGED <<obj, tgt, forked>> /\ pc[t] = "ret"
        /\ \A u \in Tasks : u # t => pc'[u] = pc[u]
    BY <1>12 DEF Answered, Inv, TypeOK
  <2>2. \A o \in Tasks : o \in Kicking => o \in Kicking'
    BY <2>1, KickingAfter
  <2> QED
    BY <2>1, <2>2, TendedStays
<1>13. ASSUME NEW a \in Agents, AgentKick(a) \/ AgentExit(a) \/ AgentDies(a)
       PROVE  StaysTended
  <2>1. UNCHANGED <<obj, pc, tgt, forked>> /\ Kicking' = Kicking
    BY <1>13 DEF AgentKick, AgentExit, AgentDies, Kicking
  <2> QED
    BY <2>1, TendedStays
<1>14. CASE UNCHANGED vars
  <2>1. UNCHANGED <<obj, pc, tgt, forked>> /\ Kicking' = Kicking
    BY <1>14 DEF vars, Kicking
  <2> QED
    BY <2>1, TendedStays
<1>15. ASSUME NEW t \in Tasks, ShutdownSleeps(t)
       PROVE  StaysTended
  BY <1>14, <1>15 DEF ShutdownSleeps
<1> QED
  BY <1>1, <1>2, <1>3, <1>4, <1>5, <1>6, <1>7, <1>8, <1>9, <1>10, <1>11, <1>12, <1>13,
     <1>14, <1>15 DEF Next, Request, Resume

(* An entry that appears for a player is in LOGIN, with its coroutine in   *)
(* the call of nodemgr.                                                    *)
LEMMA NewEntry ==
    ASSUME Inv, [Next]_vars, NEW p \in Players, players'[p] # players[p], players'[p] # Nil
    PROVE  pc'[players'[p]] = "launch" /\ obj'[players'[p]].status = "LOGIN"
<1>1. ASSUME NEW t \in Tasks, NEW q \in Players, NEW g \in Gates, ReqLogin(t, q, g)
      PROVE  pc'[players'[p]] = "launch" /\ obj'[players'[p]].status = "LOGIN"
  BY <1>1 DEF ReqLogin, Inv, TypeOK
<1>2. ASSUME NEW o, ClearEntry(o)
      PROVE  FALSE
  BY <1>2 DEF ClearEntry, Inv, TypeOK
<1> QED
  BY <1>1, <1>2
     DEF Next, Request, Resume, vars, ReqLoginRefused, ReqLoginReplace, ReqKickRefused,
         ReqKick, ReqKickNoAgent, LaunchReturns, LaunchFails, LaunchRaises, KickReturns,
         KickRaises, ForkedKickReturns, ForkedKickRaises, Shutdown, ShutdownSleeps,
         ShutdownReturns, Answered, AgentKick, AgentExit, AgentDies

(* An entry loses the coroutine that takes it further, or its agent, only  *)
(* by a failure of its own: that of its launch, or of its agent's node.    *)
THEOREM NobodyIsStranded == Spec => NobodyStranded
<1>1. ASSUME Inv, [Next]_vars, NEW p \in Players, Tended(p), ~Tended(p)'
      PROVE  OwnFailure(p)
  <2>1. players'[p] # Nil
    BY <1>1, NilAssumption DEF Tended, Status
  <2>2. players'[p] = players[p]
    BY <1>1, <2>1, NewEntry DEF Tended, Status
  <2>3. PICK o \in Tasks : o = players[p] /\ o = players'[p]
    BY <1>1, <2>1, <2>2 DEF Inv, TypeOK
  <2>4. EntryTended(o) /\ ~EntryTended(o)'
    BY <1>1, <2>1, <2>3 DEF Tended, Status, ServedBy, EntryTended
  <2>5. EntryFails(o)
    BY <1>1, <2>4, NextTended DEF StaysTended
  <2> QED
    BY <2>1, <2>3, <2>5 DEF EntryFails, OwnFailure, ServedBy
<1>2. Inv /\ [Next]_vars =>
         [\A p \in Players : Tended(p) /\ ~Tended(p)' => OwnFailure(p)]_vars
  BY <1>1
<1> QED
  BY <1>2, Invariance, PTL DEF Spec, NobodyStranded

-----------------------------------------------------------------------------
(* AgentMgr implements PlayerLifecycle: each step that changes an entry is *)
(* the step of the same meaning there, every other step changes nothing.   *)

(* The entries of the other players are other objects.                     *)
LEMMA OthersUntouched ==
    ASSUME Inv, NEW o \in Tasks, NEW q \in Players,
           obj[o].status = "none" \/ players[q] = o,
           \A x \in Players : x # q => players'[x] = players[x],
           \A x \in Tasks : x # o => obj'[x] = obj[x]
    PROVE  \A x \in Players : x # q => Status(x)' = Status(x) /\ ServedBy(x)' = ServedBy(x)
<1>1. ASSUME NEW x \in Players, x # q PROVE players[x] # o
  BY <1>1, NilAssumption DEF Inv, Coherent, EntriesMatch
<1> QED
  BY <1>1, Ranges DEF Inv, Status, ServedBy

(* reqlogin of a player without an entry is the abstract Begin.             *)
LEMMA BeginStep ==
    ASSUME Inv, NEW t \in Tasks, NEW q \in Players, NEW g \in Gates, ReqLogin(t, q, g)
    PROVE  Lifecycle!Begin(q)
<1>1. /\ players[q] = Nil /\ obj[t].status = "none"
      /\ obj'[t].status = "LOGIN" /\ obj'[t].agent = Nil /\ players'[q] = t
      /\ \A o \in Tasks : o # t => obj'[o] = obj[o]
      /\ \A x \in Players : x # q => players'[x] = players[x]
  BY NilAssumption DEF Inv, ReqLogin, MayEnter, Status, Free, Coherent, EntriesMatch, NoObj, TypeOK
<1>2. Status(q) = "none" /\ Status(q)' = "LOGIN" /\ ServedBy(q) = Nil /\ ServedBy(q)' = Nil
  BY <1>1, NilAssumption DEF Status, ServedBy
<1>3. \A x \in Players : x # q => Status(x)' = Status(x) /\ ServedBy(x)' = ServedBy(x)
  BY <1>1, OthersUntouched
<1> QED
  BY <1>2, <1>3 DEF Lifecycle!Begin

(* An answer of nodemgr with an agent is the abstract Admit.                *)
LEMMA AdmitStep ==
    ASSUME Inv, NEW t \in Tasks, NEW a \in Agents, LaunchReturns(t, a),
           NEW q \in Players, q = obj[t].p
    PROVE  Lifecycle!Admit(q, a)
<1>1. /\ tgt[t] = t /\ obj[t].status = "LOGIN"
      /\ players[q] = t
      /\ \A o \in Tasks : obj[o].agent # a
  BY NilAssumption DEF LaunchReturns, Inv, Coherent, LocalsCurrent, EntriesMatch, OneAgentPerPlayer
<1>2. /\ players' = players /\ obj'[t].status = "GAME" /\ obj'[t].agent = a
      /\ \A o \in Tasks : o # t => obj'[o] = obj[o]
  BY <1>1 DEF LaunchReturns, Admitted, Inv, TypeOK
<1>3. /\ Status(q) = "LOGIN" /\ Status(q)' = "GAME" /\ ServedBy(q)' = a
      /\ \A x \in Players : ServedBy(x) # a
  BY <1>1, <1>2, Ranges, NilAssumption DEF Status, ServedBy, Inv
<1>4. \A x \in Players : x # q => Status(x)' = Status(x) /\ ServedBy(x)' = ServedBy(x)
  BY <1>1, <1>2, OthersUntouched
<1> QED
  BY <1>1, <1>3, <1>4 DEF Lifecycle!Admit

(* An answer without an agent is the abstract AdmitAlone.                   *)
LEMMA AdmitAloneStep ==
    ASSUME Inv, NEW t \in Tasks, LaunchFails(t),
           NEW q \in Players, q = obj[t].p
    PROVE  Lifecycle!AdmitAlone(q)
<1>1. /\ tgt[t] = t /\ obj[t].status = "LOGIN" /\ obj[t].agent = Nil
      /\ players[q] = t
  BY DEF LaunchFails, Inv, Coherent, LocalsCurrent, EntriesMatch
<1>2. /\ players' = players /\ obj'[t].status = "GAME" /\ obj'[t].agent = Nil
      /\ \A o \in Tasks : o # t => obj'[o] = obj[o]
  BY <1>1 DEF LaunchFails, Admitted, Inv, TypeOK
<1>3. /\ Status(q) = "LOGIN" /\ Status(q)' = "GAME"
      /\ ServedBy(q)' = ServedBy(q)
  BY <1>1, <1>2, NilAssumption DEF Status, ServedBy
<1>4. \A x \in Players : x # q => Status(x)' = Status(x) /\ ServedBy(x)' = ServedBy(x)
  BY <1>1, <1>2, OthersUntouched
<1> QED
  BY <1>1, <1>3, <1>4 DEF Lifecycle!AdmitAlone

(* The players of a set S leave: the objects of these players and no other *)
(* go to LOGOUT.                                                           *)
LEMMA ExpelStep ==
    ASSUME Inv, NEW S \in SUBSET Players, \A q \in S : MayKick(q), players' = players,
           obj' = Leaving({players[q] : q \in S})
    PROVE  Lifecycle!Expel(S)
<1>1. \A x \in Players : players[x] # Nil =>
         /\ players[x] \in {players[q] : q \in S} <=> x \in S
         /\ players[x] \in Tasks
  <2>1. \A x \in Players, y \in Players : players[x] # Nil /\ players[x] = players[y] => x = y
    BY DEF Inv, Coherent, EntriesMatch
  <2> QED
    BY <2>1, Ranges DEF Inv
<1>2. \A o \in Tasks : /\ obj'[o].agent = obj[o].agent
                       /\ obj'[o].status = IF o \in {players[q] : q \in S} THEN "LOGOUT"
                                          ELSE obj[o].status
  BY DEF Leaving, Inv, TypeOK, Entry
<1>3. \A q \in S : players[q] # Nil
  BY DEF MayKick, Status
<1>4. \A x \in Players : /\ Status(x)' = IF x \in S THEN "LOGOUT" ELSE Status(x)
                         /\ ServedBy(x)' = ServedBy(x)
  BY <1>1, <1>2, <1>3 DEF Status, ServedBy
<1> QED
  BY <1>4 DEF Lifecycle!Expel, MayKick

(* Clearing the entry at the end of reqkick is the abstract Depart.         *)
LEMMA DepartStep ==
    ASSUME Inv, NEW o \in Tasks, obj[o].status = "LOGOUT", obj[o].agent # Nil, ClearEntry(o),
           NEW q \in Players, q = obj[o].p
    PROVE  Lifecycle!Depart(q)
<1>1. /\ players[q] = o /\ players'[q] = Nil
      /\ \A x \in Players : x # q => players'[x] = players[x]
      /\ \A x \in Tasks : x # o => obj'[x] = obj[x]
  BY DEF ClearEntry, Inv, Coherent, EntriesMatch, TypeOK
<1>2. /\ Status(q) = "LOGOUT" /\ Status(q)' = "none"
      /\ ServedBy(q) # Nil /\ ServedBy(q)' = Nil
  BY <1>1, NilAssumption DEF Status, ServedBy
<1>3. \A x \in Players : x # q => Status(x)' = Status(x) /\ ServedBy(x)' = ServedBy(x)
  BY <1>1, OthersUntouched
<1> QED
  BY <1>1, <1>2, <1>3 DEF Lifecycle!Depart

(* Each step of agentmgr is a step of the lifecycle or a stutter.           *)
LEMMA NextRefines ==
    ASSUME Inv, [Next]_vars
    PROVE  [Lifecycle!Next]_(Lifecycle!lvars)
<1>1. CASE UNCHANGED <<players, obj>>
  BY <1>1 DEF Status, ServedBy, Lifecycle!lvars
<1>2. ASSUME NEW t \in Tasks, NEW q \in Players, ReqKick(t, q) \/ ReqKickNoAgent(t, q)
      PROVE Lifecycle!Next
  <2>1. /\ MayKick(q) /\ players' = players
        /\ obj' = Leaving({players[x] : x \in {q}})
    <3>1. {players[x] : x \in {q}} = {players[q]}
      OBVIOUS
    <3> QED
      BY <3>1, <1>2 DEF ReqKick, ReqKickNoAgent
  <2>2. Lifecycle!Expel({q})
    BY <2>1, ExpelStep
  <2> QED
    BY <2>2 DEF Lifecycle!Next
<1>3. ASSUME NEW t \in Tasks, Shutdown(t)
      PROVE Lifecycle!Next
  <2>1. PICK S \in Batches : obj' = Leaving({players[q] : q \in {x \in S : MayKick(x)}})
    BY <1>3 DEF Shutdown
  <2> DEFINE K == {x \in S : MayKick(x)}
  <2>2. K \in SUBSET Players
    BY DEF Batches, Online
  <2>3. players' = players
    BY <1>3 DEF Shutdown
  <2>4. obj' = Leaving({players[q] : q \in K}) /\ \A q \in K : MayKick(q)
    BY <2>1
  <2> HIDE DEF K
  <2>5. Lifecycle!Expel(K)
    BY <2>2, <2>3, <2>4, ExpelStep
  <2> QED
    BY <2>2, <2>5 DEF Lifecycle!Next
<1>4. ASSUME NEW t \in Tasks, NEW q \in Players, NEW g \in Gates, ReqLogin(t, q, g)
      PROVE Lifecycle!Next
  BY <1>4, BeginStep DEF Lifecycle!Next
<1>5. ASSUME NEW t \in Tasks, NEW a \in Agents, LaunchReturns(t, a)
      PROVE Lifecycle!Next
  <2>1. obj[t].p \in Players
    BY <1>5 DEF LaunchReturns, Inv, Coherent, LocalsCurrent, EntriesMatch
  <2> QED
    BY <1>5, <2>1, AdmitStep DEF Lifecycle!Next
<1>6. ASSUME NEW t \in Tasks, LaunchFails(t)
      PROVE Lifecycle!Next
  <2>1. obj[t].p \in Players
    BY <1>6 DEF LaunchFails, Inv, Coherent, LocalsCurrent, EntriesMatch
  <2> QED
    BY <1>6, <2>1, AdmitAloneStep DEF Lifecycle!Next
<1>7. ASSUME NEW o \in Tasks, obj[o].status = "LOGOUT", obj[o].agent # Nil, ClearEntry(o)
      PROVE Lifecycle!Next
  <2>1. obj[o].p \in Players
    BY <1>7 DEF Inv, Coherent, EntriesMatch
  <2> QED
    BY <1>7, <2>1, DepartStep DEF Lifecycle!Next
<1>8. ASSUME NEW t \in Tasks, KickReturns(t)
      PROVE Lifecycle!Next
  BY <1>8, <1>7 DEF KickReturns, Inv, Coherent, LocalsCurrent
<1>9. ASSUME NEW o \in Tasks, ForkedKickReturns(o)
      PROVE Lifecycle!Next
  BY <1>9, <1>7 DEF ForkedKickReturns, Inv, Coherent, LocalsCurrent
<1> QED
  BY <1>1, <1>2, <1>3, <1>4, <1>5, <1>6, <1>8, <1>9
     DEF Next, Request, Resume, vars, ReqLoginRefused, ReqLoginReplace, ReqKickRefused,
         LaunchRaises, KickRaises, ForkedKickRaises, ShutdownSleeps, ShutdownReturns,
         Answered, AgentKick, AgentExit, AgentDies

(* The table of agentmgr is a player lifecycle, for any number of players, *)
(* agents and interleaved requests.                                        *)
THEOREM Refinement == Spec => LifecycleSpec
<1>1. Init => Lifecycle!Init
  BY DEF Init, Lifecycle!Init, Status, ServedBy
<1>2. Inv /\ [Next]_vars => [Lifecycle!Next]_(Lifecycle!lvars)
  BY NextRefines
<1> QED
  BY <1>1, <1>2, Invariance, PTL DEF Spec, LifecycleSpec, Lifecycle!Spec

-----------------------------------------------------------------------------
(* The batch of a shutdown *)

(* Only a shutdown has a coroutine wait.                                   *)
LEMMA WaitBegins ==
    ASSUME TypeOK, [Next]_vars, NEW t \in Tasks, pc[t] = "idle", pc'[t] = "wait"
    PROVE  Shutdown(t)
<1>1. ASSUME NEW u \in Tasks, NEW w \in {"idle", "launch", "kick", "ret"},
             pc' = [pc EXCEPT ![u] = w]
      PROVE  FALSE
  BY <1>1 DEF TypeOK
<1>2. ASSUME NEW u \in Tasks, Shutdown(u) PROVE u = t
  BY <1>2 DEF TypeOK, Shutdown
<1>3. ASSUME NEW u \in Tasks, NEW m, Reply(u, m) PROVE FALSE
  BY <1>1, <1>3 DEF Reply
<1>4. pc' # pc
  OBVIOUS
<1> QED
  BY <1>1, <1>2, <1>3, <1>4
     DEF Next, Request, Resume, vars, ReqLogin, ReqLoginRefused, ReqLoginReplace,
         ReqKick, ReqKickRefused, ReqKickNoAgent, LaunchReturns, LaunchFails,
         LaunchRaises, KickReturns, KickRaises, ForkedKickReturns, ForkedKickRaises,
         ShutdownSleeps, ShutdownReturns, Answered, AgentKick, AgentExit, AgentDies

(* What is left of a finite set without a part of it.                      *)
LEMMA LeftOver ==
    ASSUME NEW S, NEW T, NEW U, IsFiniteSet(S), T \subseteq S, U \subseteq S \ T
    PROVE  /\ Cardinality(S) \in Nat /\ Cardinality(T) \in Nat /\ Cardinality(U) \in Nat
           /\ Cardinality(U) + Cardinality(T) <= Cardinality(S)
<1>1. IsFiniteSet(T) /\ IsFiniteSet(U) /\ IsFiniteSet(U \cup T)
  BY FS_Subset
<1>2. Cardinality(U \cup T) <= Cardinality(S)
  BY FS_Subset
<1>3. U \cap T = {}
  OBVIOUS
<1>4. Cardinality(U \cup T) = Cardinality(U) + Cardinality(T) - Cardinality({})
  BY <1>1, <1>3, FS_Union
<1>5. /\ Cardinality(S) \in Nat /\ Cardinality(T) \in Nat /\ Cardinality(U) \in Nat
      /\ Cardinality({}) = 0
  BY <1>1, FS_CardinalityType, FS_EmptySet
<1> QED
  BY <1>2, <1>4, <1>5

(* Without entries in LOGIN, those of the batch are in LOGOUT afterwards.  *)
LEMMA BatchLeaves ==
    ASSUME Inv, NEW t \in Tasks, NEW S \in SUBSET Online,
           obj' = Leaving({players[p] : p \in {q \in S : MayKick(q)}}), players' = players,
           \A p \in Players : Status(p) # "LOGIN", NEW p \in S
    PROVE  p \in Players /\ Status(p)' = "LOGOUT"
<1>1. p \in Players /\ players[p] \in Tasks /\ obj[players[p]] \in Entry
  BY DEF Online, Inv, TypeOK
<1>2. Status(p) \in {"GAME", "LOGOUT"}
  BY <1>1, NilAssumption DEF Inv, Coherent, EntriesMatch, Status, Entry
<1>3. obj'[players[p]] = IF players[p] \in {players[x] : x \in {q \in S : MayKick(q)}}
                         THEN [obj[players[p]] EXCEPT !.status = "LOGOUT"]
                         ELSE obj[players[p]]
  BY <1>1 DEF Leaving
<1>4. CASE Status(p) = "GAME"
  <2>1. MayKick(p)
    BY <1>4 DEF MayKick
  <2>2. obj'[players[p]].status = "LOGOUT"
    BY <1>1, <1>3, <2>1 DEF Entry
  <2> QED
    BY <1>1, <2>2, NilAssumption DEF Status
<1>5. CASE Status(p) = "LOGOUT"
  <2>1. obj'[players[p]].status = "LOGOUT"
    BY <1>1, <1>3, <1>5, NilAssumption DEF Entry, Status
  <2> QED
    BY <1>1, <2>1, NilAssumption DEF Status
<1> QED
  BY <1>1, <1>2, <1>4, <1>5

(* The wait of a shutdown that begins without entries in LOGIN ends when   *)
(* its batch is gone: what stays is KickNum + 1 less than was there.       *)
THEOREM BatchesSuffice == Spec => BatchSuffices
<1>1. Inv /\ [Next]_vars => [\A t \in Tasks :
         (/\ pc[t] = "idle" /\ pc'[t] = "wait"
          /\ \A p \in Players : Status(p) # "LOGIN") => EnoughLeaving(t)']_vars
  <2> SUFFICES ASSUME Inv, [Next]_vars, NEW t \in Tasks,
                      pc[t] = "idle", pc'[t] = "wait",
                      \A p \in Players : Status(p) # "LOGIN"
               PROVE  EnoughLeaving(t)'
    OBVIOUS
  <2>1. Shutdown(t)
    BY WaitBegins DEF Inv
  <2>2. PICK S \in Batches :
          /\ obj' = Leaving({players[p] : p \in {q \in S : MayKick(q)}})
          /\ cnt' = [cnt EXCEPT ![t] = Count] /\ players' = players
    BY <2>1 DEF Shutdown
  <2>3. S \in SUBSET Online /\ IsFiniteSet(Online)
    BY PlayersAssumption, FS_Subset DEF Batches, Online
  <2>4. \A p \in S : Status(p)' = "LOGOUT"
    BY <2>2, <2>3, BatchLeaves
  <2>5. Online' = Online /\ cnt'[t] = Cardinality(Online)
    BY <2>2 DEF Online, Count, Inv, TypeOK
  <2>6. PICK U : U = {p \in Online : Status(p)' # "LOGOUT"}
    OBVIOUS
  <2>7. U \subseteq Online \ S
    BY <2>4, <2>6
  <2>8. CASE S = Online
    BY <2>5, <2>6, <2>7, <2>8 DEF EnoughLeaving
  <2>9. CASE Cardinality(S) = BatchSize
    <3>1. /\ Cardinality(Online) \in Nat /\ Cardinality(S) \in Nat /\ Cardinality(U) \in Nat
          /\ Cardinality(U) + Cardinality(S) <= Cardinality(Online)
      BY <2>3, <2>7, LeftOver
    <3>2. Cardinality(U) + KickNum <= cnt'[t]
      BY <2>5, <2>9, <3>1, KickNumAssumption DEF BatchSize
    <3> QED
      BY <2>5, <2>6, <3>2 DEF EnoughLeaving
  <2> QED
    BY <2>2, <2>8, <2>9 DEF Batches
<1> QED
  BY <1>1, Invariance, PTL DEF Spec, BatchSuffices

=============================================================================
