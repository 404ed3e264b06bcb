---------------------------- MODULE SceneProofs -----------------------------
(***************************************************************************)
(* Proofs that the ball scenes keep every safety invariant of Scene for    *)
(* any players, agents, scenes and calls: the types, KnownBall,            *)
(* ActsOnOwnBall, Synced and FoodCounted.                                  *)
(*                                                                         *)
(* What makes s.sname and the balls agree is the order of the calls in the *)
(* mailbox of a scene: an agent that has gone sends no more, so its calls  *)
(* are before those of the next agent of its player, and the calls of      *)
(* enter an agent has sent before it leaves a scene are before the leave.  *)
(* Inv says this of the calls that are out, and what is known of an enter  *)
(* between its being granted and its agent being told.                     *)
(***************************************************************************)
EXTENDS SceneHistory, TLAPS, FiniteSetTheorems, SequenceTheorems

(* Whether a call is in a mailbox, and before which other one.             *)
In(q, t) == \E i \in DOMAIN q : q[i] = t
Before(q, t, u) == \E i, j \in DOMAIN q : i < j /\ q[i] = t /\ q[j] = u

Of(t) == task[t].agent
At(t) == task[t].scene
SamePlayer(t, u) == id[Of(t)] = id[Of(u)]

(* The enter that a scene has granted and its agent does not yet know of.  *)
Grant(t) == task[t].kind = "enter" /\ task[t].answer = "true" /\ Alive(Of(t))

Born == \A a \in Agents : /\ id[a] = Nil <=> status[a] = "none"
                          /\ status[a] = "none" => sname[a] = Nil

OneServes == \A a, b \in Agents :
    a # b /\ id[a] = id[b] /\ id[a] # Nil => status[a] = "gone" \/ status[b] = "gone"

Made == \A s \in Scenes, p \in Players : balls[s][p] # Nil => id[balls[s][p]] = p

Asked == \A t \in Tasks :
    /\ task[t].kind = "none" => task[t] = NoTask
    /\ task[t].kind # "none" => /\ Of(t) \in Agents /\ At(t) \in Scenes
                                /\ status[Of(t)] # "none"

Boxed == \A s \in Scenes, t \in Tasks :
    /\ In(mailbox[s], t) <=> /\ task[t].kind # "none" /\ task[t].answer = "none"
                             /\ At(t) = s
    /\ ~Before(mailbox[s], t, t)

Earlier == \A s \in Scenes, t, u \in Tasks :
    Before(mailbox[s], t, u) /\ SamePlayer(t, u) /\ Of(t) # Of(u) => status[Of(t)] = "gone"

OwnBall == \A s \in Scenes, t \in Tasks :
    In(mailbox[s], t) /\ task[t].kind \in {"shift", "leave"} =>
        balls[s][id[Of(t)]] \in {Of(t), Nil}

OwnTurn == \A s \in Scenes, t, u \in Tasks :
    Before(mailbox[s], u, t) /\ task[t].kind \in {"shift", "leave"} /\ SamePlayer(t, u) =>
        Of(u) = Of(t)

Granted == \A t \in Tasks :
    Grant(t) => balls[At(t)][id[Of(t)]] = Of(t) /\ sname[Of(t)] # At(t)

OneGrant == \A t, u \in Tasks :
    Grant(t) /\ Grant(u) /\ Of(t) = Of(u) /\ At(t) = At(u) => t = u

GrantedLast == \A t, u \in Tasks :
    Grant(t) /\ In(mailbox[At(t)], u) /\ SamePlayer(t, u) => Of(u) = Of(t)

Settled == \A a \in Agents :
    Alive(a) /\ sname[a] # Nil =>
        /\ balls[sname[a]][id[a]] \in {a, Nil}
        /\ \A u \in Tasks : In(mailbox[sname[a]], u) /\ id[Of(u)] = id[a] => Of(u) = a

Known == \A a \in Agents :
    /\ Alive(a) /\ sname[a] # Nil
    /\ \A t \in Tasks : task[t].kind = "leave" /\ Of(t) = a => At(t) # sname[a]
    => balls[sname[a]][id[a]] = a

Leaving == \A t \in Tasks :
    task[t].kind = "leave" =>
        /\ status[Of(t)] = "leaving" /\ sname[Of(t)] # Nil
        /\ task[t].answer = "none" => balls[At(t)][id[Of(t)]] = Of(t)

OneLeave == \A t, u \in Tasks :
    task[t].kind = "leave" /\ task[u].kind = "leave" /\ Of(t) = Of(u) => t = u

LeftLast == \A t, u \in Tasks :
    task[t].kind = "leave" /\ task[u].kind = "enter" /\ Of(t) = Of(u) /\ At(t) = At(u) =>
        /\ task[u].answer # "true"
        /\ task[u].answer = "none" => Before(mailbox[At(t)], u, t)

Foods == \A s \in Scenes : foods[s] \subseteq 1..food_maxid[s]

Inv == /\ TypeOK /\ Born /\ OneServes /\ Made /\ Asked /\ Boxed /\ Earlier
       /\ OwnBall /\ OwnTurn /\ Granted /\ OneGrant /\ GrantedLast /\ Settled
       /\ Known /\ Leaving /\ OneLeave /\ LeftLast /\ Foods /\ Synced /\ FoodCounted

-----------------------------------------------------------------------------
(* What Append and Tail do to who is in a mailbox, and before whom.        *)
LEMMA Appended ==
    ASSUME NEW S, NEW q \in Seq(S), NEW e \in S
    PROVE  /\ Append(q, e) \in Seq(S)
           /\ \A x : In(Append(q, e), x) <=> In(q, x) \/ x = e
           /\ \A x, y : Before(Append(q, e), x, y) <=>
                           Before(q, x, y) \/ (In(q, x) /\ y = e)
  <1> DEFINE r == Append(q, e)
  <1>1. /\ Len(q) \in Nat /\ DOMAIN q = 1..Len(q)
        /\ r \in Seq(S) /\ Len(r) = Len(q) + 1 /\ DOMAIN r = 1..(Len(q) + 1)
        /\ \A i \in 1..Len(q) : r[i] = q[i]
        /\ r[Len(q) + 1] = e
    BY AppendProperties
  <1> HIDE DEF r
  <1>2. DOMAIN r = DOMAIN q \cup {Len(q) + 1}
    BY <1>1
  <1>3. \A x : In(r, x) <=> In(q, x) \/ x = e
    BY <1>1, <1>2 DEF In
  <1>4. \A i, j \in DOMAIN r :
           i < j <=> \/ i \in DOMAIN q /\ j \in DOMAIN q /\ i < j
                     \/ i \in DOMAIN q /\ j = Len(q) + 1
    BY <1>1
  <1>5. ASSUME NEW x, NEW y
        PROVE  Before(r, x, y) <=> Before(q, x, y) \/ (In(q, x) /\ y = e)
    <2>1. ASSUME Before(r, x, y)
          PROVE  Before(q, x, y) \/ (In(q, x) /\ y = e)
      <3>1. PICK i \in DOMAIN r, j \in DOMAIN r : i < j /\ r[i] = x /\ r[j] = y
        BY <2>1 DEF Before
      <3> QED
        BY <3>1, <1>1, <1>4 DEF Before, In
    <2>2. ASSUME Before(q, x, y)
          PROVE  Before(r, x, y)
      <3>1. PICK i \in DOMAIN q, j \in DOMAIN q : i < j /\ q[i] = x /\ q[j] = y
        BY <2>2 DEF Before
      <3>2. i \in DOMAIN r /\ j \in DOMAIN r /\ r[i] = x /\ r[j] = y
        BY <3>1, <1>1, <1>2
      <3> QED
        BY <3>1, <3>2 DEF Before
    <2>3. ASSUME In(q, x), y = e
          PROVE  Before(r, x, y)
      <3>1. PICK i \in DOMAIN q : q[i] = x
        BY <2>3 DEF In
      <3>2. /\ i \in DOMAIN r /\ Len(q) + 1 \in DOMAIN r /\ i < Len(q) + 1
            /\ r[i] = x /\ r[Len(q) + 1] = y
        BY <3>1, <2>3, <1>1
      <3> QED
        BY <3>2 DEF Before
    <2> QED
      BY <2>1, <2>2, <2>3
  <1> QED
    BY <1>1, <1>3, <1>5 DEF r

(* What Tail leaves of a mailbox in which no call is twice: the first call *)
(* was before all others, and they keep their order.                       *)
LEMMA Tailed ==
    ASSUME NEW S, NEW q \in Seq(S), q # <<>>, \A x \in S : ~Before(q, x, x)
    PROVE  /\ Head(q) \in S /\ In(q, Head(q)) /\ Tail(q) \in Seq(S)
           /\ \A x \in S : In(Tail(q), x) <=> In(q, x) /\ x # Head(q)
           /\ \A x, y \in S : Before(Tail(q), x, y) <=> Before(q, x, y) /\ x # Head(q)
           /\ \A x \in S : /\ ~Before(q, x, Head(q))
                           /\ In(q, x) /\ x # Head(q) => Before(q, Head(q), x)
  <1> DEFINE t == Tail(q)
             h == Head(q)
  <1>1. /\ Len(q) \in Nat /\ Len(q) >= 1 /\ DOMAIN q = 1..Len(q)
        /\ h = q[1] /\ h \in S /\ t \in Seq(S)
        /\ DOMAIN t = 1..(Len(q) - 1) /\ \A i \in DOMAIN t : t[i] = q[i + 1]
        /\ \A i \in DOMAIN q : q[i] \in S
    BY HeadTailProperties
  <1> HIDE DEF t, h
  <1>2. \A i \in DOMAIN t : i + 1 \in DOMAIN q
    BY <1>1
  <1>3. \A i \in DOMAIN q : i # 1 => i - 1 \in DOMAIN t /\ t[i - 1] = q[i]
    <2> SUFFICES ASSUME NEW i \in DOMAIN q, i # 1
                 PROVE  i - 1 \in DOMAIN t /\ t[i - 1] = q[i]
      OBVIOUS
    <2>1. i - 1 \in DOMAIN t /\ (i - 1) + 1 = i
      BY <1>1
    <2> QED
      BY <2>1, <1>1
  <1>4. \A i \in DOMAIN q : i # 1 => q[i] # h
    BY <1>1 DEF Before
  <1>5. \A x \in S : In(t, x) <=> In(q, x) /\ x # h
    <2> SUFFICES ASSUME NEW x \in S
                 PROVE  In(t, x) <=> In(q, x) /\ x # h
      OBVIOUS
    <2>1. ASSUME In(t, x)
          PROVE  In(q, x) /\ x # h
      <3>1. PICK i \in DOMAIN t : t[i] = x
        BY <2>1 DEF In
      <3>2. i + 1 \in DOMAIN q /\ i + 1 # 1 /\ q[i + 1] = x
        BY <3>1, <1>1, <1>2
      <3> QED
        BY <3>2, <1>4 DEF In
    <2>2. ASSUME In(q, x), x # h
          PROVE  In(t, x)
      BY <2>2, <1>1, <1>3 DEF In
    <2> QED
      BY <2>1, <2>2
  <1>6. \A x, y \in S : Before(t, x, y) <=> Before(q, x, y) /\ x # h
    <2> SUFFICES ASSUME NEW x \in S, NEW y \in S
                 PROVE  Before(t, x, y) <=> Before(q, x, y) /\ x # h
      OBVIOUS
    <2>1. ASSUME Before(t, x, y)
          PROVE  Before(q, x, y) /\ x # h
      <3>1. PICK i \in DOMAIN t, j \in DOMAIN t : i < j /\ t[i] = x /\ t[j] = y
        BY <2>1 DEF Before
      <3>2. /\ i + 1 \in DOMAIN q /\ j + 1 \in DOMAIN q /\ i + 1 < j + 1 /\ i + 1 # 1
            /\ q[i + 1] = x /\ q[j + 1] = y
        BY <3>1, <1>1, <1>2
      <3> QED
        BY <3>2, <1>4 DEF Before
    <2>2. ASSUME Before(q, x, y), x # h
          PROVE  Before(t, x, y)
      <3>1. PICK i \in DOMAIN q, j \in DOMAIN q : i < j /\ q[i] = x /\ q[j] = y
        BY <2>2 DEF Before
      <3>2. i # 1 /\ j # 1
        BY <3>1, <2>2, <1>1
      <3>3. /\ i - 1 \in DOMAIN t /\ j - 1 \in DOMAIN t /\ i - 1 < j - 1
            /\ t[i - 1] = x /\ t[j - 1] = y
        BY <3>1, <3>2, <1>1, <1>3
      <3> QED
        BY <3>3 DEF Before
    <2> QED
      BY <2>1, <2>2
  <1>7. \A x \in S : ~Before(q, x, h)
    BY <1>1, <1>4 DEF Before
  <1>8. \A x \in S : In(q, x) /\ x # h => Before(q, h, x)
    BY <1>1 DEF In, Before
  <1>9. In(q, h)
    BY <1>1 DEF In
  <1> QED
    BY <1>1, <1>5, <1>6, <1>7, <1>8, <1>9 DEF t, h

(* A call that is before another is in the mailbox, and so is the other.   *)
LEMMA BeforeIn ==
    ASSUME NEW q, NEW t, NEW u, Before(q, t, u)
    PROVE  In(q, t) /\ In(q, u)
  BY DEF Before, In

(* The types of what an agent asks for.                                    *)
LEMMA TaskTypes ==
    ASSUME TypeOK, NEW t \in Tasks
    PROVE  /\ Of(t) \in Agents \cup {Nil} /\ At(t) \in Scenes \cup {Nil}
           /\ task[t].kind \in {"none", "enter", "shift", "leave"}
           /\ task[t].answer \in {"none", "true", "false", "nil"}
  <1>1. task[t] \in Request
    BY DEF TypeOK
  <1> QED
    BY <1>1 DEF Request, Of, At

-----------------------------------------------------------------------------
(* The steps of agents.                                                    *)

(* A call of agent a for scene s, which is the scene it believes to be in  *)
(* unless it enters one: the other calls for s of agents of its player     *)
(* are its own or those of agents that have gone.                          *)
LEMMA CallStep ==
    ASSUME Inv, NEW t \in Tasks, NEW a \in Agents, NEW s \in Scenes,
           NEW kind \in {"enter", "shift", "leave"},
           Alive(a), Call(t, a, s, kind),
           IF kind = "enter" THEN sname[a] = Nil ELSE sname[a] = s,
           IF kind = "leave" THEN status[a] = "up" /\ status' = [status EXCEPT ![a] = "leaving"]
                             ELSE status' = status
    PROVE  Inv'
  <1> DEFINE call == [kind |-> kind, agent |-> a, scene |-> s, answer |-> "none"]
  <1>1. /\ task[t] = NoTask /\ task' = [task EXCEPT ![t] = call]
        /\ mailbox' = [mailbox EXCEPT ![s] = Append(mailbox[s], t)]
        /\ UNCHANGED <<id, sname, balls, foods, food_count, food_maxid, view>>
    BY DEF Call, foodVars
  <1>2. /\ task[t].kind = "none" /\ task[t].answer = "none"
        /\ \A u \in Tasks \ {t} : task'[u] = task[u]
        /\ task'[t].kind = kind /\ task'[t].agent = a /\ task'[t].scene = s
        /\ task'[t].answer = "none"
        /\ task' \in [Tasks -> Request]
    <2>1. task \in [Tasks -> Request]
      BY DEF Inv, TypeOK
    <2>2. call \in Request
      BY DEF Request
    <2> QED
      BY <1>1, <2>1, <2>2 DEF NoTask
  <1>3. /\ mailbox' \in [Scenes -> Seq(Tasks)]
        /\ \A r \in Scenes, x \in Tasks :
              In(mailbox'[r], x) <=> In(mailbox[r], x) \/ (r = s /\ x = t)
        /\ \A r \in Scenes, x, y \in Tasks :
              Before(mailbox'[r], x, y) <=>
                 Before(mailbox[r], x, y) \/ (r = s /\ In(mailbox[s], x) /\ y = t)
    <2>1. mailbox \in [Scenes -> Seq(Tasks)] /\ mailbox[s] \in Seq(Tasks)
      BY DEF Inv, TypeOK
    <2>2. /\ Append(mailbox[s], t) \in Seq(Tasks)
          /\ \A x : In(Append(mailbox[s], t), x) <=> In(mailbox[s], x) \/ x = t
          /\ \A x, y : Before(Append(mailbox[s], t), x, y) <=>
                          Before(mailbox[s], x, y) \/ (In(mailbox[s], x) /\ y = t)
      BY <2>1, Appended
    <2>3. mailbox'[s] = Append(mailbox[s], t) /\ \A r \in Scenes \ {s} : mailbox'[r] = mailbox[r]
      BY <2>1, <1>1
    <2> QED
      BY <2>1, <2>2, <2>3, <1>1
  <1>4. /\ status' \in [Agents -> {"none", "up", "leaving", "sleeping", "kicked", "gone"}]
        /\ \A b \in Agents \ {a} : status'[b] = status[b]
        /\ status'[a] = IF kind = "leave" THEN "leaving" ELSE status[a]
        /\ \A b \in Agents : Alive(b)' <=> Alive(b)
        /\ \A b \in Agents : status'[b] = "gone" <=> status[b] = "gone"
        /\ \A b \in Agents : status'[b] = "none" <=> status[b] = "none"
    BY DEF Inv, TypeOK, Alive
  <1>5. \A r \in Scenes, x \in Tasks :
           /\ ~In(mailbox[r], t) /\ ~Before(mailbox[r], x, t) /\ ~Before(mailbox[r], t, x)
    BY <1>2, BeforeIn DEF Inv, Boxed
  <1>6. \A u \in Tasks, r \in Scenes : In(mailbox[r], u) =>
           /\ u # t /\ Of(u) \in Agents /\ status[Of(u)] # "none"
           /\ Of(u)' = Of(u) /\ At(u)' = At(u) /\ At(u) = r
    BY <1>2, <1>5 DEF Inv, Boxed, Asked, Of, At
  <1>7. id[a] # Nil /\ status[a] # "none" /\ status[a] # "gone" /\ s # Nil
    BY NilAssumption DEF Inv, Born, Alive
  <1>8. \A b \in Agents : id[b] = id[a] /\ b # a => status[b] = "gone"
    BY <1>7 DEF Inv, OneServes
  <1>9. TypeOK'
    BY <1>1, <1>2, <1>3, <1>4 DEF Inv, TypeOK
  <1>10. Born' /\ OneServes' /\ Made'
    BY <1>1, <1>4 DEF Inv, Born, OneServes, Made
  <1>11. Asked'
    BY <1>2, <1>4, <1>7 DEF Inv, Asked, Of, At
  <1>12. Boxed'
    BY <1>2, <1>3, <1>5 DEF Inv, Boxed, At
  <1>13. Earlier'
    <2> SUFFICES ASSUME NEW r \in Scenes, NEW x \in Tasks, NEW y \in Tasks,
                        Before(mailbox'[r], x, y), SamePlayer(x, y)', Of(x)' # Of(y)'
                 PROVE  status'[Of(x)'] = "gone"
      BY DEF Earlier
    <2>1. CASE Before(mailbox[r], x, y)
      BY <2>1, <1>1, <1>4, <1>6, BeforeIn DEF Inv, Earlier, SamePlayer
    <2>2. CASE r = s /\ In(mailbox[s], x) /\ y = t
      BY <2>2, <1>1, <1>2, <1>4, <1>6, <1>8 DEF SamePlayer, Of
    <2> QED
      BY <2>1, <2>2, <1>3
  <1>14. OwnBall'
    <2>1. kind # "enter" => balls[s][id[a]] \in {a, Nil}
      BY <1>7 DEF Inv, Settled
    <2> QED
      BY <2>1, <1>1, <1>2, <1>3, <1>6 DEF Inv, OwnBall, Of
  <1>15. OwnTurn'
    <2> SUFFICES ASSUME NEW r \in Scenes, NEW x \in Tasks, NEW y \in Tasks,
                        Before(mailbox'[r], y, x), SamePlayer(x, y)',
                        task'[x].kind \in {"shift", "leave"}
                 PROVE  Of(y)' = Of(x)'
      BY DEF OwnTurn
    <2>1. CASE Before(mailbox[r], y, x)
      BY <2>1, <1>1, <1>2, <1>6, BeforeIn DEF Inv, OwnTurn, SamePlayer
    <2>2. CASE r = s /\ In(mailbox[s], y) /\ x = t
      <3>1. /\ task[y].agent = Of(y) /\ Of(y)' = Of(y) /\ Of(x)' = a
            /\ id[Of(y)] = id[a] /\ sname[a] = s
        BY <2>2, <1>1, <1>2, <1>6 DEF SamePlayer, Of
      <3> QED
        BY <3>1, <2>2, <1>7 DEF Inv, Settled
    <2> QED
      BY <2>1, <2>2, <1>3
  <1>16. \A u \in Tasks : Grant(u)' => u # t /\ Grant(u) /\ Of(u) \in Agents /\ At(u) \in Scenes
                                       /\ Of(u)' = Of(u) /\ At(u)' = At(u)
    BY <1>2, <1>4 DEF Inv, Asked, Grant, Of, At
  <1>17. Granted' /\ OneGrant'
    BY <1>1, <1>16 DEF Inv, Granted, OneGrant
  <1>18. GrantedLast'
    <2> SUFFICES ASSUME NEW x \in Tasks, NEW y \in Tasks, Grant(x)',
                        In(mailbox'[At(x)'], y), SamePlayer(x, y)'
                 PROVE  Of(y)' = Of(x)'
      BY DEF GrantedLast
    <2>1. CASE In(mailbox[At(x)], y)
      BY <2>1, <1>1, <1>6, <1>16 DEF Inv, GrantedLast, SamePlayer
    <2>2. CASE y = t
      BY <2>2, <1>1, <1>2, <1>8, <1>16 DEF SamePlayer, Grant, Alive, Of
    <2> QED
      BY <2>1, <2>2, <1>3, <1>16
  <1>19. Settled'
    <2> SUFFICES ASSUME NEW b \in Agents, Alive(b)', sname'[b] # Nil
                 PROVE  /\ balls'[sname'[b]][id'[b]] \in {b, Nil}
                        /\ \A u \in Tasks : In(mailbox'[sname'[b]], u) /\ id'[Of(u)'] = id'[b]
                                               => Of(u)' = b
      BY DEF Settled
    <2>1. sname[b] \in Scenes /\ Alive(b) /\ sname[b] # Nil
      BY <1>1, <1>4 DEF Inv, TypeOK
    <2>2. balls[sname[b]][id[b]] \in {b, Nil}
      BY <2>1 DEF Inv, Settled
    <2>3. ASSUME NEW u \in Tasks, In(mailbox'[sname[b]], u), id[Of(u)'] = id[b]
          PROVE  Of(u)' = b
      <3>1. CASE In(mailbox[sname[b]], u)
        BY <3>1, <2>1, <2>3, <1>6 DEF Inv, Settled
      <3>2. CASE u = t
        BY <3>2, <2>1, <2>3, <1>2, <1>8 DEF Alive, Of
      <3> QED
        BY <3>1, <3>2, <2>1, <2>3, <1>3
    <2> QED
      BY <1>1, <2>2, <2>3
  <1>20. Known'
    <2> SUFFICES ASSUME NEW b \in Agents, Alive(b)', sname'[b] # Nil,
                        \A u \in Tasks : task'[u].kind = "leave" /\ Of(u)' = b => At(u)' # sname'[b]
                 PROVE  balls'[sname'[b]][id'[b]] = b
      BY DEF Known
    <2>1. \A u \in Tasks : task[u].kind = "leave" /\ Of(u) = b => At(u) # sname[b]
      BY <1>1, <1>2 DEF Of, At
    <2> QED
      BY <2>1, <1>1, <1>4 DEF Inv, Known
  <1>21. kind = "leave" => \A u \in Tasks : task[u].kind = "leave" => Of(u) # a
    BY DEF Inv, Leaving
  <1>22. Leaving'
    <2>1. kind = "leave" => balls[s][id[a]] = a
      BY <1>7, <1>21 DEF Inv, Known
    <2> SUFFICES ASSUME NEW u \in Tasks, task'[u].kind = "leave"
                 PROVE  /\ status'[Of(u)'] = "leaving" /\ sname'[Of(u)'] # Nil
                        /\ task'[u].answer = "none" => balls'[At(u)'][id'[Of(u)']] = Of(u)'
      BY DEF Leaving
    <2>2. CASE u = t
      BY <2>1, <2>2, <1>1, <1>2, <1>4, <1>7 DEF Of, At
    <2>3. CASE u # t
      <3>1. Of(u) \in Agents /\ status[Of(u)] = "leaving" /\ Of(u)' = Of(u) /\ At(u)' = At(u)
        BY <2>3, <1>2 DEF Inv, Asked, Leaving, Of, At
      <3> QED
        BY <3>1, <2>3, <1>1, <1>2, <1>4 DEF Inv, Leaving
    <2> QED
      BY <2>2, <2>3
  <1>23. OneLeave'
    BY <1>2, <1>21 DEF Inv, OneLeave, Of
  <1>24. LeftLast'
    <2> SUFFICES ASSUME NEW x \in Tasks, NEW y \in Tasks, task'[x].kind = "leave",
                        task'[y].kind = "enter", Of(x)' = Of(y)', At(x)' = At(y)'
                 PROVE  /\ task'[y].answer # "true"
                        /\ task'[y].answer = "none" => Before(mailbox'[At(x)'], y, x)
      BY DEF LeftLast
    <2>1. CASE x # t /\ y # t
      <3>1. At(x) \in Scenes
        BY <2>1, <1>2 DEF Inv, Asked
      <3> QED
        BY <2>1, <3>1, <1>2, <1>3 DEF Inv, LeftLast, Of, At
    <2>2. CASE x = t
      <3>1. kind = "leave" /\ y # t /\ Of(y) = a /\ At(y) = s /\ task[y].kind = "enter"
        BY <2>2, <1>2 DEF Of, At
      <3>2. task[y].answer # "true"
        BY <3>1 DEF Inv, Granted, Grant
      <3>3. task[y].answer = "none" => In(mailbox[s], y)
        BY <3>1 DEF Inv, Boxed
      <3> QED
        BY <2>2, <3>1, <3>2, <3>3, <1>2, <1>3 DEF At
    <2>3. CASE y = t /\ x # t
      <3>1. kind = "enter" /\ task[x].kind = "leave" /\ Of(x) = a
        BY <2>3, <1>2 DEF Of
      <3> QED
        BY <3>1 DEF Inv, Leaving
    <2> QED
      BY <2>1, <2>2, <2>3
  <1>25. Foods' /\ FoodCounted'
    BY <1>1 DEF Inv, Foods, FoodCounted
  <1>26. Synced'
    BY <1>1 DEF Inv, Synced, Members
  <1> QED
    BY <1>9, <1>10, <1>11, <1>12, <1>13, <1>14, <1>15, <1>17, <1>18, <1>19, <1>20,
       <1>22, <1>23, <1>24, <1>25, <1>26 DEF Inv

(* An agent asks a scene to let it in (client.enter_scene).                *)
LEMMA EnterStep ==
    ASSUME Inv, NEW t \in Tasks, NEW a \in Agents, NEW s \in Scenes, Enter(t, a, s)
    PROVE  Inv'
  BY CallStep DEF Enter

(* An agent passes on a shift of its client to the scene it is in.         *)
LEMMA ShiftStep ==
    ASSUME Inv, NEW t \in Tasks, NEW a \in Agents, Shift(t, a)
    PROVE  Inv'
  <1>1. sname[a] \in Scenes
    BY DEF Inv, TypeOK, Shift
  <1> QED
    BY <1>1, CallStep DEF Shift

(* agentmgr kicks an agent that is in a scene: it asks to leave it.        *)
LEMMA KickStep ==
    ASSUME Inv, NEW t \in Tasks, NEW a \in Agents, Kick(t, a)
    PROVE  Inv'
  <1>1. sname[a] \in Scenes
    BY DEF Inv, TypeOK, Kick
  <1>2. Alive(a)
    BY DEF Kick, Alive
  <1> QED
    BY <1>1, <1>2, CallStep DEF Kick

(* A started agent has no ball, call or scene yet, and those that served   *)
(* its player before it have gone.                                         *)
LEMMA StartStep ==
    ASSUME Inv, NEW a \in Agents, NEW p \in Players, Start(a, p)
    PROVE  Inv'
  <1>1. /\ status[a] = "none" /\ id[a] = Nil /\ sname[a] = Nil
        /\ \A b \in Agents : id[b] = p => status[b] = "gone"
        /\ id' \in [Agents -> Players \cup {Nil}] /\ id'[a] = p /\ p # Nil
        /\ \A b \in Agents \ {a} : id'[b] = id[b] /\ status'[b] = status[b]
        /\ status' \in [Agents -> {"none", "up", "leaving", "sleeping", "kicked", "gone"}]
        /\ status'[a] = "up"
        /\ UNCHANGED <<sname, task, mailbox, balls, foods, food_count, food_maxid, view>>
    BY NilAssumption DEF Inv, TypeOK, Born, Start, foodVars
  <1>2. \A t \in Tasks : task[t].kind # "none" =>
           /\ Of(t) \in Agents \ {a} /\ At(t) \in Scenes
           /\ id'[Of(t)] = id[Of(t)] /\ status'[Of(t)] = status[Of(t)]
    BY <1>1 DEF Inv, Asked
  <1>3. \A t \in Tasks : Of(t)' = Of(t) /\ At(t)' = At(t)
    BY <1>1 DEF Of, At
  <1>4. \A s \in Scenes, t \in Tasks : In(mailbox[s], t) => task[t].kind # "none" /\ At(t) = s
    BY DEF Inv, Boxed
  <1>5. TypeOK'
    BY <1>1 DEF Inv, TypeOK
  <1>6. Born'
    BY <1>1 DEF Inv, Born
  <1>7. OneServes'
    BY <1>1 DEF Inv, OneServes
  <1>8. Made'
    <2> SUFFICES ASSUME NEW s \in Scenes, NEW q \in Players, balls[s][q] # Nil
                 PROVE  id'[balls[s][q]] = q
      BY <1>1 DEF Made
    <2>1. balls[s][q] \in Agents /\ id[balls[s][q]] = q /\ q # Nil
      BY NilAssumption DEF Inv, TypeOK, Made
    <2> QED
      BY <2>1, <1>1
  <1>9. Asked'
    BY <1>1, <1>2, <1>3 DEF Inv, Asked
  <1>10. Boxed'
    BY <1>1, <1>3 DEF Inv, Boxed
  <1>11. Earlier'
    BY <1>1, <1>2, <1>3, <1>4, BeforeIn DEF Inv, Earlier, SamePlayer
  <1>12. OwnBall' /\ OwnTurn'
    BY <1>1, <1>2, <1>3, <1>4, BeforeIn DEF Inv, OwnBall, OwnTurn, SamePlayer
  <1>13. \A t \in Tasks : Grant(t)' => Grant(t) /\ task[t].kind # "none"
    BY <1>1, <1>2, <1>3 DEF Grant, Alive
  <1>14. Granted' /\ OneGrant'
    BY <1>1, <1>2, <1>3, <1>13 DEF Inv, Granted, OneGrant
  <1>15. GrantedLast'
    BY <1>1, <1>2, <1>3, <1>4, <1>13 DEF Inv, GrantedLast, SamePlayer
  <1>16. \A b \in Agents : Alive(b)' /\ sname'[b] # Nil =>
            b # a /\ Alive(b) /\ sname[b] \in Scenes /\ id'[b] = id[b]
    BY <1>1 DEF Inv, TypeOK, Alive
  <1>17. Settled'
    BY <1>1, <1>2, <1>3, <1>4, <1>16 DEF Inv, Settled
  <1>18. Known'
    BY <1>1, <1>3, <1>16 DEF Inv, Known
  <1>19. Leaving' /\ OneLeave' /\ LeftLast'
    BY <1>1, <1>2, <1>3 DEF Inv, Leaving, OneLeave, LeftLast
  <1>20. Foods' /\ FoodCounted'
    BY <1>1 DEF Inv, Foods, FoodCounted
  <1>21. Synced'
    BY <1>1 DEF Inv, Synced, Members
  <1> QED
    BY <1>5, <1>6, <1>7, <1>8, <1>9, <1>10, <1>11, <1>12, <1>14, <1>15, <1>17, <1>18,
       <1>19, <1>20, <1>21 DEF Inv

(* An agent that is not waiting for a leave comes nearer to its end.       *)
LEMMA EndingStep ==
    ASSUME Inv, NEW a \in Agents, NEW st \in {"sleeping", "kicked", "gone"},
           Alive(a), status[a] # "leaving", status' = [status EXCEPT ![a] = st],
           UNCHANGED <<id, sname, task, mailbox, balls, foodVars, view>>
    PROVE  Inv'
  <1>1. /\ \A b \in Agents \ {a} : status'[b] = status[b]
        /\ status' \in [Agents -> {"none", "up", "leaving", "sleeping", "kicked", "gone"}]
        /\ status'[a] = st /\ status[a] \notin {"none", "gone", "leaving"}
        /\ UNCHANGED <<id, sname, task, mailbox, balls, foods, food_count, food_maxid, view>>
    BY DEF Inv, TypeOK, Alive, foodVars
  <1>2. \A t \in Tasks : /\ Of(t)' = Of(t) /\ At(t)' = At(t)
                         /\ task[t].kind # "none" => Of(t) \in Agents
    BY <1>1 DEF Of, At, Inv, Asked
  <1>3. \A b \in Agents : /\ status[b] = "gone" => status'[b] = "gone"
                          /\ Alive(b)' => Alive(b)
                          /\ status'[b] = "none" <=> status[b] = "none"
                          /\ status[b] = "leaving" => status'[b] = "leaving"
    BY <1>1 DEF Alive
  <1>4. \A t \in Tasks : Grant(t)' => Grant(t)
    BY <1>1, <1>2, <1>3 DEF Grant
  <1>5. \A s \in Scenes, t \in Tasks : In(mailbox[s], t) => task[t].kind # "none"
    BY DEF Inv, Boxed
  <1>6. TypeOK'
    BY <1>1 DEF Inv, TypeOK
  <1>7. Born' /\ OneServes' /\ Made'
    BY <1>1, <1>3 DEF Inv, Born, OneServes, Made
  <1>8. Asked' /\ Boxed'
    BY <1>1, <1>2, <1>3 DEF Inv, Asked, Boxed
  <1>9. Earlier'
    BY <1>1, <1>2, <1>3, <1>5, BeforeIn DEF Inv, Earlier, SamePlayer
  <1>10. OwnBall' /\ OwnTurn'
    BY <1>1, <1>2 DEF Inv, OwnBall, OwnTurn, SamePlayer
  <1>11. Granted' /\ OneGrant' /\ GrantedLast'
    BY <1>1, <1>2, <1>4 DEF Inv, Granted, OneGrant, GrantedLast, SamePlayer
  <1>12. Settled' /\ Known'
    BY <1>1, <1>2, <1>3 DEF Inv, Settled, Known
  <1>13. Leaving' /\ OneLeave' /\ LeftLast'
    BY <1>1, <1>2, <1>3 DEF Inv, Leaving, OneLeave, LeftLast
  <1>14. Foods' /\ FoodCounted'
    BY <1>1 DEF Inv, Foods, FoodCounted
  <1>15. Synced'
    BY <1>1 DEF Inv, Synced, Members
  <1> QED
    BY <1>6, <1>7, <1>8, <1>9, <1>10, <1>11, <1>12, <1>13, <1>14, <1>15 DEF Inv

(* An agent is kicked outside of scenes, its two seconds end, or it exits. *)
LEMMA EndingSteps ==
    ASSUME Inv, NEW a \in Agents, KickOutside(a) \/ KickAnswered(a) \/ Exit(a)
    PROVE  Inv'
  <1>1. CASE KickOutside(a)
    BY <1>1, EndingStep DEF KickOutside, Alive
  <1>2. CASE KickAnswered(a)
    BY <1>2, EndingStep DEF KickAnswered, Alive
  <1>3. CASE Exit(a)
    BY <1>3, EndingStep DEF Exit, Alive
  <1> QED
    BY <1>1, <1>2, <1>3

(* A coroutine of an agent goes on with the answer of a scene: it stores   *)
(* the scene that granted its enter, or forgets the one it has left.       *)
LEMMA ResumeStep ==
    ASSUME Inv, NEW t \in Tasks, Resume(t)
    PROVE  Inv'
  <1> DEFINE a == Of(t)
             s == At(t)
             Stored == /\ Grant(t)
                       /\ sname' = [sname EXCEPT ![a] = s] /\ status' = status
             Forgotten == /\ task[t].kind = "leave"
                          /\ sname' = [sname EXCEPT ![a] = Nil]
                          /\ status' = [status EXCEPT ![a] = "sleeping"]
             Same == task[t].kind # "leave" /\ sname' = sname /\ status' = status
  <1>1. /\ task' = [task EXCEPT ![t] = NoTask] /\ task[t].answer # "none"
        /\ UNCHANGED <<id, mailbox, balls, foods, food_count, food_maxid, view>>
    BY DEF Resume, Entered, Shifted, Left, Resumed, Dropped, agentVars, foodVars
  <1>2. task[t].kind # "none" /\ a \in Agents /\ s \in Scenes /\ s # Nil
    BY <1>1, NilAssumption DEF Inv, Asked, NoTask
  <1>3. Stored \/ Forgotten \/ Same
    <2>1. CASE Entered(t)
      BY <2>1 DEF Entered, Resumed, Grant, Of, At
    <2>2. CASE Shifted(t)
      BY <2>2 DEF Shifted, Resumed
    <2>3. CASE Left(t)
      BY <2>3 DEF Left, Resumed, Of
    <2>4. CASE Dropped(t)
      BY <2>4 DEF Dropped, agentVars, Inv, Leaving, Alive, Of
    <2> QED
      BY <2>1, <2>2, <2>3, <2>4 DEF Resume
  <1>4. /\ sname' \in [Agents -> Scenes \cup {Nil}]
        /\ status' \in [Agents -> {"none", "up", "leaving", "sleeping", "kicked", "gone"}]
        /\ \A b \in Agents \ {a} : sname'[b] = sname[b] /\ status'[b] = status[b]
    BY <1>2, <1>3 DEF Inv, TypeOK
  <1>5. \/ Grant(t) /\ sname'[a] = s /\ status'[a] = status[a] /\ task[t].kind # "leave"
        \/ task[t].kind = "leave" /\ sname'[a] = Nil /\ status[a] = "leaving"
                                  /\ status'[a] = "sleeping"
        \/ task[t].kind # "leave" /\ sname'[a] = sname[a] /\ status'[a] = status[a]
    BY <1>2, <1>3 DEF Inv, TypeOK, Leaving, Grant
  <1> HIDE DEF Stored, Forgotten, Same, a, s
  <1>6. \A b \in Agents : /\ status'[b] = "gone" <=> status[b] = "gone"
                          /\ Alive(b)' <=> Alive(b)
                          /\ status'[b] = "none" <=> status[b] = "none"
                          /\ b # a => (status'[b] = "leaving" <=> status[b] = "leaving")
    BY <1>2, <1>4, <1>5 DEF Alive
  <1>7. /\ task' \in [Tasks -> Request]
        /\ \A u \in Tasks \ {t} : task'[u] = task[u] /\ Of(u)' = Of(u) /\ At(u)' = At(u)
        /\ task'[t] = NoTask /\ task'[t].kind = "none" /\ task'[t].answer = "none"
    <2>1. task \in [Tasks -> Request] /\ NoTask \in Request
      BY DEF Inv, TypeOK, NoTask, Request
    <2> QED
      BY <2>1, <1>1 DEF NoTask, Of, At
  <1>8. \A u \in Tasks, r \in Scenes :
           In(mailbox[r], u) => u # t /\ task[u].kind # "none" /\ Of(u) \in Agents /\ Of(u)' = Of(u)
    BY <1>1, <1>7 DEF Inv, Boxed, Asked
  <1>9. \A u \in Tasks : Grant(u)' => u # t /\ Grant(u) /\ Of(u) \in Agents /\ At(u) \in Scenes
                                      /\ Of(u)' = Of(u) /\ At(u)' = At(u)
    BY <1>6, <1>7 DEF Grant, Inv, Asked
  <1>10. TypeOK'
    BY <1>1, <1>4, <1>7 DEF Inv, TypeOK
  <1>11. Born'
    <2>1. status[a] # "none"
      BY <1>2 DEF Inv, Asked, a
    <2> QED
      BY <2>1, <1>1, <1>2, <1>4, <1>6 DEF Inv, Born
  <1>12. OneServes' /\ Made'
    BY <1>1, <1>6 DEF Inv, OneServes, Made
  <1>13. Asked'
    BY <1>6, <1>7 DEF Inv, Asked
  <1>14. Boxed'
    <2> SUFFICES ASSUME NEW r \in Scenes, NEW u \in Tasks
                 PROVE  /\ In(mailbox[r], u) <=> /\ task'[u].kind # "none"
                                                 /\ task'[u].answer = "none" /\ At(u)' = r
                        /\ ~Before(mailbox[r], u, u)
      BY <1>1 DEF Boxed
    <2>1. CASE u = t
      BY <2>1, <1>7, <1>8 DEF Inv, Boxed
    <2>2. CASE u # t
      BY <2>2, <1>7 DEF Inv, Boxed
    <2> QED
      BY <2>1, <2>2
  <1>15. Earlier'
    BY <1>1, <1>6, <1>8, BeforeIn DEF Inv, Earlier, SamePlayer
  <1>16. OwnBall' /\ OwnTurn'
    BY <1>1, <1>7, <1>8, BeforeIn DEF Inv, OwnBall, OwnTurn, SamePlayer
  <1>17. Granted'
    <2> SUFFICES ASSUME NEW u \in Tasks, Grant(u)'
                 PROVE  balls[At(u)][id[Of(u)]] = Of(u) /\ sname'[Of(u)] # At(u)
      BY <1>1, <1>9 DEF Granted
    <2>1. Grant(u) /\ balls[At(u)][id[Of(u)]] = Of(u) /\ sname[Of(u)] # At(u)
      BY <1>9 DEF Inv, Granted
    <2>2. CASE Of(u) # a
      BY <2>1, <2>2, <1>4, <1>9
    <2>3. CASE Of(u) = a
      <3>1. Grant(t) => At(u) # s
        BY <2>1, <2>3, <1>9 DEF Inv, OneGrant, a, s
      <3> QED
        BY <2>1, <2>3, <3>1, <1>5, <1>9, NilAssumption
    <2> QED
      BY <2>2, <2>3
  <1>18. OneGrant' /\ GrantedLast'
    BY <1>1, <1>8, <1>9 DEF Inv, OneGrant, GrantedLast, SamePlayer
  <1>19. Settled'
    <2> SUFFICES ASSUME NEW b \in Agents, Alive(b), sname'[b] # Nil
                 PROVE  /\ balls[sname'[b]][id[b]] \in {b, Nil}
                        /\ \A u \in Tasks : In(mailbox[sname'[b]], u) /\ id[Of(u)'] = id[b]
                                               => Of(u)' = b
      BY <1>1, <1>6 DEF Settled
    <2>1. CASE sname'[b] = sname[b]
      <3>1. sname[b] \in Scenes
        BY <2>1, <1>4
      <3> QED
        BY <2>1, <3>1, <1>8 DEF Inv, Settled
    <2>2. CASE b = a /\ Grant(t) /\ sname'[a] = s
      <3>1. balls[s][id[a]] = a
        BY <2>2 DEF Inv, Granted, a, s
      <3>2. \A u \in Tasks : In(mailbox[s], u) /\ id[Of(u)] = id[a] => Of(u) = a
        BY <2>2 DEF Inv, GrantedLast, SamePlayer, a, s
      <3> QED
        BY <2>2, <3>1, <3>2, <1>2, <1>8
    <2> QED
      BY <2>1, <2>2, <1>4, <1>5
  <1>20. Known'
    <2> SUFFICES ASSUME NEW b \in Agents, Alive(b), sname'[b] # Nil,
                        \A u \in Tasks : task'[u].kind = "leave" /\ Of(u)' = b => At(u)' # sname'[b]
                 PROVE  balls[sname'[b]][id[b]] = b
      BY <1>1, <1>6 DEF Known
    <2>1. CASE b = a /\ Grant(t) /\ sname'[a] = s
      BY <2>1 DEF Inv, Granted, a, s
    <2>2. CASE sname'[b] = sname[b] /\ (task[t].kind = "leave" => b # a)
      <3>1. \A u \in Tasks : task[u].kind = "leave" /\ Of(u) = b => At(u) # sname[b]
        BY <2>2, <1>7 DEF a
      <3> QED
        BY <2>2, <3>1 DEF Inv, Known
    <2> QED
      BY <2>1, <2>2, <1>4, <1>5
  <1>21. Leaving'
    <2> SUFFICES ASSUME NEW u \in Tasks, task'[u].kind = "leave"
                 PROVE  /\ status'[Of(u)] = "leaving" /\ sname'[Of(u)] # Nil
                        /\ task[u].answer = "none" => balls[At(u)][id[Of(u)]] = Of(u)
      BY <1>1, <1>7 DEF Leaving
    <2>1. /\ u # t /\ task[u].kind = "leave" /\ Of(u) \in Agents
          /\ status[Of(u)] = "leaving" /\ sname[Of(u)] # Nil
          /\ task[u].answer = "none" => balls[At(u)][id[Of(u)]] = Of(u)
      BY <1>7 DEF Inv, Leaving, Asked
    <2>2. CASE Of(u) # a
      BY <2>1, <2>2, <1>4
    <2>3. CASE Of(u) = a
      <3>1. task[t].kind # "leave"
        BY <2>1, <2>3 DEF Inv, OneLeave, a
      <3> QED
        BY <2>1, <2>3, <3>1, <1>2, <1>5
    <2> QED
      BY <2>2, <2>3
  <1>22. OneLeave' /\ LeftLast'
    BY <1>1, <1>7 DEF Inv, OneLeave, LeftLast
  <1>23. Foods' /\ FoodCounted'
    BY <1>1 DEF Inv, Foods, FoodCounted
  <1>24. Synced'
    BY <1>1 DEF Inv, Synced, Members
  <1> QED
    BY <1>10, <1>11, <1>12, <1>13, <1>14, <1>15, <1>16, <1>17, <1>18, <1>19, <1>20, <1>21,
       <1>22, <1>23, <1>24 DEF Inv

-----------------------------------------------------------------------------
(* The steps of scenes.                                                    *)

(* What a scene does when it takes call t, apart from its balls.           *)
Took(s, t, answer) ==
    /\ task[t].answer = "none" /\ At(t) = s /\ In(mailbox[s], t)
    /\ Of(t) \in Agents /\ id[Of(t)] \in Players
    /\ task' \in [Tasks -> Request] /\ task'[t].answer = answer
    /\ \A u \in Tasks : /\ Of(u)' = Of(u) /\ At(u)' = At(u) /\ task'[u].kind = task[u].kind
                        /\ u # t => task'[u].answer = task[u].answer
    /\ mailbox' \in [Scenes -> Seq(Tasks)]
    /\ \A r \in Scenes, x \in Tasks : In(mailbox'[r], x) <=> In(mailbox[r], x) /\ x # t
    /\ \A r \in Scenes, x, y \in Tasks :
          Before(mailbox'[r], x, y) <=> Before(mailbox[r], x, y) /\ x # t
    /\ \A x \in Tasks : /\ ~Before(mailbox[s], x, t)
                        /\ In(mailbox[s], x) /\ x # t => Before(mailbox[s], t, x)
    /\ UNCHANGED <<id, status, sname, foods, food_count, food_maxid>>

(* Serving the first call of a mailbox takes that call and no other.       *)
LEMMA ServeTakes ==
    ASSUME Inv, NEW s \in Scenes, NEW t \in First(s), NEW kind \in {"enter", "shift", "leave"},
           NEW answer \in {"true", "false", "nil"}, Serve(s, t, kind, answer)
    PROVE  t \in Tasks /\ Took(s, t, answer)
  <1>1. /\ mailbox[s] # <<>> /\ t = Head(mailbox[s]) /\ mailbox \in [Scenes -> Seq(Tasks)]
        /\ \A x \in Tasks : ~Before(mailbox[s], x, x)
    BY DEF First, Inv, TypeOK, Boxed
  <1> DEFINE q == mailbox[s]
  <1>2. /\ t \in Tasks /\ In(q, t) /\ Tail(q) \in Seq(Tasks)
        /\ \A x \in Tasks : In(Tail(q), x) <=> In(q, x) /\ x # t
        /\ \A x, y \in Tasks : Before(Tail(q), x, y) <=> Before(q, x, y) /\ x # t
        /\ \A x \in Tasks : ~Before(q, x, t) /\ (In(q, x) /\ x # t => Before(q, t, x))
    <2>1. q \in Seq(Tasks) /\ q # <<>> /\ t = Head(q) /\ \A x \in Tasks : ~Before(q, x, x)
      BY <1>1
    <2> HIDE DEF q
    <2> QED
      BY <2>1, Tailed
  <1>3. /\ mailbox' \in [Scenes -> Seq(Tasks)] /\ mailbox'[s] = Tail(q)
        /\ \A r \in Scenes \ {s} : mailbox'[r] = mailbox[r]
    BY <1>1, <1>2 DEF Serve
  <1>4. task[t].kind # "none" /\ task[t].answer = "none" /\ At(t) = s
    BY <1>2 DEF Inv, Boxed
  <1>5. Of(t) \in Agents /\ id[Of(t)] \in Players
    <2>1. Of(t) \in Agents /\ status[Of(t)] # "none"
      BY <1>2, <1>4 DEF Inv, Asked
    <2> QED
      BY <2>1 DEF Inv, TypeOK, Born
  <1>6. \A r \in Scenes \ {s}, x \in Tasks : ~In(mailbox[r], t) /\ ~Before(mailbox[r], t, x)
    BY <1>2, <1>4, BeforeIn DEF Inv, Boxed
  <1>7. /\ task' \in [Tasks -> Request] /\ task'[t].answer = answer
        /\ \A u \in Tasks : /\ Of(u)' = Of(u) /\ At(u)' = At(u) /\ task'[u].kind = task[u].kind
                            /\ u # t => task'[u].answer = task[u].answer
    <2> DEFINE e == [task[t] EXCEPT !.answer = answer]
    <2>1. task \in [Tasks -> Request] /\ task[t] \in Request
      BY <1>2 DEF Inv, TypeOK
    <2>2. /\ e \in Request /\ e.answer = answer /\ e.kind = task[t].kind
          /\ e.agent = task[t].agent /\ e.scene = task[t].scene
      BY <2>1 DEF Request
    <2>3. task' = [task EXCEPT ![t] = e]
      BY DEF Serve
    <2> HIDE DEF e
    <2>4. task' \in [Tasks -> Request] /\ task'[t] = e /\ \A u \in Tasks \ {t} : task'[u] = task[u]
      BY <1>2, <2>1, <2>2, <2>3
    <2> QED
      BY <1>2, <2>2, <2>4 DEF Of, At
  <1>8. UNCHANGED <<id, status, sname, foods, food_count, food_maxid>>
    BY DEF Serve, agentVars, foodVars
  <1>9. \A r \in Scenes, x \in Tasks : In(mailbox'[r], x) <=> In(mailbox[r], x) /\ x # t
    BY <1>2, <1>3, <1>6
  <1>10. \A r \in Scenes, x, y \in Tasks :
            Before(mailbox'[r], x, y) <=> Before(mailbox[r], x, y) /\ x # t
    BY <1>2, <1>3, <1>6
  <1> QED
    BY <1>2, <1>3, <1>4, <1>5, <1>7, <1>8, <1>9, <1>10 DEF Took

(* The calls that are left stay in order.                                  *)
LEMMA TakenStep ==
    ASSUME Inv, NEW s \in Scenes, NEW t \in Tasks, NEW answer \in {"true", "false", "nil"},
           Took(s, t, answer)
    PROVE  /\ Born' /\ OneServes' /\ Asked' /\ Boxed' /\ Earlier' /\ OwnTurn'
           /\ OneLeave' /\ Foods' /\ FoodCounted'
  <1>1. Born' /\ OneServes'
    BY DEF Inv, Born, OneServes, Took
  <1>2. Asked'
    <2>1. \A u \in Tasks : task[u].kind = "none" => u # t /\ task'[u] = task[u]
      <3> SUFFICES ASSUME NEW u \in Tasks, task[u].kind = "none"
                   PROVE  u # t /\ task'[u] = task[u]
        OBVIOUS
      <3>1. u # t
        BY DEF Inv, Boxed, Took
      <3>2. task[u] \in Request /\ task'[u] \in Request
        BY DEF Inv, TypeOK, Took
      <3>3. /\ task'[u].kind = task[u].kind /\ task'[u].agent = task[u].agent
            /\ task'[u].scene = task[u].scene /\ task'[u].answer = task[u].answer
        BY <3>1 DEF Took, Of, At
      <3> QED
        BY <3>1, <3>2, <3>3 DEF Request
    <2> QED
      BY <2>1 DEF Inv, Asked, Took
  <1>3. Boxed'
    <2> SUFFICES ASSUME NEW r \in Scenes, NEW u \in Tasks
                 PROVE  /\ In(mailbox'[r], u) <=> /\ task'[u].kind # "none"
                                                  /\ task'[u].answer = "none" /\ At(u)' = r
                        /\ ~Before(mailbox'[r], u, u)
      BY DEF Boxed
    <2>1. CASE u = t
      BY <2>1 DEF Inv, Boxed, Took
    <2>2. CASE u # t
      BY <2>2 DEF Inv, Boxed, Took
    <2> QED
      BY <2>1, <2>2
  <1>4. Earlier' /\ OwnTurn'
    BY DEF Inv, Earlier, OwnTurn, SamePlayer, Took
  <1>5. OneLeave'
    BY DEF Inv, OneLeave, Took
  <1>6. Foods' /\ FoodCounted'
    BY DEF Inv, Foods, FoodCounted, Took
  <1> QED
    BY <1>1, <1>2, <1>3, <1>4, <1>5, <1>6

(* An answer that changes no ball: a shift, or a refusal.                  *)
LEMMA QuietStep ==
    ASSUME Inv, NEW s \in Scenes, NEW t \in Tasks, NEW answer \in {"false", "nil"},
           Took(s, t, answer), UNCHANGED <<balls, view>>,
           task[t].kind = "leave" => id[Of(t)] \notin Members(s)
    PROVE  Inv'
  <1>1. /\ Born' /\ OneServes' /\ Asked' /\ Boxed' /\ Earlier' /\ OwnTurn'
        /\ OneLeave' /\ Foods' /\ FoodCounted'
    BY TakenStep
  <1>2. TypeOK' /\ Made' /\ Synced'
    BY DEF Inv, TypeOK, Made, Synced, Members, Took
  <1>3. OwnBall'
    BY DEF Inv, OwnBall, Took
  <1>4. \A u \in Tasks : Grant(u)' => Grant(u) /\ Of(u)' = Of(u) /\ At(u)' = At(u) /\ At(u) \in Scenes
    <2> SUFFICES ASSUME NEW u \in Tasks, Grant(u)'
                 PROVE  Grant(u) /\ At(u) \in Scenes
      BY DEF Took
    <2>1. u # t
      BY DEF Took, Grant
    <2>2. Grant(u)
      BY <2>1 DEF Took, Grant, Alive
    <2> QED
      BY <2>2 DEF Inv, Asked, Grant
  <1>5. Granted' /\ OneGrant' /\ GrantedLast'
    BY <1>4 DEF Inv, Granted, OneGrant, GrantedLast, SamePlayer, Took
  <1>6. Settled'
    <2> SUFFICES ASSUME NEW b \in Agents, Alive(b), sname[b] # Nil
                 PROVE  /\ balls[sname[b]][id[b]] \in {b, Nil}
                        /\ \A u \in Tasks : In(mailbox'[sname[b]], u) /\ id[Of(u)] = id[b] => Of(u) = b
      BY DEF Settled, Alive, Took
    <2>1. sname[b] \in Scenes
      BY DEF Inv, TypeOK
    <2> QED
      BY <2>1 DEF Inv, Settled, Took
  <1>kept. /\ \A u \in Tasks : task'[u].kind = task[u].kind /\ Of(u)' = Of(u) /\ At(u)' = At(u)
           /\ UNCHANGED <<id, status, sname, balls>>
    BY DEF Took
  <1>7. Known'
    <2> SUFFICES ASSUME NEW b \in Agents, Alive(b), sname[b] # Nil,
                        \A u \in Tasks : task[u].kind = "leave" /\ Of(u) = b => At(u) # sname[b]
                 PROVE  balls[sname[b]][id[b]] = b
      BY <1>kept DEF Known, Alive
    <2> QED
      BY DEF Inv, Known
  <1>8. Leaving'
    BY DEF Inv, Leaving, Took
  <1>9. LeftLast'
    <2> SUFFICES ASSUME NEW x \in Tasks, NEW y \in Tasks, task[x].kind = "leave",
                        task[y].kind = "enter", Of(x) = Of(y), At(x) = At(y)
                 PROVE  /\ task'[y].answer # "true"
                        /\ task'[y].answer = "none" => Before(mailbox'[At(x)], y, x)
      BY <1>kept DEF LeftLast
    <2>1. task[y].answer # "true" /\ (task[y].answer = "none" => Before(mailbox[At(x)], y, x))
      BY DEF Inv, LeftLast
    <2>2. At(x) \in Scenes
      BY DEF Inv, Asked
    <2> QED
      BY <2>1, <2>2 DEF Took
  <1> QED
    BY <1>1, <1>2, <1>3, <1>5, <1>6, <1>7, <1>8, <1>9 DEF Inv

(* A scene makes the ball of an agent.  The calls left in its mailbox are  *)
(* the agent's own or, if the agent has gone, those of later agents.       *)
LEMMA ServeEnterStep ==
    ASSUME Inv, NEW s \in Scenes, NEW t \in First(s), ServeEnter(s, t)
    PROVE  Inv'
  <1> DEFINE a == Of(t)
             p == id[a]
  <1>1. /\ Serve(s, t, "enter", "true") /\ p \notin Members(s)
        /\ balls' = [balls EXCEPT ![s][p] = a] /\ task[t].kind = "enter"
        /\ view' = [view EXCEPT ![s] =
               [b \in Agents |->
                   IF b = a THEN [balls |-> Members(s) \cup {p}, foods |-> foods[s]]
                   ELSE IF b \in Listeners(s)
                        THEN [balls |-> view[s][b].balls \cup {p}, foods |-> view[s][b].foods]
                        ELSE view[s][b]]]
    BY DEF ServeEnter, Serve, Of
  <1>2. t \in Tasks /\ Took(s, t, "true") /\ a \in Agents /\ p \in Players /\ id' = id
    <2>1. t \in Tasks /\ Took(s, t, "true")
      BY <1>1, ServeTakes
    <2> QED
      BY <2>1 DEF Took
  <1>3. /\ Born' /\ OneServes' /\ Asked' /\ Boxed' /\ Earlier' /\ OwnTurn'
        /\ OneLeave' /\ Foods' /\ FoodCounted'
    BY <1>2, TakenStep
  <1> HIDE DEF a, p
  <1>4. /\ balls \in [Scenes -> [Players -> Agents \cup {Nil}]]
        /\ balls' \in [Scenes -> [Players -> Agents \cup {Nil}]]
        /\ balls[s][p] = Nil /\ balls'[s][p] = a
        /\ \A r \in Scenes, q \in Players : r # s \/ q # p => balls'[r][q] = balls[r][q]
    BY <1>1, <1>2 DEF Inv, TypeOK, Members
  <1>5. /\ view' \in [Scenes -> [Agents -> View]]
        /\ \A r \in Scenes \ {s} : view'[r] = view[r]
        /\ view'[s][a] = [balls |-> Members(s) \cup {p}, foods |-> foods[s]]
        /\ \A b \in Agents \ {a} : b \in Listeners(s) =>
              view'[s][b] = [balls |-> view[s][b].balls \cup {p}, foods |-> view[s][b].foods]
    <2>1. /\ view \in [Scenes -> [Agents -> View]] /\ foods \in [Scenes -> SUBSET FoodIds]
          /\ Members(s) \subseteq Players
      BY DEF Inv, TypeOK, Members
    <2>2. /\ [balls |-> Members(s) \cup {p}, foods |-> foods[s]] \in View
          /\ \A b \in Agents :
                [balls |-> view[s][b].balls \cup {p}, foods |-> view[s][b].foods] \in View
      <3>1. \A b \in Agents : view[s][b] \in View
        BY <2>1
      <3> QED
        BY <1>2, <2>1, <3>1 DEF View
    <2> DEFINE told == [b \in Agents |->
                   IF b = a THEN [balls |-> Members(s) \cup {p}, foods |-> foods[s]]
                   ELSE IF b \in Listeners(s)
                        THEN [balls |-> view[s][b].balls \cup {p}, foods |-> view[s][b].foods]
                        ELSE view[s][b]]
    <2>3. told \in [Agents -> View]
      BY <2>1, <2>2
    <2>4. /\ told[a] = [balls |-> Members(s) \cup {p}, foods |-> foods[s]]
          /\ \A b \in Agents \ {a} : b \in Listeners(s) =>
                told[b] = [balls |-> view[s][b].balls \cup {p}, foods |-> view[s][b].foods]
      BY <1>2
    <2>5. view' = [view EXCEPT ![s] = told]
      BY <1>1
    <2> HIDE DEF told
    <2> QED
      BY <2>1, <2>3, <2>4, <2>5
  <1>6. TypeOK'
    BY <1>2, <1>4, <1>5 DEF Inv, TypeOK, Took
  <1>7. Made'
    BY <1>2, <1>4 DEF Inv, Made, p
  <1>kept. /\ UNCHANGED <<id, status, sname, foods>>
           /\ \A u \in Tasks : /\ Of(u)' = Of(u) /\ At(u)' = At(u)
                               /\ task'[u].kind = task[u].kind
                               /\ u # t => task'[u].answer = task[u].answer
           /\ \A r \in Scenes, u \in Tasks : In(mailbox'[r], u) => In(mailbox[r], u) /\ u # t
           /\ At(t) = s /\ Of(t) = a /\ In(mailbox[s], t) /\ task[t].kind = "enter"
           /\ id[a] = p /\ a # Nil /\ s # Nil /\ task'[t].answer = "true"
           /\ task[t].answer = "none"
    BY <1>1, <1>2, NilAssumption DEF Took, a, p
  <1>9. \A u \in Tasks : In(mailbox[s], u) /\ u # t => Before(mailbox[s], t, u)
    BY <1>2 DEF Took
  <1>10. OwnBall'
    <2> SUFFICES ASSUME NEW r \in Scenes, NEW u \in Tasks, In(mailbox[r], u), u # t,
                        task[u].kind \in {"shift", "leave"}
                 PROVE  balls'[r][id[Of(u)]] \in {Of(u), Nil}
      BY <1>kept DEF OwnBall
    <2>1. balls[r][id[Of(u)]] \in {Of(u), Nil} /\ Of(u) \in Agents /\ id[Of(u)] \in Players
      BY DEF Inv, OwnBall, Boxed, Asked, Born, TypeOK
    <2>2. CASE r = s /\ id[Of(u)] = p
      <3>1. Of(u) = a
        <4>1. Before(mailbox[s], t, u)
          BY <2>2, <1>9
        <4>2. SamePlayer(u, t)
          BY <2>2, <1>kept DEF SamePlayer
        <4> QED
          BY <4>1, <4>2, <1>2, <1>kept DEF Inv, OwnTurn
      <3> QED
        BY <3>1, <2>2, <1>4
    <2> QED
      BY <2>1, <2>2, <1>4
  <1>11. \A u \in Tasks : Grant(u)' /\ u # t => /\ Grant(u) /\ Of(u) \in Agents /\ At(u) \in Scenes
                                                /\ id[Of(u)] \in Players
    <2> SUFFICES ASSUME NEW u \in Tasks, Grant(u)', u # t
                 PROVE  Grant(u) /\ Of(u) \in Agents /\ At(u) \in Scenes /\ id[Of(u)] \in Players
      OBVIOUS
    <2>1. Grant(u)
      BY <1>kept DEF Grant, Alive
    <2>2. Of(u) \in Agents /\ At(u) \in Scenes /\ status[Of(u)] # "none"
      BY <2>1 DEF Inv, Asked, Grant
    <2> QED
      BY <2>1, <2>2 DEF Inv, Born, TypeOK
  <1>12. \A u \in Tasks : Grant(u)' /\ u # t => At(u) # s \/ id[Of(u)] # p
    BY <1>4, <1>11, NilAssumption DEF Inv, Granted
  <1>13. Alive(a) => sname[a] # s
    <2> SUFFICES ASSUME Alive(a), sname[a] = s
                 PROVE  FALSE
      OBVIOUS
    <2>1. PICK u \in Tasks : task[u].kind = "leave" /\ Of(u) = a /\ At(u) = s
      BY <1>2, <1>4, <1>kept DEF Inv, Known
    <2>2. Before(mailbox[s], t, u)
      BY <2>1, <1>kept, <1>2 DEF Inv, LeftLast
    <2>3. task[u].answer = "none"
      BY <2>1, <2>2, BeforeIn DEF Inv, Boxed
    <2> QED
      BY <2>1, <2>3, <1>4, <1>kept DEF Inv, Leaving
  <1>14. Granted'
    <2> SUFFICES ASSUME NEW u \in Tasks, Grant(u)'
                 PROVE  balls'[At(u)][id[Of(u)]] = Of(u) /\ sname[Of(u)] # At(u)
      BY <1>kept DEF Granted
    <2>1. CASE u = t
      <3>1. Alive(a)
        BY <2>1, <1>kept DEF Grant, Alive
      <3> QED
        BY <2>1, <3>1, <1>4, <1>13, <1>kept
    <2>2. CASE u # t
      BY <2>2, <1>4, <1>11, <1>12 DEF Inv, Granted
    <2> QED
      BY <2>1, <2>2
  <1>15. OneGrant'
    BY <1>11, <1>12, <1>kept DEF Inv, OneGrant
  <1>16. GrantedLast'
    <2> SUFFICES ASSUME NEW x \in Tasks, NEW u \in Tasks, Grant(x)', In(mailbox'[At(x)], u),
                        id[Of(x)] = id[Of(u)]
                 PROVE  Of(u) = Of(x)
      BY <1>kept DEF GrantedLast, SamePlayer
    <2>1. CASE x = t
      <3>1. Before(mailbox[s], t, u)
        BY <2>1, <1>9, <1>kept
      <3>2. status[a] # "gone"
        BY <2>1, <1>kept DEF Grant, Alive
      <3> QED
        BY <2>1, <3>1, <3>2, <1>2, <1>kept DEF Inv, Earlier, SamePlayer
    <2>2. CASE x # t
      BY <2>2, <1>11, <1>kept DEF Inv, GrantedLast, SamePlayer
    <2> QED
      BY <2>1, <2>2
  <1>17. Settled'
    <2> SUFFICES ASSUME NEW b \in Agents, Alive(b), sname[b] # Nil
                 PROVE  /\ balls'[sname[b]][id[b]] \in {b, Nil}
                        /\ \A u \in Tasks : In(mailbox'[sname[b]], u) /\ id[Of(u)] = id[b] => Of(u) = b
      BY <1>kept DEF Settled, Alive
    <2>1. sname[b] \in Scenes /\ id[b] \in Players
      BY DEF Inv, TypeOK, Born, Alive
    <2>2. /\ balls[sname[b]][id[b]] \in {b, Nil}
          /\ \A u \in Tasks : In(mailbox[sname[b]], u) /\ id[Of(u)] = id[b] => Of(u) = b
      BY DEF Inv, Settled
    <2>3. sname[b] = s /\ id[b] = p => b = a
      BY <2>2, <1>2, <1>kept
    <2> QED
      BY <2>1, <2>2, <2>3, <1>4, <1>kept
  <1>18. Known'
    <2> SUFFICES ASSUME NEW b \in Agents, Alive(b), sname[b] # Nil,
                        \A u \in Tasks : task[u].kind = "leave" /\ Of(u) = b => At(u) # sname[b]
                 PROVE  balls'[sname[b]][id[b]] = b
      BY <1>kept DEF Known, Alive
    <2>1. sname[b] \in Scenes /\ id[b] \in Players
      BY DEF Inv, TypeOK, Born, Alive
    <2>2. balls[sname[b]][id[b]] = b /\ b # Nil
      BY NilAssumption DEF Inv, Known
    <2> QED
      BY <2>1, <2>2, <1>4
  <1>19. Leaving'
    <2> SUFFICES ASSUME NEW u \in Tasks, task[u].kind = "leave"
                 PROVE  /\ status[Of(u)] = "leaving" /\ sname[Of(u)] # Nil
                        /\ task[u].answer = "none" => balls'[At(u)][id[Of(u)]] = Of(u)
      BY <1>kept DEF Leaving
    <2>1. /\ status[Of(u)] = "leaving" /\ sname[Of(u)] # Nil
          /\ task[u].answer = "none" => balls[At(u)][id[Of(u)]] = Of(u)
      BY DEF Inv, Leaving
    <2>2. Of(u) \in Agents /\ At(u) \in Scenes /\ id[Of(u)] \in Players /\ Of(u) # Nil
      BY <2>1, NilAssumption DEF Inv, Asked, Born, TypeOK
    <2> QED
      BY <2>1, <2>2, <1>4
  <1>20. LeftLast'
    <2> SUFFICES ASSUME NEW x \in Tasks, NEW y \in Tasks, task[x].kind = "leave",
                        task[y].kind = "enter", Of(x) = Of(y), At(x) = At(y)
                 PROVE  /\ task'[y].answer # "true"
                        /\ task'[y].answer = "none" => Before(mailbox'[At(x)], y, x)
      BY <1>kept DEF LeftLast
    <2>1. /\ task[y].answer # "true" /\ (task[y].answer = "none" => Before(mailbox[At(x)], y, x))
          /\ At(x) \in Scenes
      BY DEF Inv, LeftLast, Asked
    <2>2. y # t
      <3> SUFFICES ASSUME y = t
                   PROVE  FALSE
        OBVIOUS
      <3>1. Before(mailbox[s], t, x)
        BY <2>1, <1>kept
      <3>2. task[x].answer = "none"
        BY <3>1, BeforeIn DEF Inv, Boxed
      <3> QED
        BY <3>2, <1>4, <1>kept DEF Inv, Leaving
    <2> QED
      BY <2>1, <2>2, <1>2, <1>kept DEF Took
  <1>21. Synced'
    <2> SUFFICES ASSUME NEW r \in Scenes, NEW q \in Players, balls'[r][q] # Nil
                 PROVE  view'[r][balls'[r][q]] = [balls |-> Members(r)', foods |-> foods[r]]
      BY <1>kept DEF Synced
    <2>1. Members(s)' = Members(s) \cup {p}
      BY <1>2, <1>4, <1>kept DEF Members
    <2>2. CASE r # s
      <3>1. Members(r)' = Members(r) /\ balls'[r][q] = balls[r][q]
        BY <2>2, <1>4 DEF Members
      <3> QED
        BY <2>2, <3>1, <1>5 DEF Inv, Synced
    <2>3. CASE r = s /\ q = p
      BY <2>1, <2>3, <1>4, <1>5
    <2>4. CASE r = s /\ q # p
      <3>1. balls'[s][q] = balls[s][q] /\ balls[s][q] \in Agents /\ q \in Members(s)
        BY <2>4, <1>4 DEF Members
      <3>2. balls[s][q] # a /\ balls[s][q] \in Listeners(s)
        BY <2>4, <3>1, <1>kept DEF Inv, Made, Members, Listeners
      <3>3. view[s][balls[s][q]] = [balls |-> Members(s), foods |-> foods[s]]
        BY <3>1 DEF Inv, Synced, Members
      <3> QED
        BY <2>1, <2>4, <3>1, <3>2, <3>3, <1>5
    <2> QED
      BY <2>2, <2>3, <2>4
  <1> QED
    BY <1>3, <1>6, <1>7, <1>10, <1>14, <1>15, <1>16, <1>17, <1>18, <1>19, <1>20, <1>21 DEF Inv

(* A scene removes the ball of the agent that leaves, and nobody else's.   *)
LEMMA ServeLeaveStep ==
    ASSUME Inv, NEW s \in Scenes, NEW t \in First(s), ServeLeave(s, t)
    PROVE  Inv'
  <1> DEFINE a == Of(t)
             p == id[a]
  <1>1. /\ Serve(s, t, "leave", "nil") /\ p \in Members(s) /\ task[t].kind = "leave"
        /\ balls' = [balls EXCEPT ![s][p] = Nil]
        /\ view' = [view EXCEPT ![s] = [b \in Agents |-> AfterLeave(s, p, b)]]
    BY DEF ServeLeave, Serve, Of
  <1>2. t \in Tasks /\ Took(s, t, "nil") /\ a \in Agents /\ p \in Players
    <2>1. t \in Tasks /\ Took(s, t, "nil")
      BY <1>1, ServeTakes
    <2> QED
      BY <2>1 DEF Took
  <1>3. /\ Born' /\ OneServes' /\ Asked' /\ Boxed' /\ Earlier' /\ OwnTurn'
        /\ OneLeave' /\ Foods' /\ FoodCounted'
    BY <1>2, TakenStep
  <1> HIDE DEF a, p
  <1>kept. /\ UNCHANGED <<id, status, sname, foods>>
           /\ \A u \in Tasks : /\ Of(u)' = Of(u) /\ At(u)' = At(u)
                               /\ task'[u].kind = task[u].kind
                               /\ u # t => task'[u].answer = task[u].answer
           /\ \A r \in Scenes, u \in Tasks : In(mailbox'[r], u) => In(mailbox[r], u) /\ u # t
           /\ At(t) = s /\ Of(t) = a /\ In(mailbox[s], t) /\ task[t].kind = "leave"
           /\ id[a] = p /\ a # Nil /\ s # Nil /\ task'[t].answer = "nil"
           /\ task[t].answer = "none"
    BY <1>1, <1>2, NilAssumption DEF Took, a, p
  <1>4. balls[s][p] = a
    BY <1>2, <1>kept DEF Inv, Leaving
  <1>5. /\ balls \in [Scenes -> [Players -> Agents \cup {Nil}]]
        /\ balls' \in [Scenes -> [Players -> Agents \cup {Nil}]]
        /\ balls'[s][p] = Nil
        /\ \A r \in Scenes, q \in Players : r # s \/ q # p => balls'[r][q] = balls[r][q]
    BY <1>1, <1>2 DEF Inv, TypeOK
  <1>6. /\ view' \in [Scenes -> [Agents -> View]]
        /\ \A r \in Scenes \ {s} : view'[r] = view[r]
        /\ \A b \in Agents \ {a} : b \in Listeners(s) =>
              view'[s][b] = [balls |-> view[s][b].balls \ {p}, foods |-> view[s][b].foods]
    <2>1. view \in [Scenes -> [Agents -> View]] /\ \A b \in Agents : view[s][b] \in View
      BY DEF Inv, TypeOK
    <2>2. /\ NoView \in View
          /\ \A b \in Agents :
                [balls |-> view[s][b].balls \ {p}, foods |-> view[s][b].foods] \in View
      BY <2>1 DEF View, NoView
    <2> DEFINE told == [b \in Agents |-> AfterLeave(s, p, b)]
    <2>3. \A b \in Agents : AfterLeave(s, p, b) \in View
      BY <2>1, <2>2 DEF AfterLeave
    <2>4. \A b \in Agents \ {a} : b \in Listeners(s) =>
             told[b] = [balls |-> view[s][b].balls \ {p}, foods |-> view[s][b].foods]
      BY <1>4 DEF AfterLeave
    <2>5. told \in [Agents -> View] /\ view' = [view EXCEPT ![s] = told]
      BY <1>1, <2>3
    <2> HIDE DEF told
    <2> QED
      BY <2>1, <2>4, <2>5
  <1>7. TypeOK'
    BY <1>2, <1>5, <1>6 DEF Inv, TypeOK, Took
  <1>8. Made'
    BY <1>2, <1>5, <1>kept DEF Inv, Made
  <1>9. \A u \in Tasks : In(mailbox[s], u) /\ u # t => Before(mailbox[s], t, u)
    BY <1>2 DEF Took
  <1>10. OwnBall'
    <2> SUFFICES ASSUME NEW r \in Scenes, NEW u \in Tasks, In(mailbox[r], u), u # t,
                        task[u].kind \in {"shift", "leave"}
                 PROVE  balls'[r][id[Of(u)]] \in {Of(u), Nil}
      BY <1>kept DEF OwnBall
    <2>1. balls[r][id[Of(u)]] \in {Of(u), Nil} /\ id[Of(u)] \in Players
      BY DEF Inv, OwnBall, Boxed, Asked, Born, TypeOK
    <2> QED
      BY <2>1, <1>5
  <1>11. \A u \in Tasks : Grant(u)' => /\ u # t /\ Grant(u) /\ Of(u) \in Agents /\ At(u) \in Scenes
                                       /\ id[Of(u)] \in Players
    <2> SUFFICES ASSUME NEW u \in Tasks, Grant(u)'
                 PROVE  u # t /\ Grant(u) /\ Of(u) \in Agents /\ At(u) \in Scenes /\ id[Of(u)] \in Players
      OBVIOUS
    <2>1. u # t /\ Grant(u)
      BY <1>kept DEF Grant, Alive
    <2>2. Of(u) \in Agents /\ At(u) \in Scenes /\ status[Of(u)] # "none"
      BY <2>1 DEF Inv, Asked, Grant
    <2> QED
      BY <2>1, <2>2 DEF Inv, Born, TypeOK
  <1>12. \A u \in Tasks : Grant(u) => At(u) # s \/ id[Of(u)] # p
    <2> SUFFICES ASSUME NEW u \in Tasks, Grant(u), At(u) = s, id[Of(u)] = p
                 PROVE  FALSE
      OBVIOUS
    <2>1. Of(u) = a
      BY <1>2, <1>kept DEF Inv, GrantedLast, SamePlayer
    <2> QED
      BY <2>1, <1>2, <1>kept DEF Inv, LeftLast, Grant
  <1>13. Granted'
    <2> SUFFICES ASSUME NEW u \in Tasks, Grant(u)'
                 PROVE  balls'[At(u)][id[Of(u)]] = Of(u) /\ sname[Of(u)] # At(u)
      BY <1>kept DEF Granted
    <2> QED
      BY <1>5, <1>11, <1>12 DEF Inv, Granted
  <1>14. OneGrant' /\ GrantedLast'
    BY <1>11, <1>kept DEF Inv, OneGrant, GrantedLast, SamePlayer
  <1>15. Settled'
    <2> SUFFICES ASSUME NEW b \in Agents, Alive(b), sname[b] # Nil
                 PROVE  /\ balls'[sname[b]][id[b]] \in {b, Nil}
                        /\ \A u \in Tasks : In(mailbox'[sname[b]], u) /\ id[Of(u)] = id[b] => Of(u) = b
      BY <1>kept DEF Settled, Alive
    <2>1. sname[b] \in Scenes /\ id[b] \in Players
      BY DEF Inv, TypeOK, Born, Alive
    <2>2. /\ balls[sname[b]][id[b]] \in {b, Nil}
          /\ \A u \in Tasks : In(mailbox[sname[b]], u) /\ id[Of(u)] = id[b] => Of(u) = b
      BY DEF Inv, Settled
    <2> QED
      BY <2>1, <2>2, <1>5, <1>kept
  <1>16. Known'
    <2> SUFFICES ASSUME NEW b \in Agents, Alive(b), sname[b] # Nil,
                        \A u \in Tasks : task[u].kind = "leave" /\ Of(u) = b => At(u) # sname[b]
                 PROVE  balls'[sname[b]][id[b]] = b
      BY <1>kept DEF Known, Alive
    <2>1. sname[b] \in Scenes /\ id[b] \in Players
      BY DEF Inv, TypeOK, Born, Alive
    <2>2. balls[sname[b]][id[b]] = b
      BY DEF Inv, Known
    <2>3. ~(sname[b] = s /\ id[b] = p)
      BY <2>2, <1>2, <1>4, <1>kept
    <2> QED
      BY <2>1, <2>2, <2>3, <1>5
  <1>17. Leaving'
    <2> SUFFICES ASSUME NEW u \in Tasks, task[u].kind = "leave"
                 PROVE  /\ status[Of(u)] = "leaving" /\ sname[Of(u)] # Nil
                        /\ task'[u].answer = "none" => balls'[At(u)][id[Of(u)]] = Of(u)
      BY <1>kept DEF Leaving
    <2>1. /\ status[Of(u)] = "leaving" /\ sname[Of(u)] # Nil
          /\ task[u].answer = "none" => balls[At(u)][id[Of(u)]] = Of(u)
      BY DEF Inv, Leaving
    <2>2. Of(u) \in Agents /\ At(u) \in Scenes /\ id[Of(u)] \in Players
      BY <2>1 DEF Inv, Asked, Born, TypeOK
    <2>3. CASE u = t
      BY <2>1, <2>3, <1>kept
    <2>4. CASE u # t
      <3>1. Of(u) # a
        BY <2>4, <1>2, <1>kept DEF Inv, OneLeave
      <3> QED
        BY <2>1, <2>2, <2>4, <3>1, <1>4, <1>5, <1>kept
    <2> QED
      BY <2>3, <2>4
  <1>18. LeftLast'
    <2> SUFFICES ASSUME NEW x \in Tasks, NEW y \in Tasks, task[x].kind = "leave",
                        task[y].kind = "enter", Of(x) = Of(y), At(x) = At(y)
                 PROVE  /\ task'[y].answer # "true"
                        /\ task'[y].answer = "none" => Before(mailbox'[At(x)], y, x)
      BY <1>kept DEF LeftLast
    <2>1. /\ task[y].answer # "true" /\ (task[y].answer = "none" => Before(mailbox[At(x)], y, x))
          /\ At(x) \in Scenes
      BY DEF Inv, LeftLast, Asked
    <2>2. y # t
      BY <1>kept
    <2> QED
      BY <2>1, <2>2, <1>2, <1>kept DEF Took
  <1>19. Synced'
    <2> SUFFICES ASSUME NEW r \in Scenes, NEW q \in Players, balls'[r][q] # Nil
                 PROVE  view'[r][balls'[r][q]] = [balls |-> Members(r)', foods |-> foods[r]]
      BY <1>kept DEF Synced
    <2>1. Members(s)' = Members(s) \ {p}
      BY <1>2, <1>5 DEF Members
    <2>2. CASE r # s
      <3>1. Members(r)' = Members(r) /\ balls'[r][q] = balls[r][q]
        BY <2>2, <1>5 DEF Members
      <3> QED
        BY <2>2, <3>1, <1>6 DEF Inv, Synced
    <2>3. CASE r = s
      <3>1. balls'[s][q] = balls[s][q] /\ balls[s][q] \in Agents /\ q \in Members(s) /\ q # p
        BY <2>3, <1>5 DEF Members
      <3>2. balls[s][q] # a /\ balls[s][q] \in Listeners(s)
        BY <3>1, <1>kept DEF Inv, Made, Members, Listeners
      <3>3. view[s][balls[s][q]] = [balls |-> Members(s), foods |-> foods[s]]
        BY <3>1 DEF Inv, Synced, Members
      <3> QED
        BY <2>1, <2>3, <3>1, <3>2, <3>3, <1>6
    <2> QED
      BY <2>2, <2>3
  <1> QED
    BY <1>3, <1>7, <1>8, <1>10, <1>13, <1>14, <1>15, <1>16, <1>17, <1>18, <1>19 DEF Inv

(* Every call a scene serves keeps the invariant.                          *)
LEMMA SceneStepStep ==
    ASSUME Inv, NEW s \in Scenes, SceneStep(s)
    PROVE  Inv'
  <1>1. PICK t \in First(s) : \/ ServeEnter(s, t) \/ ServeEnterRefused(s, t)
                              \/ ServeLeave(s, t) \/ ServeLeaveRefused(s, t)
                              \/ ServeShift(s, t)
    BY DEF SceneStep
  <1>2. CASE ServeEnter(s, t)
    BY <1>2, ServeEnterStep
  <1>3. CASE ServeLeave(s, t)
    BY <1>3, ServeLeaveStep
  <1>4. CASE ServeEnterRefused(s, t)
    <2>1. Serve(s, t, "enter", "false") /\ UNCHANGED <<balls, view>> /\ task[t].kind = "enter"
      BY <1>4 DEF ServeEnterRefused, Serve
    <2> QED
      BY <2>1, ServeTakes, QuietStep
  <1>5. CASE ServeLeaveRefused(s, t)
    <2>1. Serve(s, t, "leave", "false") /\ UNCHANGED <<balls, view>> /\ id[Of(t)] \notin Members(s)
      BY <1>5 DEF ServeLeaveRefused, Of
    <2> QED
      BY <2>1, ServeTakes, QuietStep
  <1>6. CASE ServeShift(s, t)
    <2>1. Serve(s, t, "shift", "nil") /\ UNCHANGED <<balls, view>> /\ task[t].kind = "shift"
      BY <1>6 DEF ServeShift, Serve
    <2> QED
      BY <2>1, ServeTakes, QuietStep
  <1> QED
    BY <1>1, <1>2, <1>3, <1>4, <1>5, <1>6

(* The number of foods after a frame, and their ids.                       *)
Remain(k, S, grown, new, E) ==
    /\ (S \cup new) \ E \in SUBSET (1..(k + grown))
    /\ Cardinality((S \cup new) \ E) = Cardinality(S) + grown - Cardinality(E)
    /\ Cardinality((S \cup new) \ E) \in Nat
    /\ Cardinality((S \cup new) \ E) <= Cardinality(S) + grown

(* Foods made and eaten in one frame change their number by as many, and   *)
(* the new id is not yet taken.                                            *)
LEMMA FrameCount ==
    ASSUME NEW k \in Nat, NEW S \in SUBSET (1..k), NEW grown \in {0, 1},
           NEW new, (grown = 0 /\ new = {}) \/ (grown = 1 /\ new = {k + 1}),
           NEW E \in SUBSET (S \cup new)
    PROVE  Remain(k, S, grown, new, E)
  <1>1. IsFiniteSet(S) /\ Cardinality(S) \in Nat
    <2>1. IsFiniteSet(1..k)
      BY FS_Interval
    <2> QED
      BY <2>1, FS_Subset, FS_CardinalityType
  <1> DEFINE all == S \cup new
  <1>2. IsFiniteSet(all) /\ Cardinality(all) = Cardinality(S) + grown /\ all \subseteq 1..(k + grown)
    <2>1. CASE grown = 0
      <3>1. S \cup new = S /\ new = {}
        BY <2>1
      <3> QED
        BY <2>1, <3>1, <1>1
    <2>2. CASE grown = 1
      <3>1. k + 1 \notin S /\ new = {k + 1}
        BY <2>2
      <3> QED
        BY <2>2, <3>1, <1>1, FS_AddElement
    <2> QED
      BY <2>1, <2>2
  <1> HIDE DEF all
  <1>3. IsFiniteSet(E) /\ Cardinality(E) \in Nat /\ E \subseteq all
    BY <1>2, FS_Subset, FS_CardinalityType DEF all
  <1>4. Cardinality(all \ E) = Cardinality(all) - Cardinality(E) /\ Cardinality(all \ E) \in Nat
    <2>1. all \cap E = E
      BY <1>3
    <2>2. IsFiniteSet(all \ E) /\ Cardinality(all \ E) = Cardinality(all) - Cardinality(all \cap E)
      BY <1>2, FS_Difference
    <2> QED
      BY <2>1, <2>2, FS_CardinalityType
  <1>5. /\ all \ E \in SUBSET (1..(k + grown))
        /\ Cardinality(all \ E) = Cardinality(S) + grown - Cardinality(E)
        /\ Cardinality(all \ E) <= Cardinality(S) + grown
    BY <1>1, <1>2, <1>3, <1>4
  <1> QED
    BY <1>4, <1>5 DEF all, Remain

(* A frame that makes the food in New(s, grown), if any, and eats eaten.   *)
New(s, grown) == IF grown = 1 THEN {food_maxid[s] + 1} ELSE {}
Eats(s, grown, new, eaten) ==
    /\ Members(s) = {} => eaten = {}
    /\ foods' = [foods EXCEPT ![s] = (@ \cup new) \ eaten]
    /\ food_count' = [food_count EXCEPT ![s] = CountAfter(s, grown, eaten)]
    /\ food_maxid' = [food_maxid EXCEPT ![s] = @ + grown]
    /\ view' = [view EXCEPT ![s] =
           [b \in Agents |->
               IF b \in Listeners(s)
               THEN [balls |-> view[s][b].balls, foods |-> (view[s][b].foods \cup new) \ eaten]
               ELSE view[s][b]]]
    /\ UNCHANGED <<agentVars, task, mailbox, balls>>

(* Every frame makes a food or none, and eats foods that are there.        *)
LEMMA FrameIs ==
    ASSUME NEW s, Frame(s)
    PROVE  \E grown \in IF MayGrow(s) THEN {0, 1} ELSE {0} :
              \E eaten \in SUBSET (foods[s] \cup New(s, grown)) :
                 Eats(s, grown, New(s, grown), eaten)
  BY ZenonT(30) DEF Frame, Eats, New

(* One frame: food_count follows the foods, and the members are told.      *)
LEMMA FrameStep ==
    ASSUME Inv, NEW s \in Scenes, Frame(s)
    PROVE  Inv'
  <1> DEFINE m == food_maxid[s]
  <1>a. PICK grown \in IF MayGrow(s) THEN {0, 1} ELSE {0} :
           \E eaten \in SUBSET (foods[s] \cup New(s, grown)) :
              Eats(s, grown, New(s, grown), eaten)
    BY FrameIs
  <1> DEFINE new == New(s, grown)
  <1>b. PICK eaten \in SUBSET (foods[s] \cup new) : Eats(s, grown, new, eaten)
    BY <1>a
  <1>frame. /\ foods' = [foods EXCEPT ![s] = (foods[s] \cup new) \ eaten]
            /\ food_count' = [food_count EXCEPT ![s] = CountAfter(s, grown, eaten)]
            /\ food_maxid' = [food_maxid EXCEPT ![s] = m + grown]
            /\ view' = [view EXCEPT ![s] =
                  [b \in Agents |->
                      IF b \in Listeners(s)
                      THEN [balls |-> view[s][b].balls,
                            foods |-> (view[s][b].foods \cup new) \ eaten]
                      ELSE view[s][b]]]
            /\ UNCHANGED <<agentVars, task, mailbox, balls>>
    BY <1>b DEF Eats
  <1>new. (grown = 0 /\ new = {}) \/ (grown = 1 /\ new = {m + 1})
    <2>1. grown \in {0, 1}
      OBVIOUS
    <2> QED
      BY <2>1 DEF New
  <1> HIDE DEF new
  <1> DEFINE left == (foods[s] \cup new) \ eaten
  <1>2. /\ grown \in {0, 1} /\ m \in 0..MaxFood /\ m \in Nat /\ foods[s] \in SUBSET (1..m)
        /\ grown = 1 => food_count[s] <= FoodMax /\ m < MaxFood
        /\ food_count[s] = Cardinality(foods[s]) /\ food_count[s] \in 0..(FoodMax + 1)
        /\ FoodMax \in Nat /\ MaxFood \in Nat
    BY FoodAssumption DEF Inv, TypeOK, Foods, FoodCounted, MayGrow
  <1> HIDE DEF m
  <1>3. /\ left \in SUBSET (1..(m + grown))
        /\ Cardinality(left) = food_count[s] + grown - Cardinality(eaten)
        /\ Cardinality(left) \in Nat /\ Cardinality(left) <= food_count[s] + grown
    <2> DEFINE F == foods[s]
    <2>1. /\ m \in Nat /\ F \in SUBSET (1..m) /\ grown \in {0, 1} /\ eaten \in SUBSET (F \cup new)
          /\ food_count[s] = Cardinality(F)
      BY <1>2
    <2> HIDE DEF F
    <2>2. Remain(m, F, grown, new, eaten)
      BY <2>1, <1>new, FrameCount
    <2> QED
      BY <2>1, <2>2 DEF F, Remain
  <1>4. left \in SUBSET FoodIds /\ Cardinality(left) \in 0..(FoodMax + 1) /\ m + grown \in 0..MaxFood
    <2>1. m + grown \in 0..MaxFood /\ Cardinality(left) \in 0..(FoodMax + 1)
      BY <1>2, <1>3
    <2>2. 1..(m + grown) \subseteq 1..MaxFood
      BY <1>2, <2>1
    <2> QED
      BY <2>1, <2>2, <1>3 DEF FoodIds
  <1>5. /\ foods \in [Scenes -> SUBSET FoodIds] /\ food_count \in [Scenes -> 0..(FoodMax + 1)]
        /\ food_maxid \in [Scenes -> 0..MaxFood] /\ view \in [Scenes -> [Agents -> View]]
    BY DEF Inv, TypeOK
  <1> DEFINE told == [b \in Agents |->
                     IF b \in Listeners(s)
                     THEN [balls |-> view[s][b].balls, foods |-> (view[s][b].foods \cup new) \ eaten]
                     ELSE view[s][b]]
  <1>6. told \in [Agents -> View]
    <2>1. new \in SUBSET FoodIds
      BY <1>2, <1>new DEF FoodIds
    <2> HIDE DEF left
    <2>2. \A b \in Agents : view[s][b] \in View
      BY <1>5
    <2>3. \A b \in Agents :
             [balls |-> view[s][b].balls, foods |-> (view[s][b].foods \cup new) \ eaten] \in View
      BY <2>1, <2>2 DEF View
    <2> QED
      BY <2>2, <2>3
  <1>7. \A b \in Agents : b \in Listeners(s) =>
           told[b] = [balls |-> view[s][b].balls, foods |-> (view[s][b].foods \cup new) \ eaten]
    OBVIOUS
  <1>8. view' = [view EXCEPT ![s] = told] /\ foods' = [foods EXCEPT ![s] = left]
    BY <1>frame
  <1>9. food_count' = [food_count EXCEPT ![s] = Cardinality(left)]
    BY <1>frame, <1>2, <1>3 DEF CountAfter
  <1>10. UNCHANGED <<id, status, sname, task, mailbox, balls>>
    BY <1>frame DEF agentVars
  <1> HIDE DEF told, left
  <1>11. /\ view'[s] = told /\ foods'[s] = left /\ food_count'[s] = Cardinality(left)
         /\ food_maxid'[s] = m + grown
         /\ \A r \in Scenes \ {s} : /\ view'[r] = view[r] /\ foods'[r] = foods[r]
                                    /\ food_count'[r] = food_count[r]
                                    /\ food_maxid'[r] = food_maxid[r]
    BY <1>frame, <1>5, <1>8, <1>9
  <1>12. TypeOK'
    <2>1. /\ foods' \in [Scenes -> SUBSET FoodIds] /\ food_count' \in [Scenes -> 0..(FoodMax + 1)]
          /\ view' \in [Scenes -> [Agents -> View]]
      BY <1>4, <1>5, <1>6, <1>8, <1>9
    <2>2. food_maxid' \in [Scenes -> 0..MaxFood]
      BY <1>frame, <1>4, <1>5
    <2> QED
      BY <2>1, <2>2, <1>10 DEF Inv, TypeOK
  <1>13. Foods' /\ FoodCounted'
    BY <1>3, <1>11 DEF Inv, Foods, FoodCounted
  <1>14. Synced'
    <2> SUFFICES ASSUME NEW r \in Scenes, NEW q \in Players, balls[r][q] # Nil
                 PROVE  view'[r][balls[r][q]] = [balls |-> Members(r), foods |-> foods'[r]]
      BY <1>10 DEF Synced, Members
    <2>1. view[r][balls[r][q]] = [balls |-> Members(r), foods |-> foods[r]]
      BY DEF Inv, Synced
    <2>2. CASE r # s
      BY <2>1, <2>2, <1>11
    <2>3. CASE r = s
      <3>1. balls[s][q] \in Agents /\ balls[s][q] \in Listeners(s)
        BY <2>3 DEF Inv, TypeOK, Listeners, Members
      <3> QED
        BY <2>1, <2>3, <3>1, <1>7, <1>11 DEF left
    <2> QED
      BY <2>2, <2>3
  <1>15. Born' /\ OneServes' /\ Made' /\ Asked' /\ Boxed'
    BY <1>10 DEF Inv, Born, OneServes, Made, Asked, Boxed, Of, At
  <1>16. Earlier' /\ OwnBall' /\ OwnTurn'
    BY <1>10 DEF Inv, Earlier, OwnBall, OwnTurn, SamePlayer, Of, At
  <1>17. Granted' /\ OneGrant' /\ GrantedLast'
    BY <1>10 DEF Inv, Granted, OneGrant, GrantedLast, Grant, Alive, SamePlayer, Of, At
  <1>18. Settled' /\ Known'
    BY <1>10 DEF Inv, Settled, Known, Alive, Of, At
  <1>19. Leaving' /\ OneLeave' /\ LeftLast'
    BY <1>10 DEF Inv, Leaving, OneLeave, LeftLast, Of, At
  <1> QED
    BY <1>12, <1>13, <1>14, <1>15, <1>16, <1>17, <1>18, <1>19 DEF Inv

-----------------------------------------------------------------------------
(* The inductive invariant holds at the start and is kept by every step.   *)
LEMMA InitInv ==
    ASSUME Init
    PROVE  Inv
  <1>1. /\ \A a \in Agents : id[a] = Nil /\ status[a] = "none" /\ sname[a] = Nil
        /\ \A t \in Tasks : task[t] = NoTask /\ task[t].kind = "none" /\ task[t].answer = "none"
        /\ \A s \in Scenes : /\ mailbox[s] = <<>> /\ foods[s] = {} /\ food_count[s] = 0
                             /\ \A p \in Players : balls[s][p] = Nil
    BY DEF Init, NoTask
  <1>2. \A x, y : ~In(<<>>, x) /\ ~Before(<<>>, x, y)
    BY DEF In, Before
  <1>3. TypeOK
    <2>1. NoTask \in Request /\ NoView \in View /\ <<>> \in Seq(Tasks)
      BY DEF NoTask, Request, NoView, View
    <2> QED
      BY <2>1, FoodAssumption DEF Init, TypeOK
  <1>4. Born /\ OneServes /\ Made /\ Asked
    BY <1>1 DEF Born, OneServes, Made, Asked
  <1>5. Boxed /\ Earlier /\ OwnBall /\ OwnTurn
    BY <1>1, <1>2 DEF Boxed, Earlier, OwnBall, OwnTurn
  <1>6. Granted /\ OneGrant /\ GrantedLast /\ Leaving /\ OneLeave /\ LeftLast
    BY <1>1 DEF Granted, OneGrant, GrantedLast, Grant, Leaving, OneLeave, LeftLast
  <1>7. Settled /\ Known
    BY <1>1 DEF Settled, Known
  <1>8. Foods /\ FoodCounted /\ Synced
    BY <1>1, FS_EmptySet DEF Foods, FoodCounted, Synced
  <1> QED
    BY <1>3, <1>4, <1>5, <1>6, <1>7, <1>8 DEF Inv

(* Every step keeps the inductive invariant.                               *)
LEMMA NextInv ==
    ASSUME Inv, [Next]_vars
    PROVE  Inv'
  <1>1. CASE UNCHANGED vars
    <2>1. UNCHANGED <<id, status, sname, task, mailbox, balls, foods, food_count, food_maxid, view>>
      BY <1>1 DEF vars
    <2>2. TypeOK' /\ Born' /\ OneServes' /\ Made' /\ Asked' /\ Boxed'
      BY <2>1 DEF Inv, TypeOK, Born, OneServes, Made, Asked, Boxed, Of, At
    <2>3. Earlier' /\ OwnBall' /\ OwnTurn'
      BY <2>1 DEF Inv, Earlier, OwnBall, OwnTurn, SamePlayer, Of, At
    <2>4. Granted' /\ OneGrant' /\ GrantedLast'
      BY <2>1 DEF Inv, Granted, OneGrant, GrantedLast, Grant, Alive, SamePlayer, Of, At
    <2>5. Settled' /\ Known'
      BY <2>1 DEF Inv, Settled, Known, Alive, Of, At
    <2>6. Leaving' /\ OneLeave' /\ LeftLast'
      BY <2>1 DEF Inv, Leaving, OneLeave, LeftLast, Of, At
    <2>7. Foods' /\ Synced' /\ FoodCounted'
      BY <2>1 DEF Inv, Foods, Synced, FoodCounted, Members
    <2> QED
      BY <2>2, <2>3, <2>4, <2>5, <2>6, <2>7 DEF Inv
  <1>2. CASE \E a \in Agents, p \in Players : Start(a, p)
    BY <1>2, StartStep
  <1>3. CASE \E t \in Tasks, a \in Agents, s \in Scenes : Enter(t, a, s)
    BY <1>3, EnterStep
  <1>4. CASE \E t \in Tasks, a \in Agents : Shift(t, a) \/ Kick(t, a)
    BY <1>4, ShiftStep, KickStep
  <1>5. CASE \E a \in Agents : KickOutside(a) \/ KickAnswered(a) \/ Exit(a)
    BY <1>5, EndingSteps
  <1>6. CASE \E t \in Tasks : Resume(t)
    BY <1>6, ResumeStep
  <1>7. CASE \E s \in Scenes : SceneStep(s) \/ Frame(s)
    BY <1>7, SceneStepStep, FrameStep
  <1> QED
    BY <1>1, <1>2, <1>3, <1>4, <1>5, <1>6, <1>7 DEF Next

(* What is known of agents, calls and balls between the answers.           *)
THEOREM Invariant == Spec => []Inv
  BY InitInv, NextInv, PTL DEF Spec

(* Agents, calls, balls, foods and views keep their types, and food_count  *)
(* exceeds its limit by one at most.                                       *)
THEOREM TypeCorrect == Spec => []TypeOK
  <1>1. Inv => TypeOK
    BY DEF Inv
  <1> QED
    BY <1>1, Invariant, PTL

(* s.sname is never stale: the scene an agent believes to be in has the    *)
(* ball it made for this agent, until the agent leaves.                    *)
THEOREM SceneKnown == Spec => []KnownBall
  <1>1. ASSUME Inv
        PROVE  KnownBall
    <2> SUFFICES ASSUME NEW a \in Agents, Alive(a), status[a] # "leaving", sname[a] # Nil
                 PROVE  balls[sname[a]][id[a]] = a
      BY DEF KnownBall
    <2>1. \A t \in Tasks : task[t].kind = "leave" => Of(t) # a
      BY <1>1 DEF Inv, Leaving
    <2> QED
      BY <1>1, <2>1 DEF Inv, Known
  <1> QED
    BY <1>1, Invariant, PTL

(* A shift or leave acts on the ball of the agent that sent it, although   *)
(* the scene goes by playerid only.                                        *)
THEOREM OwnBallOnly == Spec => []ActsOnOwnBall
  <1>1. ASSUME Inv
        PROVE  ActsOnOwnBall
    <2> SUFFICES ASSUME NEW s \in Scenes, NEW t \in First(s), task[t].kind \in {"shift", "leave"}
                 PROVE  balls[s][id[task[t].agent]] \in {task[t].agent, Nil}
      BY DEF ActsOnOwnBall
    <2>1. mailbox[s] \in Seq(Tasks) /\ mailbox[s] # <<>> /\ t = Head(mailbox[s])
      BY <1>1 DEF Inv, TypeOK, First
    <2>2. t \in Tasks /\ In(mailbox[s], t)
      BY <1>1, <2>1, Tailed DEF Inv, Boxed
    <2> QED
      BY <1>1, <2>2 DEF Inv, OwnBall, Of
  <1> QED
    BY <1>1, Invariant, PTL

(* What the members of a scene have been told adds up to what it holds.    *)
THEOREM MembersSynced == Spec => []Synced
  <1>1. Inv => Synced
    BY DEF Inv
  <1> QED
    BY <1>1, Invariant, PTL

(* food_count, counted by hand in two places, is the number of foods.      *)
THEOREM FoodsCounted == Spec => []FoodCounted
  <1>1. Inv => FoodCounted
    BY DEF Inv
  <1> QED
    BY <1>1, Invariant, PTL

-----------------------------------------------------------------------------
(* Enters that never overlapped.  While one is under way its agent is up   *)
(* and in no scene, so a ball that is neither that of s.sname nor granted  *)
(* by the only enter under way would have come from another.               *)
OneEnter == \A t, u \in Tasks :
    /\ task[t].kind = "enter" /\ task[u].kind = "enter"
    /\ Of(t) = Of(u) /\ Of(t) \notin raced
    => t = u

EnterUp == \A t \in Tasks :
    task[t].kind = "enter" /\ Of(t) \notin raced =>
        status[Of(t)] = "up" /\ sname[Of(t)] = Nil

Pending(a, s) == \E t \in Tasks : Grant(t) /\ Of(t) = a /\ At(t) = s

BallHeld == \A s \in Scenes, p \in Players :
    balls[s][p] # Nil /\ balls[s][p] \notin raced =>
        /\ Serving(balls[s][p])
        /\ sname[balls[s][p]] = s \/ Pending(balls[s][p], s)

LeavesHere == \A t \in Tasks :
    task[t].kind = "leave" /\ Of(t) \notin raced =>
        /\ At(t) = sname[Of(t)]
        /\ task[t].answer # "none" => balls[At(t)][id[Of(t)]] # Of(t)

HInv == Inv /\ OneEnter /\ EnterUp /\ BallHeld /\ LeavesHere

(* What a step may do to the history.                                      *)
Recorded == /\ raced \subseteq raced'
            /\ \A a \in Agents : a \notin raced' => ~Overlaps(a)

(* A step that starts no enter and no leave, takes no granted enter away   *)
(* and leaves the agents that serve as they are.                           *)
Calm ==
    /\ sname' = sname /\ balls' = balls
    /\ \A a \in Agents : Serving(a) => status'[a] = status[a] /\ id'[a] = id[a]
    /\ \A u \in Tasks :
          task'[u].kind \in {"enter", "leave"} =>
              /\ task'[u].kind = task[u].kind /\ Of(u)' = Of(u) /\ At(u)' = At(u)
              /\ task[u].kind = "leave" => task'[u].answer = task[u].answer
    /\ \A u \in Tasks : Grant(u) /\ Serving(Of(u)) =>
          Grant(u)' /\ Of(u)' = Of(u) /\ At(u)' = At(u)

LEMMA CalmStep ==
    ASSUME HInv, raced \subseteq raced', Calm
    PROVE  OneEnter' /\ EnterUp' /\ BallHeld' /\ LeavesHere'
<1>1. OneEnter'
  BY DEF HInv, OneEnter, Calm
<1>2. EnterUp'
  <2> SUFFICES ASSUME NEW t \in Tasks, task'[t].kind = "enter", Of(t)' \notin raced'
               PROVE  status'[Of(t)'] = "up" /\ sname'[Of(t)'] = Nil
    BY DEF EnterUp
  <2>1. task[t].kind = "enter" /\ Of(t)' = Of(t) /\ Of(t) \notin raced
    BY DEF Calm
  <2>2. status[Of(t)] = "up" /\ sname[Of(t)] = Nil /\ Of(t) \in Agents
    BY <2>1 DEF HInv, EnterUp, Inv, Asked
  <2> QED
    BY <2>1, <2>2 DEF Calm, Serving
<1>3. BallHeld'
  <2> SUFFICES ASSUME NEW s \in Scenes, NEW p \in Players,
                      balls[s][p] # Nil, balls[s][p] \notin raced'
               PROVE  /\ status'[balls[s][p]] \in {"up", "leaving"}
                      /\ \/ sname'[balls[s][p]] = s
                         \/ \E t \in Tasks : Grant(t)' /\ Of(t)' = balls[s][p] /\ At(t)' = s
    BY DEF BallHeld, Calm, Serving, Pending
  <2>1. PICK a \in Agents : a = balls[s][p]
    BY DEF HInv, Inv, TypeOK
  <2>2. Serving(a) /\ (sname[a] = s \/ Pending(a, s))
    BY <2>1 DEF HInv, BallHeld
  <2>3. status'[a] = status[a] /\ sname'[a] = sname[a]
    BY <2>2 DEF Calm
  <2>4. Pending(a, s) => \E t \in Tasks : Grant(t)' /\ Of(t)' = a /\ At(t)' = s
    BY <2>2 DEF Pending, Calm
  <2> QED
    BY <2>1, <2>2, <2>3, <2>4 DEF Serving
<1>4. LeavesHere'
  <2> SUFFICES ASSUME NEW t \in Tasks, task'[t].kind = "leave", Of(t)' \notin raced'
               PROVE  /\ At(t)' = sname'[Of(t)']
                      /\ task'[t].answer # "none" => balls'[At(t)'][id'[Of(t)']] # Of(t)'
    BY DEF LeavesHere
  <2>1. /\ task[t].kind = "leave" /\ Of(t)' = Of(t) /\ At(t)' = At(t) /\ Of(t) \notin raced
        /\ task'[t].answer = task[t].answer
    BY DEF Calm
  <2>2. id'[Of(t)] = id[Of(t)]
    BY <2>1 DEF HInv, Inv, Asked, Leaving, Serving, Calm
  <2> QED
    BY <2>1, <2>2 DEF HInv, LeavesHere, Calm
<1> QED
  BY <1>1, <1>2, <1>3, <1>4

(* A new call.                                                             *)
LEMMA Called ==
    ASSUME HInv, NEW t \in Tasks, NEW a \in Agents, NEW s \in Scenes,
           NEW kind \in {"enter", "shift", "leave"}, Call(t, a, s, kind)
    PROVE  /\ task[t] = NoTask /\ task[t].kind = "none" /\ task'[t].kind = kind
           /\ task'[t].answer = "none" /\ Of(t)' = a /\ At(t)' = s
           /\ \A u \in Tasks \ {t} : /\ task'[u] = task[u]
                                     /\ Of(u)' = Of(u) /\ At(u)' = At(u)
           /\ UNCHANGED <<id, sname, balls>>
<1>1. task \in [Tasks -> Request]
  BY DEF HInv, Inv, TypeOK
<1> QED
  BY <1>1 DEF Call, NoTask, Of, At

LEMMA HEnterStep ==
    ASSUME HInv, Recorded, NEW t \in Tasks, NEW a \in Agents, NEW s \in Scenes, Enter(t, a, s)
    PROVE  OneEnter' /\ EnterUp' /\ BallHeld' /\ LeavesHere'
<1>1. /\ task[t] = NoTask /\ task[t].kind = "none" /\ task'[t].kind = "enter"
      /\ Of(t)' = a /\ At(t)' = s
      /\ \A u \in Tasks \ {t} : /\ task'[u] = task[u]
                                /\ Of(u)' = Of(u) /\ At(u)' = At(u)
      /\ UNCHANGED <<id, sname, balls, status>> /\ sname[a] = Nil
  BY Called DEF Enter
<1>2. a \notin raced' => ~Entering(a) /\ status[a] = "up"
  <2>1. Asks(a)
    BY <1>1 DEF Asks, Of
  <2> QED
    BY <2>1 DEF Recorded, Overlaps
<1>3. raced \subseteq raced'
  BY DEF Recorded
<1>4. OneEnter'
  <2> SUFFICES ASSUME NEW x \in Tasks, NEW y \in Tasks, task'[x].kind = "enter",
                      task'[y].kind = "enter", Of(x)' = Of(y)', Of(x)' \notin raced'
               PROVE  x = y
    BY DEF OneEnter
  <2>1. CASE x # t /\ y # t
    BY <2>1, <1>1, <1>3 DEF HInv, OneEnter
  <2>2. CASE x = t /\ y # t
    BY <2>2, <1>1, <1>2 DEF Entering, Of
  <2>3. CASE x # t /\ y = t
    BY <2>3, <1>1, <1>2 DEF Entering, Of
  <2> QED
    BY <2>1, <2>2, <2>3
<1>5. EnterUp'
  <2> SUFFICES ASSUME NEW x \in Tasks, task'[x].kind = "enter", Of(x)' \notin raced'
               PROVE  status'[Of(x)'] = "up" /\ sname'[Of(x)'] = Nil
    BY DEF EnterUp
  <2>1. CASE x = t
    BY <2>1, <1>1, <1>2
  <2>2. CASE x # t
    BY <2>2, <1>1, <1>3 DEF HInv, EnterUp
  <2> QED
    BY <2>1, <2>2
<1>6. BallHeld'
  <2>1. \A b, r : Pending(b, r) => Pending(b, r)'
    BY <1>1 DEF Pending, Grant, Alive
  <2> QED
    BY <2>1, <1>1, <1>3 DEF HInv, BallHeld, Serving
<1>7. LeavesHere'
  BY <1>1, <1>3 DEF HInv, LeavesHere
<1> QED
  BY <1>4, <1>5, <1>6, <1>7

LEMMA HKickStep ==
    ASSUME HInv, Recorded, NEW t \in Tasks, NEW a \in Agents, Kick(t, a)
    PROVE  OneEnter' /\ EnterUp' /\ BallHeld' /\ LeavesHere'
<1> DEFINE s == sname[a]
<1>0. s \in Scenes /\ Call(t, a, s, "leave")
  BY DEF Kick, HInv, Inv, TypeOK
<1>1. /\ task[t].kind = "none" /\ task'[t].kind = "leave" /\ task'[t].answer = "none"
      /\ Of(t)' = a /\ At(t)' = s
      /\ \A u \in Tasks \ {t} : /\ task'[u] = task[u]
                                /\ Of(u)' = Of(u) /\ At(u)' = At(u)
      /\ UNCHANGED <<id, sname, balls>>
  BY <1>0, Called
<1>2. /\ status[a] = "up" /\ status'[a] = "leaving"
      /\ \A b \in Agents \ {a} : status'[b] = status[b]
  BY DEF Kick, HInv, Inv, TypeOK
<1>3. a \notin raced' => ~Entering(a)
  BY <1>2 DEF Kicks, Recorded, Overlaps
<1>4. raced \subseteq raced'
  BY DEF Recorded
<1>5. OneEnter'
  BY <1>1, <1>4 DEF HInv, OneEnter
<1>6. EnterUp'
  <2> SUFFICES ASSUME NEW x \in Tasks, task'[x].kind = "enter", Of(x)' \notin raced'
               PROVE  status'[Of(x)'] = "up" /\ sname'[Of(x)'] = Nil
    BY DEF EnterUp
  <2>1. task[x].kind = "enter" /\ Of(x)' = Of(x)
    BY <1>1
  <2>2. Of(x) \in Agents /\ Of(x) # a
    BY <2>1, <1>3 DEF Entering, Of, HInv, Inv, Asked
  <2> QED
    BY <2>1, <2>2, <1>1, <1>2, <1>4 DEF HInv, EnterUp
<1>7. BallHeld'
  <2> SUFFICES ASSUME NEW r \in Scenes, NEW p \in Players,
                      balls[r][p] # Nil, balls[r][p] \notin raced'
               PROVE  /\ status'[balls[r][p]] \in {"up", "leaving"}
                      /\ \/ sname'[balls[r][p]] = r
                         \/ \E u \in Tasks : Grant(u)' /\ Of(u)' = balls[r][p] /\ At(u)' = r
    BY <1>1 DEF BallHeld, Serving, Pending
  <2>1. PICK b \in Agents : b = balls[r][p]
    BY DEF HInv, Inv, TypeOK
  <2>2. Serving(b) /\ (sname[b] = r \/ Pending(b, r)) /\ b \notin raced'
    BY <2>1, <1>4 DEF HInv, BallHeld
  <2>3. status'[b] \in {"up", "leaving"}
    BY <2>2, <1>2 DEF Serving
  <2>4. ASSUME Pending(b, r)
        PROVE  \E u \in Tasks : Grant(u)' /\ Of(u)' = b /\ At(u)' = r
    <3>1. PICK u \in Tasks : Grant(u) /\ Of(u) = b /\ At(u) = r
      BY <2>4 DEF Pending
    <3>2. u # t /\ b # a
      BY <2>2, <3>1, <1>1, <1>3 DEF Grant, Entering, Of
    <3>3. Grant(u)'
      BY <3>1, <3>2, <1>1, <1>2 DEF Grant, Alive
    <3> QED
      BY <3>1, <3>2, <3>3, <1>1
  <2> QED
    BY <2>1, <2>2, <2>3, <2>4, <1>1
<1>8. LeavesHere'
  <2> SUFFICES ASSUME NEW x \in Tasks, task'[x].kind = "leave", Of(x)' \notin raced'
               PROVE  /\ At(x)' = sname'[Of(x)']
                      /\ task'[x].answer # "none" => balls'[At(x)'][id'[Of(x)']] # Of(x)'
    BY DEF LeavesHere
  <2>1. CASE x = t
    BY <2>1, <1>1
  <2>2. CASE x # t
    BY <2>2, <1>1, <1>4 DEF HInv, LeavesHere
  <2> QED
    BY <2>1, <2>2
<1> QED
  BY <1>5, <1>6, <1>7, <1>8

LEMMA HKickOutsideStep ==
    ASSUME HInv, Recorded, NEW a \in Agents, KickOutside(a)
    PROVE  OneEnter' /\ EnterUp' /\ BallHeld' /\ LeavesHere'
<1>1. /\ status[a] = "up" /\ status'[a] = "sleeping" /\ sname[a] = Nil
      /\ \A b \in Agents \ {a} : status'[b] = status[b]
      /\ UNCHANGED <<id, sname, task, balls>>
  BY DEF KickOutside, HInv, Inv, TypeOK
<1>2. a \notin raced' => ~Entering(a)
  BY <1>1 DEF Kicks, Recorded, Overlaps
<1>3. raced \subseteq raced'
  BY DEF Recorded
<1>4. OneEnter' /\ LeavesHere'
  BY <1>1, <1>3 DEF HInv, OneEnter, LeavesHere, Of, At
<1>5. EnterUp'
  <2> SUFFICES ASSUME NEW x \in Tasks, task[x].kind = "enter", Of(x) \notin raced'
               PROVE  status'[Of(x)] = "up" /\ sname[Of(x)] = Nil
    BY <1>1 DEF EnterUp, Of
  <2>1. Of(x) \in Agents /\ Of(x) # a
    BY <1>2 DEF Entering, Of, HInv, Inv, Asked
  <2> QED
    BY <2>1, <1>1, <1>3 DEF HInv, EnterUp
<1>6. BallHeld'
  <2> SUFFICES ASSUME NEW r \in Scenes, NEW p \in Players,
                      balls[r][p] # Nil, balls[r][p] \notin raced'
               PROVE  /\ status'[balls[r][p]] \in {"up", "leaving"}
                      /\ \/ sname[balls[r][p]] = r
                         \/ \E u \in Tasks : Grant(u)' /\ Of(u) = balls[r][p] /\ At(u) = r
    BY <1>1 DEF BallHeld, Serving, Pending, Of, At
  <2>1. PICK b \in Agents : b = balls[r][p]
    BY DEF HInv, Inv, TypeOK
  <2>2. Serving(b) /\ (sname[b] = r \/ Pending(b, r)) /\ b \notin raced'
    BY <2>1, <1>3 DEF HInv, BallHeld
  <2>3. b # a
    BY <2>2, <1>1, <1>2, NilAssumption DEF Pending, Grant, Entering, Of
  <2>4. Pending(b, r) => \E u \in Tasks : Grant(u)' /\ Of(u) = b /\ At(u) = r
    BY <2>3, <1>1 DEF Pending, Grant, Alive, Of
  <2> QED
    BY <2>1, <2>2, <2>3, <2>4, <1>1 DEF Serving
<1> QED
  BY <1>4, <1>5, <1>6

(* An answered call that is taken off its coroutine.                       *)
LEMMA TakenOff ==
    ASSUME HInv, NEW t \in Tasks, task' = [task EXCEPT ![t] = NoTask]
    PROVE  /\ task'[t] = NoTask /\ task'[t].kind = "none"
           /\ \A u \in Tasks \ {t} : task'[u] = task[u] /\ Of(u)' = Of(u) /\ At(u)' = At(u)
           /\ \A u \in Tasks : task'[u].kind # "none" => u # t
BY DEF HInv, Inv, TypeOK, NoTask, Of, At

(* s.client.enter stores s.sname: the only enter of its agent has ended.   *)
LEMMA HEnteredStep ==
    ASSUME HInv, Recorded, NEW t \in Tasks, Entered(t), task[t].answer = "true"
    PROVE  OneEnter' /\ EnterUp' /\ BallHeld' /\ LeavesHere'
<1>1. PICK a : a = Of(t)
  OBVIOUS
<1>2. PICK s : s = At(t)
  OBVIOUS
<1>3. /\ task[t].kind = "enter" /\ task' = [task EXCEPT ![t] = NoTask]
      /\ UNCHANGED <<id, balls, status>> /\ sname' = [sname EXCEPT ![a] = s]
  BY <1>1, <1>2 DEF Entered, Resumed, Of, At
<1>4. /\ a \in Agents /\ s \in Scenes
      /\ sname'[a] = s /\ \A b \in Agents \ {a} : sname'[b] = sname[b]
  BY <1>1, <1>2, <1>3 DEF HInv, Inv, Asked, TypeOK
<1>5. /\ task'[t] = NoTask /\ task'[t].kind = "none"
      /\ \A u \in Tasks \ {t} : task'[u] = task[u] /\ Of(u)' = Of(u) /\ At(u)' = At(u)
      /\ \A u \in Tasks : task'[u].kind # "none" => u # t
  BY <1>3, TakenOff
<1>6. raced \subseteq raced'
  BY DEF Recorded
<1>7. a \notin raced' => /\ status[a] = "up" /\ sname[a] = Nil
                         /\ \A u \in Tasks : task[u].kind = "enter" /\ Of(u) = a => u = t
  BY <1>1, <1>3, <1>6 DEF HInv, EnterUp, OneEnter
<1>8. OneEnter'
  BY <1>5, <1>6 DEF HInv, OneEnter
<1>9. EnterUp'
  <2> SUFFICES ASSUME NEW x \in Tasks, task'[x].kind = "enter", Of(x)' \notin raced'
               PROVE  status'[Of(x)'] = "up" /\ sname'[Of(x)'] = Nil
    BY DEF EnterUp
  <2>1. x # t /\ task[x].kind = "enter" /\ Of(x)' = Of(x) /\ Of(x) \in Agents
    BY <1>5 DEF HInv, Inv, Asked
  <2>2. Of(x) # a
    BY <2>1, <1>7
  <2> QED
    BY <2>1, <2>2, <1>3, <1>4, <1>6 DEF HInv, EnterUp
<1>10. BallHeld'
  <2> SUFFICES ASSUME NEW r \in Scenes, NEW p \in Players,
                      balls[r][p] # Nil, balls[r][p] \notin raced'
               PROVE  /\ status[balls[r][p]] \in {"up", "leaving"}
                      /\ \/ sname'[balls[r][p]] = r
                         \/ \E u \in Tasks : Grant(u)' /\ Of(u)' = balls[r][p] /\ At(u)' = r
    BY <1>3 DEF BallHeld, Serving, Pending
  <2>1. PICK b \in Agents : b = balls[r][p]
    BY DEF HInv, Inv, TypeOK
  <2>2. Serving(b) /\ (sname[b] = r \/ Pending(b, r)) /\ b \notin raced'
    BY <2>1, <1>6 DEF HInv, BallHeld
  <2>3. CASE b = a
    <3>1. PICK u \in Tasks : Grant(u) /\ Of(u) = a /\ At(u) = r
      BY <2>2, <2>3, <1>7, NilAssumption DEF Pending
    <3>2. u = t
      BY <3>1, <2>2, <2>3, <1>7 DEF Grant
    <3> QED
      BY <2>1, <2>2, <2>3, <3>1, <3>2, <1>2, <1>4 DEF Serving
  <2>4. CASE b # a
    <3>1. ASSUME Pending(b, r)
          PROVE  \E u \in Tasks : Grant(u)' /\ Of(u)' = b /\ At(u)' = r
      <4>1. PICK u \in Tasks : Grant(u) /\ Of(u) = b /\ At(u) = r
        BY <3>1 DEF Pending
      <4>2. u # t
        BY <4>1, <2>4, <1>1
      <4>3. Grant(u)'
        BY <4>1, <4>2, <1>3, <1>5 DEF Grant, Alive
      <4> QED
        BY <4>1, <4>2, <4>3, <1>5
    <3> QED
      BY <2>1, <2>2, <2>4, <3>1, <1>4 DEF Serving
  <2> QED
    BY <2>3, <2>4
<1>11. LeavesHere'
  <2> SUFFICES ASSUME NEW x \in Tasks, task'[x].kind = "leave", Of(x)' \notin raced'
               PROVE  /\ At(x)' = sname'[Of(x)']
                      /\ task'[x].answer # "none" => balls'[At(x)'][id'[Of(x)']] # Of(x)'
    BY DEF LeavesHere
  <2>1. /\ task[x].kind = "leave" /\ Of(x)' = Of(x) /\ At(x)' = At(x) /\ Of(x) \in Agents
        /\ task'[x] = task[x]
    BY <1>5 DEF HInv, Inv, Asked
  <2>2. Of(x) # a
    BY <2>1, <1>7 DEF HInv, Inv, Leaving
  <2> QED
    BY <2>1, <2>2, <1>3, <1>4, <1>6 DEF HInv, LeavesHere
<1> QED
  BY <1>8, <1>9, <1>10, <1>11

(* leave_scene clears s.sname: the ball of the only scene it was in has    *)
(* been removed.                                                           *)
LEMMA HLeftStep ==
    ASSUME HInv, Recorded, NEW t \in Tasks, Left(t)
    PROVE  OneEnter' /\ EnterUp' /\ BallHeld' /\ LeavesHere'
<1>1. PICK a : a = Of(t)
  OBVIOUS
<1>2. /\ task[t].kind = "leave" /\ task[t].answer # "none" /\ Alive(a)
      /\ task' = [task EXCEPT ![t] = NoTask] /\ UNCHANGED <<id, balls>>
      /\ sname' = [sname EXCEPT ![a] = Nil] /\ status' = [status EXCEPT ![a] = "sleeping"]
  BY <1>1 DEF Left, Resumed, Of
<1>3. /\ a \in Agents /\ status[a] = "leaving" /\ sname'[a] = Nil /\ status'[a] = "sleeping"
      /\ \A b \in Agents \ {a} : sname'[b] = sname[b] /\ status'[b] = status[b]
  BY <1>1, <1>2 DEF HInv, Inv, Asked, Leaving, TypeOK
<1>4. /\ task'[t] = NoTask /\ task'[t].kind = "none"
      /\ \A u \in Tasks \ {t} : task'[u] = task[u] /\ Of(u)' = Of(u) /\ At(u)' = At(u)
      /\ \A u \in Tasks : task'[u].kind # "none" => u # t
  BY <1>2, TakenOff
<1>5. raced \subseteq raced'
  BY DEF Recorded
<1>6. a \notin raced' => /\ At(t) = sname[a] /\ balls[sname[a]][id[a]] # a
                         /\ \A u \in Tasks : task[u].kind = "enter" => Of(u) # a
  BY <1>1, <1>2, <1>3, <1>5 DEF HInv, EnterUp, LeavesHere
<1>7. OneEnter'
  BY <1>4, <1>5 DEF HInv, OneEnter
<1>8. EnterUp'
  <2> SUFFICES ASSUME NEW x \in Tasks, task'[x].kind = "enter", Of(x)' \notin raced'
               PROVE  status'[Of(x)'] = "up" /\ sname'[Of(x)'] = Nil
    BY DEF EnterUp
  <2>1. x # t /\ task[x].kind = "enter" /\ Of(x)' = Of(x) /\ Of(x) \in Agents
    BY <1>4 DEF HInv, Inv, Asked
  <2>2. Of(x) # a
    BY <2>1, <1>6
  <2> QED
    BY <2>1, <2>2, <1>3, <1>5 DEF HInv, EnterUp
<1>9. BallHeld'
  <2> SUFFICES ASSUME NEW r \in Scenes, NEW p \in Players,
                      balls[r][p] # Nil, balls[r][p] \notin raced'
               PROVE  /\ status'[balls[r][p]] \in {"up", "leaving"}
                      /\ \/ sname'[balls[r][p]] = r
                         \/ \E u \in Tasks : Grant(u)' /\ Of(u)' = balls[r][p] /\ At(u)' = r
    BY <1>2 DEF BallHeld, Serving, Pending
  <2>1. PICK b \in Agents : b = balls[r][p]
    BY DEF HInv, Inv, TypeOK
  <2>2. /\ Serving(b) /\ (sname[b] = r \/ Pending(b, r)) /\ b \notin raced'
        /\ id[b] = p
    BY <2>1, <1>5 DEF HInv, BallHeld, Inv, Made
  <2>3. b # a
    BY <2>1, <2>2, <1>6 DEF Pending, Grant
  <2>4. ASSUME Pending(b, r)
        PROVE  \E u \in Tasks : Grant(u)' /\ Of(u)' = b /\ At(u)' = r
    <3>1. PICK u \in Tasks : Grant(u) /\ Of(u) = b /\ At(u) = r
      BY <2>4 DEF Pending
    <3>2. u # t
      BY <3>1, <2>3, <1>1
    <3>3. Grant(u)'
      BY <3>1, <3>2, <2>3, <1>3, <1>4 DEF Grant, Alive
    <3> QED
      BY <3>1, <3>2, <3>3, <1>4
  <2> QED
    BY <2>1, <2>2, <2>3, <2>4, <1>3 DEF Serving
<1>10. LeavesHere'
  <2> SUFFICES ASSUME NEW x \in Tasks, task'[x].kind = "leave", Of(x)' \notin raced'
               PROVE  /\ At(x)' = sname'[Of(x)']
                      /\ task'[x].answer # "none" => balls'[At(x)'][id'[Of(x)']] # Of(x)'
    BY DEF LeavesHere
  <2>1. /\ x # t /\ task[x].kind = "leave" /\ Of(x)' = Of(x) /\ At(x)' = At(x)
        /\ Of(x) \in Agents /\ task'[x] = task[x]
    BY <1>4 DEF HInv, Inv, Asked
  <2>2. Of(x) # a
    BY <2>1, <1>1, <1>2 DEF HInv, Inv, OneLeave
  <2> QED
    BY <2>1, <2>2, <1>2, <1>3, <1>5 DEF HInv, LeavesHere
<1> QED
  BY <1>7, <1>8, <1>9, <1>10

(* The scene grants an enter: the ball is that of the enter under way.     *)
LEMMA HServeEnterStep ==
    ASSUME HInv, raced \subseteq raced', NEW s \in Scenes, NEW t \in First(s), ServeEnter(s, t)
    PROVE  OneEnter' /\ EnterUp' /\ BallHeld' /\ LeavesHere'
<1>1. PICK a : a = Of(t)
  OBVIOUS
<1>2. PICK p : p = id[a]
  OBVIOUS
<1>3. /\ Serve(s, t, "enter", "true") /\ p \notin Members(s) /\ task[t].kind = "enter"
      /\ balls' = [balls EXCEPT ![s][p] = a]
  BY <1>1, <1>2 DEF ServeEnter, Serve, Of
<1>4. t \in Tasks /\ Took(s, t, "true")
  BY <1>3, ServeTakes DEF HInv
<1>5. /\ a \in Agents /\ p \in Players /\ At(t) = s
      /\ \A u \in Tasks : /\ Of(u)' = Of(u) /\ At(u)' = At(u) /\ task'[u].kind = task[u].kind
                          /\ u # t => task'[u].answer = task[u].answer
      /\ task'[t].answer = "true" /\ UNCHANGED <<id, status, sname>>
  BY <1>1, <1>2, <1>4 DEF Took
<1>6. /\ \A r \in Scenes, q \in Players : r # s \/ q # p => balls'[r][q] = balls[r][q]
      /\ balls'[s][p] = a
  BY <1>3, <1>5 DEF HInv, Inv, TypeOK
<1>7. a \notin raced' => status[a] = "up"
  BY <1>1, <1>3, <1>4 DEF HInv, EnterUp
<1>8. OneEnter' /\ EnterUp'
  BY <1>5 DEF HInv, OneEnter, EnterUp
<1>9. BallHeld'
  <2> SUFFICES ASSUME NEW r \in Scenes, NEW q \in Players,
                      balls'[r][q] # Nil, balls'[r][q] \notin raced'
               PROVE  /\ status[balls'[r][q]] \in {"up", "leaving"}
                      /\ \/ sname[balls'[r][q]] = r
                         \/ \E u \in Tasks : Grant(u)' /\ Of(u) = balls'[r][q] /\ At(u) = r
    BY <1>5 DEF BallHeld, Serving, Pending
  <2>1. CASE r = s /\ q = p
    <3>1. Grant(t)'
      BY <2>1, <1>1, <1>3, <1>4, <1>5, <1>6, <1>7 DEF Grant, Alive
    <3> QED
      BY <2>1, <3>1, <1>1, <1>4, <1>5, <1>6, <1>7
  <2>2. CASE r # s \/ q # p
    <3>1. balls'[r][q] = balls[r][q]
      BY <2>2, <1>6
    <3>2. PICK b \in Agents : b = balls[r][q]
      BY <3>1 DEF HInv, Inv, TypeOK
    <3>3. Serving(b) /\ (sname[b] = r \/ Pending(b, r))
      BY <3>1, <3>2 DEF HInv, BallHeld
    <3>4. ASSUME Pending(b, r)
          PROVE  \E u \in Tasks : Grant(u)' /\ Of(u) = b /\ At(u) = r
      <4>1. PICK u \in Tasks : Grant(u) /\ Of(u) = b /\ At(u) = r
        BY <3>4 DEF Pending
      <4>2. Grant(u)'
        BY <4>1, <1>4, <1>5 DEF Grant, Alive, Took
      <4> QED
        BY <4>1, <4>2
    <3> QED
      BY <3>1, <3>2, <3>3, <3>4 DEF Serving
  <2> QED
    BY <2>1, <2>2
<1>10. LeavesHere'
  <2> SUFFICES ASSUME NEW x \in Tasks, task[x].kind = "leave", Of(x) \notin raced'
               PROVE  /\ At(x) = sname[Of(x)]
                      /\ task'[x].answer # "none" => balls'[At(x)][id[Of(x)]] # Of(x)
    BY <1>5 DEF LeavesHere
  <2>1. /\ x # t /\ task'[x].answer = task[x].answer
        /\ At(x) \in Scenes /\ Of(x) \in Agents /\ id[Of(x)] \in Players
    BY <1>3, <1>5 DEF HInv, Inv, Asked, Born, TypeOK
  <2>2. Of(x) # a
    BY <1>7 DEF HInv, Inv, Leaving
  <2>3. \/ balls'[At(x)][id[Of(x)]] = balls[At(x)][id[Of(x)]]
        \/ balls'[At(x)][id[Of(x)]] = a
    BY <2>1, <1>6
  <2> QED
    BY <2>1, <2>2, <2>3 DEF HInv, LeavesHere
<1> QED
  BY <1>8, <1>9, <1>10

(* The scene removes a ball.                                               *)
LEMMA HServeLeaveStep ==
    ASSUME HInv, raced \subseteq raced', NEW s \in Scenes, NEW t \in First(s), ServeLeave(s, t)
    PROVE  OneEnter' /\ EnterUp' /\ BallHeld' /\ LeavesHere'
<1>1. PICK a : a = Of(t)
  OBVIOUS
<1>2. PICK p : p = id[a]
  OBVIOUS
<1>3. /\ Serve(s, t, "leave", "nil") /\ task[t].kind = "leave"
      /\ balls' = [balls EXCEPT ![s][p] = Nil]
  BY <1>1, <1>2 DEF ServeLeave, Serve, Of
<1>4. t \in Tasks /\ Took(s, t, "nil")
  BY <1>3, ServeTakes DEF HInv
<1>5. /\ a \in Agents /\ p \in Players /\ At(t) = s
      /\ \A u \in Tasks : /\ Of(u)' = Of(u) /\ At(u)' = At(u) /\ task'[u].kind = task[u].kind
                          /\ u # t => task'[u].answer = task[u].answer
      /\ UNCHANGED <<id, status, sname>>
  BY <1>1, <1>2, <1>4 DEF Took
<1>6. /\ \A r \in Scenes, q \in Players : r # s \/ q # p => balls'[r][q] = balls[r][q]
      /\ balls'[s][p] = Nil
  BY <1>3, <1>5 DEF HInv, Inv, TypeOK
<1>7. OneEnter' /\ EnterUp'
  BY <1>5 DEF HInv, OneEnter, EnterUp
<1>8. BallHeld'
  <2> SUFFICES ASSUME NEW r \in Scenes, NEW q \in Players,
                      balls'[r][q] # Nil, balls'[r][q] \notin raced'
               PROVE  /\ status[balls'[r][q]] \in {"up", "leaving"}
                      /\ \/ sname[balls'[r][q]] = r
                         \/ \E u \in Tasks : Grant(u)' /\ Of(u) = balls'[r][q] /\ At(u) = r
    BY <1>5 DEF BallHeld, Serving, Pending
  <2>1. balls'[r][q] = balls[r][q]
    BY <1>6
  <2>2. PICK b \in Agents : b = balls[r][q]
    BY <2>1 DEF HInv, Inv, TypeOK
  <2>3. Serving(b) /\ (sname[b] = r \/ Pending(b, r))
    BY <2>1, <2>2 DEF HInv, BallHeld
  <2>4. ASSUME Pending(b, r)
        PROVE  \E u \in Tasks : Grant(u)' /\ Of(u) = b /\ At(u) = r
    <3>1. PICK u \in Tasks : Grant(u) /\ Of(u) = b /\ At(u) = r
      BY <2>4 DEF Pending
    <3>2. Grant(u)'
      BY <3>1, <1>3, <1>5 DEF Grant, Alive
    <3> QED
      BY <3>1, <3>2
  <2> QED
    BY <2>1, <2>2, <2>3, <2>4 DEF Serving
<1>9. LeavesHere'
  <2> SUFFICES ASSUME NEW x \in Tasks, task[x].kind = "leave", Of(x) \notin raced'
               PROVE  /\ At(x) = sname[Of(x)]
                      /\ task'[x].answer # "none" => balls'[At(x)][id[Of(x)]] # Of(x)
    BY <1>5 DEF LeavesHere
  <2>1. /\ At(x) \in Scenes /\ Of(x) \in Agents /\ id[Of(x)] \in Players /\ Of(x) # Nil
    BY NilAssumption DEF HInv, Inv, Asked, Born, TypeOK
  <2>2. CASE x = t
    BY <2>1, <2>2, <1>1, <1>2, <1>5, <1>6 DEF HInv, LeavesHere
  <2>3. CASE x # t
    <3>1. \/ balls'[At(x)][id[Of(x)]] = balls[At(x)][id[Of(x)]]
          \/ balls'[At(x)][id[Of(x)]] = Nil
      BY <2>1, <1>6
    <3> QED
      BY <2>1, <2>3, <3>1, <1>5 DEF HInv, LeavesHere
  <2> QED
    BY <2>2, <2>3
<1> QED
  BY <1>7, <1>8, <1>9

(* The other steps are calm.                                               *)
LEMMA CalmAgents ==
    ASSUME HInv,
           \/ UNCHANGED vars
           \/ \E a \in Agents, p \in Players : Start(a, p)
           \/ \E t \in Tasks, a \in Agents : Shift(t, a)
           \/ \E a \in Agents : KickAnswered(a) \/ Exit(a)
           \/ \E s \in Scenes : Frame(s)
    PROVE  Calm
<1>1. ASSUME UNCHANGED <<sname, balls, task>>,
             \A a \in Agents : Serving(a) => status'[a] = status[a] /\ id'[a] = id[a]
      PROVE  Calm
  <2>1. \A u \in Tasks : Grant(u) => Of(u) \in Agents
    BY DEF Grant, HInv, Inv, Asked
  <2> QED
    BY <1>1, <2>1 DEF Calm, Grant, Of, At, Serving, Alive
<1>2. CASE UNCHANGED vars
  BY <1>1, <1>2 DEF vars
<1>3. ASSUME NEW a \in Agents, NEW p \in Players, Start(a, p)
      PROVE  Calm
  BY <1>1, <1>3 DEF Start, HInv, Inv, TypeOK, Serving
<1>4. ASSUME NEW t \in Tasks, NEW a \in Agents, Shift(t, a)
      PROVE  Calm
  <2>1. Call(t, a, sname[a], "shift") /\ status' = status /\ sname[a] \in Scenes
    BY <1>4 DEF Shift, HInv, Inv, TypeOK
  <2>2. /\ task[t].kind = "none" /\ task'[t].kind = "shift"
        /\ \A u \in Tasks \ {t} : task'[u] = task[u] /\ Of(u)' = Of(u) /\ At(u)' = At(u)
        /\ UNCHANGED <<id, sname, balls>>
    BY <2>1, Called
  <2> QED
    BY <2>1, <2>2 DEF Calm, Grant, Alive
<1>5. ASSUME NEW a \in Agents, KickAnswered(a) \/ Exit(a)
      PROVE  Calm
  BY <1>1, <1>5 DEF KickAnswered, Exit, HInv, Inv, TypeOK, Serving
<1>6. ASSUME NEW s \in Scenes, Frame(s)
      PROVE  Calm
  BY <1>1, <1>6 DEF Frame, agentVars
<1> QED
  BY <1>2, <1>3, <1>4, <1>5, <1>6

LEMMA CalmAnswers ==
    ASSUME HInv, NEW t \in Tasks,
           \/ Shifted(t) \/ Dropped(t)
           \/ Entered(t) /\ task[t].answer # "true"
    PROVE  Calm
<1>1. /\ task' = [task EXCEPT ![t] = NoTask] /\ UNCHANGED <<id, sname, status, balls>>
      /\ Grant(t) => ~Serving(Of(t))
  BY DEF Shifted, Dropped, Entered, Resumed, agentVars, Grant, Of
<1>2. /\ task'[t].kind = "none"
      /\ \A u \in Tasks \ {t} : task'[u] = task[u] /\ Of(u)' = Of(u) /\ At(u)' = At(u)
  BY <1>1, TakenOff
<1> QED
  BY <1>1, <1>2 DEF Calm, Grant, Alive

LEMMA CalmServes ==
    ASSUME HInv, NEW s \in Scenes, NEW t \in First(s),
           ServeShift(s, t) \/ ServeEnterRefused(s, t) \/ ServeLeaveRefused(s, t)
    PROVE  Calm
<1>1. t \in Tasks /\ (Took(s, t, "nil") \/ Took(s, t, "false")) /\ balls' = balls
  BY ServeTakes DEF ServeShift, ServeEnterRefused, ServeLeaveRefused, Serve, HInv
<1>2. task[t].kind = "leave" => id[Of(t)] \notin Members(s)
  BY DEF ServeShift, ServeEnterRefused, ServeLeaveRefused, Serve, Of
<1>3. task[t].kind # "leave"
  <2> SUFFICES ASSUME task[t].kind = "leave" PROVE FALSE
    OBVIOUS
  <2>1. /\ balls[s][id[Of(t)]] = Of(t) /\ Of(t) \in Agents /\ id[Of(t)] \in Players
    BY <1>1 DEF HInv, Inv, Leaving, Took
  <2> QED
    BY <1>2, <2>1, NilAssumption DEF Members
<1> QED
  BY <1>1, <1>3 DEF Took, Calm, Grant, Alive

(* The history is kept beside the steps of Scene and holds none of them up. *)
LEMMA HNextRecords == HNext => Next /\ Record
<1>1. \A t \in Tasks : HResume(t) => Resume(t) /\ Record
  BY DEF HResume, Resume
<1>2. \A s \in Scenes : HServe(s) => SceneStep(s) /\ Record
  BY DEF HServe, SceneStep
<1> QED
  BY <1>1, <1>2 DEF HNext, Next

(* Every step keeps what is known of the enters that never overlapped.     *)
LEMMA HNextInv ==
    ASSUME HInv, [HNext]_HVars
    PROVE  HInv'
<1>1. [Next]_vars /\ Inv'
  BY NextInv, HNextRecords DEF HVars, HInv
<1>2. raced \subseteq raced'
  BY HNextRecords DEF Record, HVars
<1>3. CASE Calm
  BY <1>1, <1>2, <1>3, CalmStep DEF HInv
<1>4. CASE HNext
  <2>1. Next /\ Recorded
    BY <1>4, HNextRecords DEF Record, Recorded
  <2>2. ASSUME NEW t \in Tasks, NEW a \in Agents, NEW s \in Scenes, Enter(t, a, s)
        PROVE  HInv'
    BY <1>1, <2>1, <2>2, HEnterStep DEF HInv
  <2>3. ASSUME NEW t \in Tasks, NEW a \in Agents, Shift(t, a) \/ Kick(t, a)
        PROVE  HInv'
    BY <1>1, <1>3, <2>1, <2>3, HKickStep, CalmAgents DEF HInv
  <2>4. ASSUME NEW a \in Agents, KickOutside(a) \/ KickAnswered(a) \/ Exit(a)
        PROVE  HInv'
    BY <1>1, <1>3, <2>1, <2>4, HKickOutsideStep, CalmAgents DEF HInv
  <2>5. ASSUME NEW t \in Tasks, Resume(t)
        PROVE  HInv'
    BY <1>1, <1>3, <2>1, <2>5, HEnteredStep, HLeftStep, CalmAnswers DEF HInv, Resume
  <2>6. ASSUME NEW s \in Scenes, SceneStep(s)
        PROVE  HInv'
    BY <1>1, <1>2, <1>3, <2>6, HServeEnterStep, HServeLeaveStep, CalmServes DEF HInv, SceneStep
  <2>7. CASE \/ \E a \in Agents, p \in Players : Start(a, p)
             \/ \E s \in Scenes : Frame(s)
    BY <1>3, <2>7, CalmAgents
  <2> QED
    BY <2>1, <2>2, <2>3, <2>4, <2>5, <2>6, <2>7 DEF Next
<1>5. CASE UNCHANGED HVars
  BY <1>3, <1>5, CalmAgents DEF HVars
<1> QED
  BY <1>4, <1>5

(* Of two balls of a player one would be that of an enter that overlapped. *)
LEMMA HInvSound == HInv => SoundBalls
<1> SUFFICES ASSUME HInv, NEW p \in Players, NEW s1 \in Scenes, NEW s2 \in Scenes,
                    p \in Members(s1), p \in Members(s2),
                    balls[s1][p] \notin raced, balls[s2][p] \notin raced
             PROVE  s1 = s2 /\ Serving(balls[s1][p])
  BY DEF SoundBalls
<1>1. PICK a \in Agents, b \in Agents : a = balls[s1][p] /\ b = balls[s2][p]
  BY DEF Members, HInv, Inv, TypeOK
<1>2. /\ Serving(a) /\ (sname[a] = s1 \/ Pending(a, s1)) /\ id[a] = p
      /\ Serving(b) /\ (sname[b] = s2 \/ Pending(b, s2)) /\ id[b] = p
  BY <1>1 DEF Members, HInv, BallHeld, Inv, Made
<1>3. a = b
  BY <1>2, NilAssumption DEF HInv, Inv, OneServes, Serving
<1>4. CASE sname[a] # Nil
  BY <1>1, <1>2, <1>3, <1>4 DEF Pending, Grant, HInv, EnterUp
<1>5. CASE sname[a] = Nil
  <2>1. PICK t \in Tasks : Grant(t) /\ Of(t) = a /\ At(t) = s1
    BY <1>2, <1>5, NilAssumption DEF Pending
  <2>2. PICK u \in Tasks : Grant(u) /\ Of(u) = a /\ At(u) = s2
    BY <1>2, <1>3, <1>5, NilAssumption DEF Pending
  <2>3. t = u
    BY <2>1, <2>2, <1>1 DEF Grant, HInv, OneEnter
  <2> QED
    BY <1>1, <1>2, <2>1, <2>2, <2>3
<1> QED
  BY <1>1, <1>2, <1>4, <1>5

(* A scene that refuses an enter holds the ball of an enter that overlapped,*)
(* or the enter overlaps itself: otherwise the ball would be one that this  *)
(* very call has been granted.                                              *)
LEMMA HInvGrants == HInv => EntersGranted
<1> SUFFICES ASSUME HInv, NEW s \in Scenes, NEW t \in First(s),
                    task[t].kind = "enter", Of(t) \notin raced,
                    balls[s][id[Of(t)]] \notin raced, id[Of(t)] \in Members(s)
             PROVE  FALSE
  BY DEF EntersGranted, Of
<1> DEFINE a == Of(t)
           b == balls[s][id[a]]
<1>1. mailbox[s] \in Seq(Tasks) /\ mailbox[s] # <<>> /\ t = Head(mailbox[s])
  BY DEF HInv, Inv, TypeOK, First
<1>2. t \in Tasks /\ In(mailbox[s], t)
  BY <1>1, Tailed DEF HInv, Inv, Boxed
<1>3. a \in Agents /\ task[t].answer = "none"
  BY <1>2 DEF HInv, Inv, Boxed, Asked
<1>4. status[a] = "up" /\ sname[a] = Nil
  BY <1>2 DEF HInv, EnterUp
<1>5. id[a] \in Players /\ b \in Agents /\ id[b] = id[a]
  BY DEF Members, HInv, Inv, TypeOK, Made
<1>6. Serving(b) /\ (sname[b] = s \/ Pending(b, s))
  BY <1>5, NilAssumption DEF HInv, BallHeld
<1>7. a = b
  BY <1>3, <1>4, <1>5, <1>6, NilAssumption DEF HInv, Inv, OneServes, Serving
<1>8. PICK u \in Tasks : Grant(u) /\ Of(u) = a
  BY <1>4, <1>6, <1>7, NilAssumption DEF Pending
<1>9. u = t
  BY <1>2, <1>8 DEF Grant, HInv, OneEnter
<1> QED
  BY <1>3, <1>8, <1>9 DEF Grant

(* The enters that never overlapped are recorded as the invariant says.    *)
LEMMA HistoryInv == HSpec => []HInv
<1>1. HInit => HInv
  <2> SUFFICES ASSUME HInit PROVE HInv
    OBVIOUS
  <2>1. \A t \in Tasks : task[t].kind = "none"
    BY DEF HInit, Init, NoTask
  <2>2. \A s \in Scenes, p \in Players : balls[s][p] = Nil
    BY DEF HInit, Init
  <2>3. Inv
    BY InitInv DEF HInit
  <2> QED
    BY <2>1, <2>2, <2>3 DEF HInv, OneEnter, EnterUp, BallHeld, LeavesHere
<1> QED
  BY <1>1, HNextInv, PTL DEF HSpec

(* An enter that overlaps neither another nor the kick leaves no second    *)
(* ball and none behind: agent/scene.lua is sound for clients that wait.   *)
THEOREM BallsSound == HSpec => []SoundBalls
  BY HistoryInv, HInvSound, PTL

(* Such a client is never refused by a scene: "failed to enter"            *)
(* (agent/scene.lua:56) needs enters that overlapped.                      *)
THEOREM EntersAreGranted == HSpec => []EntersGranted
  BY HistoryInv, HInvGrants, PTL
=============================================================================
