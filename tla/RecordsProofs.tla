--------------------------- MODULE RecordsProofs ----------------------------
(***************************************************************************)
(* Theorems about Records for any requests, with any number of connections *)
(* that break.                                                             *)
(***************************************************************************)
EXTENDS Records, FiniteSetTheorems, SequenceTheorems, TLAPS

(* A channel that has a socket is not connecting; one that has none waits  *)
(* for no answer.                                                          *)
Connections ==
    \A ch \in Channels :
        /\ chan[ch].sock = 0 => chan[ch].reqs = <<>>
        /\ chan[ch].sock # 0 => /\ link[chan[ch].sock].state \in {"up", "down"}
                                /\ chan[ch].leader = Nil
        /\ chan[ch].leader = Nil => chan[ch].joined = <<>>

(* No two channels have the same socket.                                   *)
OneSocket ==
    \A x, y \in Channels : chan[x].sock # 0 /\ chan[x].sock = chan[y].sock => x = y

(* A socket that has not been opened has nothing under way.                *)
Unopened ==
    \A fd \in Fds :
        link[fd].state = "none" => link[fd].todo = <<>> /\ link[fd].done = <<>>

(* A coroutine waits in one place, at most once.                           *)
Waiting ==
    \A ch \in Channels :
        /\ chan[ch].leader # Nil => pc[chan[ch].leader] = "connect"
        /\ \A i \in DOMAIN chan[ch].joined : pc[chan[ch].joined[i]] = "join"
        /\ \A i \in DOMAIN chan[ch].reqs : pc[chan[ch].reqs[i]] = "wait"

OneLeader ==
    \A x, y \in Channels :
        chan[x].leader # Nil /\ chan[x].leader = chan[y].leader => x = y

OneJoined ==
    \A x, y \in Channels : \A i \in DOMAIN chan[x].joined, j \in DOMAIN chan[y].joined :
        chan[x].joined[i] = chan[y].joined[j] => x = y /\ i = j

OneWaits ==
    \A x, y \in Channels : \A i \in DOMAIN chan[x].reqs, j \in DOMAIN chan[y].reqs :
        chan[x].reqs[i] = chan[y].reqs[j] => x = y /\ i = j

(* InStep, one place of reqs at a time.                                    *)
Paired(reqs, on) ==
    /\ Len(on.done) <= Len(reqs)
    /\ \A i \in 1..Len(on.done) : reqs[i] = on.done[i].query
    /\ on.state = "up" =>
          /\ Len(reqs) = Len(on.done) + Len(on.todo)
          /\ \A i \in 1..Len(on.todo) : reqs[Len(on.done) + i] = on.todo[i]

AllPaired ==
    \A ch \in Channels :
        chan[ch].sock # 0 => Paired(chan[ch].reqs, link[chan[ch].sock])

(* A request that has not asked leaves no trace, and one that still waits  *)
(* has answered nothing.                                                   *)
Unasked ==
    \A r \in Requests :
        /\ pc[r] \in {"off", "idle", "connect", "join"} =>
              /\ ran[r] = <<>>
              /\ told[r] = "nothing"
              /\ \A fd \in Fds : /\ \A i \in DOMAIN link[fd].todo : link[fd].todo[i] # r
                                 /\ \A i \in DOMAIN link[fd].done : link[fd].done[i].query # r
        /\ pc[r] \notin {"done", "told"} => reply[r] = "none"

(* Until the server takes up a query, no answer says what became of it.    *)
Asked ==
    \A fd \in Fds : \A i \in DOMAIN link[fd].todo :
        LET q == link[fd].todo[i]
        IN q # Job => /\ ran[q] = <<>>
                      /\ reply[q] = "none"
                      /\ told[q] \in {"nothing", "failed"}

(* A query of a request is under way once.                                 *)
OneQuery ==
    \A x, y \in Fds : \A i \in DOMAIN link[x].todo, j \in DOMAIN link[y].todo :
        link[x].todo[i] = link[y].todo[j] /\ link[x].todo[i] # Job => x = y /\ i = j

(* What the server has answered is what it did, and will stay so.          *)
Done ==
    \A fd \in Fds : \A i \in DOMAIN link[fd].done :
        LET a == link[fd].done[i]
        IN a.query # Job =>
              /\ a.ok => ran[a.query] = Carried
              /\ ~a.ok => ran[a.query] = Refused
              /\ \A other \in Fds : \A j \in DOMAIN link[other].todo :
                    link[other].todo[j] # a.query

Said == \A r \in Requests : \A said \in {reply[r], told[r]} : BorneOut(r, said)

(* A visit is counted when its handler answers "true".                     *)
Counted == {r \in Requests : Kind[r] = "visit" /\ reply[r] = "true"}
Visits == fivemin.in + fivemin.out <= Cardinality(Counted)

(* The channel that a first login opens has not been used before; the job  *)
(* runs in a service that has connected.                                   *)
Unused ==
    /\ \A r \in Requests :
          pc[r] \in {"off", "idle"} => chan[r] = NewChannel /\ db # r
    /\ pc[Job] # "off" => db # Nil

(* The inductive invariant.                                                *)
Inv == /\ TypeOK /\ Connections /\ OneSocket /\ Unopened
       /\ Waiting /\ OneLeader /\ OneJoined /\ OneWaits /\ AllPaired
       /\ Unasked /\ Asked /\ OneQuery /\ Done /\ Said /\ Visits /\ Unused

USE DEF Answers, SocketChannels, Links

-----------------------------------------------------------------------------
(* What is in a concatenation, and where.                                  *)
LEMMA Concat ==
    ASSUME NEW S, NEW s \in Seq(S), NEW t \in Seq(S)
    PROVE  /\ s \o t \in Seq(S)
           /\ Len(s \o t) = Len(s) + Len(t)
           /\ \A i \in DOMAIN s : i \in DOMAIN (s \o t) /\ (s \o t)[i] = s[i]
           /\ \A j \in 1..Len(t) : (s \o t)[Len(s) + j] = t[j]
           /\ \A k \in DOMAIN (s \o t) :
                 \/ k \in DOMAIN s /\ (s \o t)[k] = s[k]
                 \/ k - Len(s) \in DOMAIN t /\ (s \o t)[k] = t[k - Len(s)]
  OBVIOUS

(* What Append and Tail leave in a sequence, and where.                    *)
LEMMA Appended ==
    ASSUME NEW S, NEW s \in Seq(S), NEW e \in S
    PROVE  /\ Append(s, e) \in Seq(S)
           /\ Len(Append(s, e)) = Len(s) + 1
           /\ \A i \in DOMAIN s : i \in DOMAIN Append(s, e) /\ Append(s, e)[i] = s[i]
           /\ Append(s, e)[Len(s) + 1] = e
           /\ \A k \in DOMAIN Append(s, e) :
                 \/ k \in DOMAIN s /\ Append(s, e)[k] = s[k]
                 \/ k = Len(s) + 1 /\ Append(s, e)[k] = e
  OBVIOUS

(* What Tail leaves in a sequence, and where.                              *)
LEMMA Tailed ==
    ASSUME NEW S, NEW s \in Seq(S), s # <<>>
    PROVE  /\ Tail(s) \in Seq(S)
           /\ Len(Tail(s)) = Len(s) - 1
           /\ Head(s) = s[1] /\ 1 \in DOMAIN s
           /\ \A i \in DOMAIN Tail(s) : i + 1 \in DOMAIN s /\ Tail(s)[i] = s[i + 1]
  OBVIOUS

(* A sequence has no elements exactly when it is empty.                    *)
LEMMA DomainIs ==
    ASSUME NEW S, NEW s \in Seq(S)
    PROVE  /\ DOMAIN s = 1..Len(s) /\ Len(s) \in Nat
           /\ \A i \in DOMAIN s : s[i] \in S
           /\ s = <<>> <=> Len(s) = 0
  OBVIOUS

(* What is in neither or only one of two sequences twice is not in their   *)
(* concatenation twice.                                                    *)
LEMMA OnceConcat ==
    ASSUME NEW S, NEW s \in Seq(S), NEW t \in Seq(S),
           \A i, j \in DOMAIN s : s[i] = s[j] => i = j,
           \A i, j \in DOMAIN t : t[i] = t[j] => i = j,
           \A i \in DOMAIN s, j \in DOMAIN t : s[i] # t[j]
    PROVE  \A i, j \in DOMAIN (s \o t) : (s \o t)[i] = (s \o t)[j] => i = j
  <1> DEFINE u == s \o t
  <1> SUFFICES ASSUME NEW i \in DOMAIN u, NEW j \in DOMAIN u, u[i] = u[j]
               PROVE  i = j
    OBVIOUS
  <1>1. \A k \in DOMAIN u : \/ k \in DOMAIN s /\ u[k] = s[k]
                            \/ k - Len(s) \in DOMAIN t /\ u[k] = t[k - Len(s)]
    BY Concat
  <1>2. i \in Int /\ j \in Int /\ Len(s) \in Int
    OBVIOUS
  <1> HIDE DEF u
  <1>3. CASE i \in DOMAIN s /\ u[i] = s[i]
    BY <1>1, <1>3
  <1>4. CASE i - Len(s) \in DOMAIN t /\ u[i] = t[i - Len(s)]
    <2>1. j - Len(s) \in DOMAIN t /\ u[j] = t[j - Len(s)]
      BY <1>1, <1>4
    <2>2. i - Len(s) = j - Len(s)
      BY <1>4, <2>1
    <2> QED
      BY <1>2, <2>2
  <1> QED
    BY <1>1, <1>3, <1>4

(* The parts of a channel and of a socket.                                 *)
LEMMA ChannelType ==
    ASSUME TypeOK, NEW ch \in Channels
    PROVE  /\ chan[ch].sock \in Fds \cup {0} /\ chan[ch].leader \in Callers \cup {Nil}
           /\ chan[ch].joined \in Seq(Callers) /\ chan[ch].reqs \in Seq(Callers)
           /\ \A i \in DOMAIN chan[ch].joined : chan[ch].joined[i] \in Callers
           /\ \A i \in DOMAIN chan[ch].reqs : chan[ch].reqs[i] \in Callers
  <1>1. chan[ch] \in SocketChannels
    BY DEF TypeOK
  <1> QED
    BY <1>1, DomainIs

(* The types of what a socket holds.                                       *)
LEMMA LinkType ==
    ASSUME TypeOK, NEW fd \in Fds
    PROVE  /\ link[fd].state \in {"none", "up", "down", "closed"}
           /\ link[fd].todo \in Seq(Callers) /\ link[fd].done \in Seq(Answers)
           /\ \A i \in DOMAIN link[fd].todo : link[fd].todo[i] \in Callers
           /\ \A i \in DOMAIN link[fd].done : /\ link[fd].done[i].query \in Callers
                                              /\ link[fd].done[i].ok \in BOOLEAN
  <1>1. link[fd] \in Links
    BY DEF TypeOK
  <1>2. \A i \in DOMAIN link[fd].done : link[fd].done[i] \in Answers
    BY <1>1, DomainIs
  <1> QED
    BY <1>1, <1>2, DomainIs

(* What losing its leader or its socket makes of a channel, and its close  *)
(* of a socket.                                                            *)
LEMMA ChannelSet ==
    ASSUME NEW o \in SocketChannels
    PROVE  /\ [o EXCEPT !.leader = Nil, !.joined = <<>>] \in SocketChannels
           /\ [o EXCEPT !.sock = 0, !.reqs = <<>>] \in SocketChannels
  <1>1. \A s \in Fds \cup {0}, q \in Seq(Callers) :
            [o EXCEPT !.sock = s, !.reqs = q] \in SocketChannels
    OBVIOUS
  <1>2. \A l \in Callers \cup {Nil}, q \in Seq(Callers) :
            [o EXCEPT !.leader = l, !.joined = q] \in SocketChannels
    OBVIOUS
  <1>3. <<>> \in Seq(Callers)
    OBVIOUS
  <1> QED
    BY <1>1, <1>2, <1>3

(* A socket that is closed is still one.                                   *)
LEMMA LinkSet ==
    ASSUME NEW o \in Links
    PROVE  [o EXCEPT !.state = "closed", !.done = <<>>] \in Links
  <1>1. \A q \in Seq(Answers) : [o EXCEPT !.state = "closed", !.done = q] \in Links
    OBVIOUS
  <1>2. <<>> \in Seq(Answers)
    OBVIOUS
  <1> QED
    BY <1>1, <1>2

-----------------------------------------------------------------------------
(* The caller takes the lead: it connects, and waits for nothing else.     *)
LEMMA LeadStep ==
    ASSUME Inv, NEW c \in Callers, NEW ch \in Channels, pc[c] = "idle",
           chan[ch].sock = 0, chan[ch].leader = Nil, Lead(c, ch),
           \A r \in Requests \ {c} : pc[r] \in {"off", "idle"} => r # ch,
           UNCHANGED <<db, ran, reply, told, fivemin, left>>
    PROVE  Inv'
  <1> USE DEF Callers
  <1>1. c # Nil
    BY RecordsAssumption
  <1>2. /\ chan \in [Channels -> SocketChannels]
        /\ pc \in [Callers -> {"off", "idle", "connect", "join", "wait", "done", "told"}]
    BY DEF Inv, TypeOK
  <1>3. /\ chan' \in [Channels -> SocketChannels]
        /\ \A x \in Channels \ {ch} : chan'[x] = chan[x]
    BY ZenonT(30), <1>2 DEF Lead
  <1>4. \A x \in Channels : chan'[x].sock = chan[x].sock
    BY <1>2 DEF Lead
  <1>5. \A x \in Channels : chan'[x].joined = chan[x].joined
    BY <1>2 DEF Lead
  <1>6. \A x \in Channels : chan'[x].reqs = chan[x].reqs
    BY <1>2 DEF Lead
  <1>7. \A x \in Channels : chan'[x].leader = IF x = ch THEN c ELSE chan[x].leader
    BY <1>2 DEF Lead
  <1>8. /\ pc' \in [Callers -> {"off", "idle", "connect", "join", "wait", "done", "told"}]
        /\ \A x \in Callers : pc'[x] = IF x = c THEN "connect" ELSE pc[x]
    BY <1>2 DEF Lead
  <1>9. link' = link
    BY DEF Lead
  <1>10. TypeOK'
    BY <1>3, <1>8, <1>9 DEF Inv, TypeOK
  <1>11. Connections'
    BY <1>1, <1>4, <1>5, <1>6, <1>7, <1>9 DEF Inv, Connections
  <1>12. OneSocket' /\ Unopened'
    BY <1>4, <1>9 DEF Inv, OneSocket, Unopened
  <1>13. Waiting'
    <2>1. \A x \in Channels : chan'[x].leader # Nil => pc'[chan'[x].leader] = "connect"
      BY SMTT(30), <1>2, <1>7, <1>8 DEF Inv, Waiting
    <2>2. \A x \in Channels : \A i \in DOMAIN chan[x].joined : pc'[chan[x].joined[i]] = "join"
      BY <1>8, ChannelType DEF Inv, Waiting
    <2>3. \A x \in Channels : \A i \in DOMAIN chan[x].reqs : pc'[chan[x].reqs[i]] = "wait"
      BY <1>8, ChannelType DEF Inv, Waiting
    <2> QED
      BY <2>1, <2>2, <2>3, <1>5, <1>6 DEF Waiting
  <1>14. OneLeader'
    BY <1>1, <1>7, <1>2 DEF Inv, OneLeader, Waiting
  <1>15. OneJoined' /\ OneWaits'
    BY <1>5, <1>6 DEF Inv, OneJoined, OneWaits
  <1>16. AllPaired'
    <2>1. \A x \in Channels : chan[x].sock # 0 => Paired(chan[x].reqs, link[chan[x].sock])
      BY DEF Inv, AllPaired
    <2> QED
      BY <2>1, <1>4, <1>6, <1>9 DEF AllPaired
  <1>17. Unasked' /\ Asked' /\ OneQuery' /\ Done' /\ Said' /\ Visits'
    BY <1>8, <1>9 DEF Inv, Unasked, Asked, OneQuery, Done, Said, BorneOut, Visits, Counted
  <1>18. Unused'
    BY <1>3, <1>8, RecordsAssumption DEF Inv, Unused, Channels
  <1> QED
    BY <1>10, <1>11, <1>12, <1>13, <1>14, <1>15, <1>16, <1>17, <1>18 DEF Inv

(* The caller joins those that wait for the leader.                        *)
LEMMA JoinStep ==
    ASSUME Inv, NEW c \in Callers, NEW ch \in Channels, pc[c] = "idle",
           chan[ch].sock = 0, chan[ch].leader # Nil, Join(c, ch),
           UNCHANGED <<db, ran, reply, told, fivemin, left>>
    PROVE  Inv'
  <1> USE DEF Callers
  <1>1. TypeOK
    BY DEF Inv
  <1>2. /\ chan \in [Channels -> SocketChannels]
        /\ pc \in [Callers -> {"off", "idle", "connect", "join", "wait", "done", "told"}]
    BY <1>1 DEF TypeOK
  <1> DEFINE queue == Append(chan[ch].joined, c)
  <1>3. /\ queue \in Seq(Callers)
        /\ \A k \in DOMAIN queue : \/ /\ k \in DOMAIN chan[ch].joined
                                      /\ queue[k] = chan[ch].joined[k]
                                   \/ k = Len(chan[ch].joined) + 1 /\ queue[k] = c
    BY <1>1, ChannelType, Appended
  <1>4. chan' = [chan EXCEPT ![ch].joined = queue]
    BY DEF Join
  <1> HIDE DEF queue
  <1>5. /\ chan' \in [Channels -> SocketChannels]
        /\ \A x \in Channels \ {ch} : chan'[x] = chan[x]
    BY ZenonT(30), <1>2, <1>3, <1>4
  <1>6. \A x \in Channels : chan'[x].sock = chan[x].sock
    BY <1>2, <1>4
  <1>7. \A x \in Channels : chan'[x].leader = chan[x].leader
    BY <1>2, <1>4
  <1>8. \A x \in Channels : chan'[x].reqs = chan[x].reqs
    BY <1>2, <1>4
  <1>9. \A x \in Channels : chan'[x].joined = IF x = ch THEN queue ELSE chan[x].joined
    BY <1>2, <1>4
  <1>10. /\ pc' \in [Callers -> {"off", "idle", "connect", "join", "wait", "done", "told"}]
         /\ \A x \in Callers : pc'[x] = IF x = c THEN "join" ELSE pc[x]
    BY <1>2 DEF Join
  <1>11. link' = link
    BY DEF Join
  <1>12. TypeOK'
    BY <1>5, <1>10, <1>11 DEF Inv, TypeOK
  <1>13. Connections'
    BY <1>6, <1>7, <1>8, <1>9, <1>11 DEF Inv, Connections
  <1>14. OneSocket' /\ Unopened'
    BY <1>6, <1>11 DEF Inv, OneSocket, Unopened
  <1>15. Waiting'
    <2>1. \A x \in Channels : chan[x].leader # Nil => pc'[chan[x].leader] = "connect"
      BY <1>1, <1>10, ChannelType DEF Inv, Waiting
    <2>2. \A x \in Channels : \A i \in DOMAIN chan[x].joined : pc'[chan[x].joined[i]] = "join"
      BY <1>1, <1>10, ChannelType DEF Inv, Waiting
    <2>3. \A x \in Channels : \A i \in DOMAIN chan[x].reqs : pc'[chan[x].reqs[i]] = "wait"
      BY <1>1, <1>10, ChannelType DEF Inv, Waiting
    <2>4. \A i \in DOMAIN queue : pc'[queue[i]] = "join"
      BY <1>3, <1>10, <2>2
    <2> QED
      BY <2>1, <2>2, <2>3, <2>4, <1>7, <1>8, <1>9 DEF Waiting
  <1>16. OneLeader' /\ OneWaits'
    BY <1>7, <1>8 DEF Inv, OneLeader, OneWaits
  <1>17. OneJoined'
    <2>1. \A x \in Channels : \A i \in DOMAIN chan[x].joined : chan[x].joined[i] # c
      BY DEF Inv, Waiting
    <2>2. \A x, y \in Channels : \A i \in DOMAIN chan[x].joined, j \in DOMAIN chan[y].joined :
             chan[x].joined[i] = chan[y].joined[j] => x = y /\ i = j
      BY DEF Inv, OneJoined
    <2>3. \A i, j \in DOMAIN queue : queue[i] = queue[j] => i = j
      BY <1>3, <2>1, <2>2
    <2>4. \A y \in Channels \ {ch} : \A i \in DOMAIN queue, j \in DOMAIN chan[y].joined :
             queue[i] # chan[y].joined[j]
      BY <1>3, <2>1, <2>2
    <2> QED
      BY <1>9, <2>2, <2>3, <2>4 DEF OneJoined
  <1>18. AllPaired'
    <2>1. \A x \in Channels : chan[x].sock # 0 => Paired(chan[x].reqs, link[chan[x].sock])
      BY DEF Inv, AllPaired
    <2> QED
      BY <2>1, <1>6, <1>8, <1>11 DEF AllPaired
  <1>19. Unasked' /\ Asked' /\ OneQuery' /\ Done' /\ Said' /\ Visits'
    BY <1>10, <1>11 DEF Inv, Unasked, Asked, OneQuery, Done, Said, BorneOut, Visits, Counted
  <1>20. Unused'
    <2>1. ASSUME NEW r \in Requests, pc[r] \in {"off", "idle"}
          PROVE  r # ch /\ r \in Channels
      BY <2>1 DEF Inv, Unused, Channels, NewChannel
    <2> QED
      BY <2>1, <1>5, <1>10 DEF Inv, Unused
  <1> QED
    BY <1>12, <1>13, <1>14, <1>15, <1>16, <1>17, <1>18, <1>19, <1>20 DEF Inv

-----------------------------------------------------------------------------
(* Queries written to a socket keep reqs in step with it, also when it is  *)
(* a new one and when they are lost.                                       *)
LEMMA PairedMore ==
    ASSUME NEW reqs \in Seq(Callers), NEW cs \in Seq(Callers),
           NEW on \in Links, NEW new \in Links,
           Paired(reqs, on), on.state # "closed",
           on.state = "none" => reqs = <<>> /\ on.todo = <<>> /\ on.done = <<>>,
           new.state = IF on.state = "none" THEN "up" ELSE on.state,
           new.todo = IF on.state = "down" THEN on.todo ELSE on.todo \o cs,
           new.done = on.done
    PROVE  Paired(reqs \o cs, new)
  <1> DEFINE d == Len(on.done)
             l == Len(on.todo)
  <1>1. /\ on.todo \in Seq(Callers) /\ on.done \in Seq(Answers)
        /\ d \in Nat /\ l \in Nat /\ Len(reqs) \in Nat /\ Len(cs) \in Nat
    OBVIOUS
  <1>2. /\ Len(reqs \o cs) = Len(reqs) + Len(cs)
        /\ \A i \in 1..Len(reqs) : (reqs \o cs)[i] = reqs[i]
        /\ \A j \in 1..Len(cs) : (reqs \o cs)[Len(reqs) + j] = cs[j]
    BY Concat
  <1>3. /\ Len(on.todo \o cs) = l + Len(cs)
        /\ \A k \in 1..l : (on.todo \o cs)[k] = on.todo[k]
        /\ \A j \in 1..Len(cs) : (on.todo \o cs)[l + j] = cs[j]
    BY <1>1, Concat
  <1>4. d <= Len(reqs) /\ \A i \in 1..d : reqs[i] = on.done[i].query
    BY DEF Paired
  <1>5. /\ d <= Len(reqs \o cs)
        /\ \A i \in 1..d : (reqs \o cs)[i] = on.done[i].query
    BY <1>1, <1>2, <1>4
  <1>6. ASSUME on.state # "down"
        PROVE  /\ Len(reqs \o cs) = d + Len(on.todo \o cs)
               /\ \A i \in 1..Len(on.todo \o cs) :
                     (reqs \o cs)[d + i] = (on.todo \o cs)[i]
    <2>1. Len(reqs) = d + l /\ \A i \in 1..l : reqs[d + i] = on.todo[i]
      BY <1>6, <1>1 DEF Paired
    <2>2. ASSUME NEW i \in 1..(l + Len(cs))
          PROVE  (reqs \o cs)[d + i] = (on.todo \o cs)[i]
      <3>1. CASE i \in 1..l
        <4>1. d + i \in 1..Len(reqs)
          BY <3>1, <2>1, <1>1
        <4> QED
          BY <3>1, <4>1, <2>1, <1>2, <1>3
      <3>2. CASE i \notin 1..l
        <4> DEFINE j == i - l
        <4>1. j \in 1..Len(cs) /\ d + i = Len(reqs) + j /\ i = l + j
          BY <3>2, <2>1, <1>1
        <4> QED
          BY <4>1, <1>2, <1>3
      <3> QED
        BY <3>1, <3>2
    <2> QED
      BY SMTT(30), <2>1, <2>2, <1>1, <1>2, <1>3
  <1> QED
    BY <1>5, <1>6 DEF Paired

(* Coroutines that have a socket at last write their queries, in order.    *)
LEMMA WriteStep ==
    ASSUME Inv, NEW ch \in Channels, NEW fd \in Fds, NEW cs \in Seq(Callers),
           \/ chan[ch].sock = fd
           \/ chan[ch].sock = 0 /\ link[fd].state = "none",
           \A i \in DOMAIN cs : pc[cs[i]] \in {"idle", "connect", "join"},
           \A i, j \in DOMAIN cs : cs[i] = cs[j] => i = j,
           \A y \in Channels \ {ch} : /\ chan[y].leader \notin Elements(cs)
                                      /\ \A i \in DOMAIN chan[y].joined :
                                            chan[y].joined[i] \notin Elements(cs),
           Write(ch, fd, cs), db' \in {db, ch},
           \A r \in Requests : pc'[r] \in {"off", "idle"} => r # ch,
           UNCHANGED <<ran, reply, told, fivemin, left>>
    PROVE  Inv'
  <1> USE DEF Callers
  <1>1. TypeOK
    BY DEF Inv
  <1>2. /\ chan \in [Channels -> SocketChannels]
        /\ link \in [Fds -> Links]
        /\ pc \in [Callers -> {"off", "idle", "connect", "join", "wait", "done", "told"}]
    BY <1>1 DEF TypeOK
  <1> DEFINE reqs == chan[ch].reqs \o cs
             state == IF link[fd].state = "none" THEN "up" ELSE link[fd].state
             todo == IF link[fd].state = "down" THEN link[fd].todo ELSE link[fd].todo \o cs
             new == [link[fd] EXCEPT !.state = state, !.todo = todo]
  <1>3. /\ reqs \in Seq(Callers)
        /\ \A k \in DOMAIN reqs :
              \/ k \in DOMAIN chan[ch].reqs /\ reqs[k] = chan[ch].reqs[k]
              \/ /\ k - Len(chan[ch].reqs) \in DOMAIN cs
                 /\ reqs[k] = cs[k - Len(chan[ch].reqs)]
    BY <1>1, ChannelType, Concat
  <1>4. /\ link[fd].todo \o cs \in Seq(Callers)
        /\ \A k \in DOMAIN (link[fd].todo \o cs) :
              \/ k \in DOMAIN link[fd].todo /\ (link[fd].todo \o cs)[k] = link[fd].todo[k]
              \/ /\ k - Len(link[fd].todo) \in DOMAIN cs
                 /\ (link[fd].todo \o cs)[k] = cs[k - Len(link[fd].todo)]
    BY <1>1, LinkType, Concat
  <1>5. /\ state \in {"up", "down", "closed"}
        /\ todo \in Seq(Callers)
        /\ \A k \in DOMAIN todo :
              \/ k \in DOMAIN link[fd].todo /\ todo[k] = link[fd].todo[k]
              \/ /\ k - Len(link[fd].todo) \in DOMAIN cs
                 /\ todo[k] = cs[k - Len(link[fd].todo)]
    BY <1>1, <1>4, LinkType
  <1>6. /\ new \in Links
        /\ new.done = link[fd].done /\ new.state = state /\ new.todo = todo
    <2>1. link[fd] \in Links
      BY <1>2
    <2>2. state \in {"none", "up", "down", "closed"} /\ todo \in Seq(Callers)
      BY <1>5
    <2> HIDE DEF state, todo
    <2> QED
      BY <2>1, <2>2
  <1>7. link' = [link EXCEPT ![fd] = new]
    <2>1. link' = [link EXCEPT ![fd].state = state, ![fd].todo = todo]
      BY DEF Write
    <2> HIDE DEF state, todo
    <2> QED
      BY <2>1, <1>2
  <1>8. chan' = [chan EXCEPT ![ch] = [sock |-> fd, leader |-> Nil, joined |-> <<>>,
                                      reqs |-> reqs]]
    BY <1>2 DEF Write
  <1>9. Paired(reqs, new)
    <2>1. chan[ch].sock = fd => Paired(chan[ch].reqs, link[fd]) /\ link[fd].state \in {"up", "down"}
      BY DEF Inv, AllPaired, Connections, Fds
    <2>2. chan[ch].sock = 0 => chan[ch].reqs = <<>>
      BY DEF Inv, Connections
    <2>3. link[fd].state = "none" => link[fd].todo = <<>> /\ link[fd].done = <<>>
      BY DEF Inv, Unopened
    <2>4. /\ Paired(chan[ch].reqs, link[fd]) /\ link[fd].state # "closed"
          /\ link[fd].state = "none" => chan[ch].reqs = <<>>
      <3>1. CASE chan[ch].sock = fd
        BY <3>1, <2>1
      <3>2. CASE chan[ch].sock = 0 /\ link[fd].state = "none"
        BY <3>2, <2>2, <2>3 DEF Paired
      <3> QED
        BY <3>1, <3>2
    <2>5. link[fd] \in Links /\ chan[ch].reqs \in Seq(Callers)
      BY <1>1, <1>2, ChannelType
    <2> QED
      <3> DEFINE r == chan[ch].reqs
                 on == link[fd]
      <3>1. /\ new.state = IF on.state = "none" THEN "up" ELSE on.state
            /\ new.todo = IF on.state = "down" THEN on.todo ELSE on.todo \o cs
            /\ new.done = on.done
        BY <1>6
      <3>2. /\ r \in Seq(Callers) /\ on \in Links /\ new \in Links /\ Paired(r, on)
            /\ on.state # "closed"
            /\ on.state = "none" => r = <<>> /\ on.todo = <<>> /\ on.done = <<>>
        BY <2>3, <2>4, <2>5, <1>6
      <3> HIDE DEF r, on, new
      <3>3. Paired(r \o cs, new)
        BY <3>1, <3>2, PairedMore
      <3> QED
        BY <3>3 DEF r
  <1> HIDE DEF reqs, state, todo, new
  <1>10. /\ chan' \in [Channels -> SocketChannels]
         /\ \A x \in Channels \ {ch} : chan'[x] = chan[x]
         /\ chan'[ch].sock = fd /\ chan'[ch].leader = Nil
         /\ chan'[ch].joined = <<>> /\ chan'[ch].reqs = reqs
    BY <1>2, <1>3, <1>8
  <1>sock. \A x \in Channels : chan'[x].sock = IF x = ch THEN fd ELSE chan[x].sock
    BY <1>10
  <1>leader. \A x \in Channels : chan'[x].leader = IF x = ch THEN Nil ELSE chan[x].leader
    BY <1>10
  <1>joined. \A x \in Channels : chan'[x].joined = IF x = ch THEN <<>> ELSE chan[x].joined
    BY <1>10
  <1>reqs. \A x \in Channels : chan'[x].reqs = IF x = ch THEN reqs ELSE chan[x].reqs
    BY <1>10
  <1>11. /\ link' \in [Fds -> Links]
         /\ \A x \in Fds : link'[x] = IF x = fd THEN new ELSE link[x]
    BY <1>2, <1>6, <1>7
  <1>12. /\ pc' \in [Callers -> {"off", "idle", "connect", "join", "wait", "done", "told"}]
         /\ \A x \in Callers \ Elements(cs) : pc'[x] = pc[x]
         /\ \A x \in Elements(cs) : pc'[x] = "wait"
    BY <1>2, DomainIs DEF Write, Elements
  <1>13. \A x \in Elements(cs) : /\ x \in Callers
                                 /\ pc[x] \in {"idle", "connect", "join"}
    BY DomainIs DEF Elements
  <1>14. \A i \in DOMAIN cs : cs[i] \in Elements(cs)
    BY DEF Elements
  <1>15. \A x \in Channels \ {ch} : chan[x].sock # fd
    <2>1. \A x, y \in Channels :
             chan[x].sock # 0 /\ chan[x].sock = chan[y].sock => x = y
      BY DEF Inv, OneSocket
    <2>2. \A x \in Channels : chan[x].sock # 0 => link[chan[x].sock].state \in {"up", "down"}
      BY DEF Inv, Connections
    <2>3. fd # 0
      BY RecordsAssumption DEF Fds
    <2> QED
      BY <2>1, <2>2, <2>3
  <1>16. \A x \in Channels : \A i \in DOMAIN chan[x].reqs :
            /\ pc'[chan[x].reqs[i]] = "wait"
            /\ chan[x].reqs[i] \notin Elements(cs)
    <2>1. \A x \in Channels : \A i \in DOMAIN chan[x].reqs : pc[chan[x].reqs[i]] = "wait"
      BY DEF Inv, Waiting
    <2> QED
      BY <2>1, <1>1, <1>12, <1>13, ChannelType
  <1>17. \A x \in Elements(cs) \cap Requests :
            /\ ran[x] = <<>> /\ told[x] = "nothing" /\ reply[x] = "none"
            /\ \A y \in Fds : /\ \A i \in DOMAIN link[y].todo : link[y].todo[i] # x
                              /\ \A i \in DOMAIN link[y].done : link[y].done[i].query # x
    BY <1>13 DEF Inv, Unasked
  <1>18. /\ \A x \in Fds : link'[x].done = link[x].done
         /\ \A x \in Fds : \A k \in DOMAIN link'[x].todo :
               \/ k \in DOMAIN link[x].todo /\ link'[x].todo[k] = link[x].todo[k]
               \/ /\ x = fd
                  /\ k - Len(link[fd].todo) \in DOMAIN cs
                  /\ link'[x].todo[k] = cs[k - Len(link[fd].todo)]
    BY <1>5, <1>6, <1>11
  <1>19. TypeOK'
    <2>1. db' \in Channels \cup {Nil}
      BY <1>1 DEF TypeOK
    <2>2. chan' \in [Channels -> SocketChannels] /\ link' \in [Fds -> Links]
      BY <1>10, <1>11
    <2> QED
      BY <1>1, <1>12, <2>1, <2>2 DEF TypeOK
  <1>20. Connections'
    <2>1. \A x \in Channels :
             /\ chan[x].sock = 0 => chan[x].reqs = <<>>
             /\ chan[x].sock # 0 => /\ link[chan[x].sock].state \in {"up", "down"}
                                    /\ chan[x].leader = Nil
             /\ chan[x].leader = Nil => chan[x].joined = <<>>
      BY DEF Inv, Connections
    <2>2. fd # 0
      BY RecordsAssumption DEF Fds
    <2>3. new.state \in {"up", "down"}
      BY <2>1, <2>2, <1>6
      DEF state
    <2>4. \A x \in Channels \ {ch} : chan[x].sock # 0 =>
              link'[chan[x].sock].state \in {"up", "down"}
      <3>1. \A x \in Channels : chan[x].sock # 0 => chan[x].sock \in Fds
        BY <1>1, ChannelType
      <3> QED
        BY <3>1, <2>1, <1>11, <1>15
    <2>5. link'[chan'[ch].sock].state \in {"up", "down"}
      BY <2>3, <1>10, <1>11
    <2> QED
      BY SMTT(30), <2>1, <2>2, <2>4, <2>5, <1>10 DEF Connections
  <1>21. OneSocket'
    <2>1. \A x, y \in Channels :
             chan[x].sock # 0 /\ chan[x].sock = chan[y].sock => x = y
      BY DEF Inv, OneSocket
    <2> QED
      BY <2>1, <1>sock, <1>15 DEF OneSocket
  <1>22. Unopened'
    <2>1. new.state # "none"
      BY <1>5, <1>6
    <2> QED
      BY <2>1, <1>11 DEF Inv, Unopened
  <1>23. Waiting'
    <2>1. \A x \in Channels :
             /\ chan[x].leader # Nil => pc[chan[x].leader] = "connect"
             /\ \A i \in DOMAIN chan[x].joined : pc[chan[x].joined[i]] = "join"
      BY DEF Inv, Waiting
    <2>2. \A x \in Channels \ {ch} :
             /\ chan[x].leader # Nil => pc'[chan[x].leader] = "connect"
             /\ \A i \in DOMAIN chan[x].joined : pc'[chan[x].joined[i]] = "join"
      BY SMTT(30), <2>1, <1>1, <1>12, ChannelType
    <2>3. \A k \in DOMAIN reqs : pc'[reqs[k]] = "wait"
      BY <1>3, <1>12, <1>14, <1>16
    <2> QED
      BY <2>2, <2>3, <1>leader, <1>joined, <1>reqs, <1>16 DEF Waiting
  <1>24. OneLeader'
    <2>1. \A x, y \in Channels :
             chan[x].leader # Nil /\ chan[x].leader = chan[y].leader => x = y
      BY DEF Inv, OneLeader
    <2> QED
      BY <2>1, <1>leader DEF OneLeader
  <1>25. OneJoined'
    <2>1. \A x, y \in Channels : \A i \in DOMAIN chan[x].joined, j \in DOMAIN chan[y].joined :
             chan[x].joined[i] = chan[y].joined[j] => x = y /\ i = j
      BY DEF Inv, OneJoined
    <2> QED
      BY <2>1, <1>joined DEF OneJoined
  <1>26. OneWaits'
    <2>1. \A x, y \in Channels : \A i \in DOMAIN chan[x].reqs, j \in DOMAIN chan[y].reqs :
             chan[x].reqs[i] = chan[y].reqs[j] => x = y /\ i = j
      BY DEF Inv, OneWaits
    <2>2. \A i, j \in DOMAIN reqs : reqs[i] = reqs[j] => i = j
      <3>1. /\ \A i, j \in DOMAIN chan[ch].reqs : chan[ch].reqs[i] = chan[ch].reqs[j] => i = j
            /\ \A i \in DOMAIN chan[ch].reqs, j \in DOMAIN cs : chan[ch].reqs[i] # cs[j]
        BY <2>1, <1>14, <1>16
      <3>2. chan[ch].reqs \in Seq(Callers)
        BY <1>1, ChannelType
      <3> QED
        BY <3>1, <3>2, OnceConcat DEF reqs
    <2>3. \A y \in Channels \ {ch} : \A i \in DOMAIN reqs, j \in DOMAIN chan[y].reqs :
             reqs[i] # chan[y].reqs[j]
      BY <2>1, <1>3, <1>14, <1>16
    <2> QED
      BY <2>1, <2>2, <2>3, <1>reqs DEF OneWaits
  <1>27. AllPaired'
    <2>1. \A x \in Channels : chan[x].sock # 0 => /\ Paired(chan[x].reqs, link[chan[x].sock])
                                                  /\ chan[x].sock \in Fds
      BY <1>1, ChannelType DEF Inv, AllPaired
    <2>2. \A x \in Channels \ {ch} : chan[x].sock # 0 =>
              Paired(chan[x].reqs, link'[chan[x].sock])
      BY <2>1, <1>11, <1>15
    <2> QED
      BY <2>2, <1>9, <1>10, <1>11 DEF AllPaired
  <1>28. Unasked'
    <2> SUFFICES ASSUME NEW r \in Requests
                 PROVE  /\ pc'[r] \in {"off", "idle", "connect", "join"} =>
                              /\ ran[r] = <<>> /\ told[r] = "nothing"
                              /\ \A x \in Fds :
                                    /\ \A i \in DOMAIN link'[x].todo : link'[x].todo[i] # r
                                    /\ \A i \in DOMAIN link[x].done : link[x].done[i].query # r
                        /\ pc'[r] \notin {"done", "told"} => reply[r] = "none"
      BY <1>18 DEF Unasked
    <2>1. CASE r \in Elements(cs)
      BY <2>1, <1>12, <1>17
    <2>2. CASE r \notin Elements(cs)
      BY <2>2, <1>12, <1>14, <1>18 DEF Inv, Unasked
    <2> QED
      BY <2>1, <2>2
  <1>29. Asked'
    <2>1. \A x \in Fds : \A k \in DOMAIN link'[x].todo :
             link'[x].todo[k] # Job =>
                /\ ran[link'[x].todo[k]] = <<>>
                /\ reply[link'[x].todo[k]] = "none"
                /\ told[link'[x].todo[k]] \in {"nothing", "failed"}
      BY <1>13, <1>14, <1>17, <1>18 DEF Inv, Asked
    <2> QED
      BY <2>1 DEF Asked
  <1>30. OneQuery'
    <2>1. \A x, y \in Fds : \A i \in DOMAIN link[x].todo, j \in DOMAIN link[y].todo :
             link[x].todo[i] = link[y].todo[j] /\ link[x].todo[i] # Job => x = y /\ i = j
      BY DEF Inv, OneQuery
    <2> SUFFICES ASSUME NEW x \in Fds, NEW y \in Fds,
                        NEW i \in DOMAIN link'[x].todo, NEW j \in DOMAIN link'[y].todo,
                        link'[x].todo[i] = link'[y].todo[j], link'[x].todo[i] # Job
                 PROVE  x = y /\ i = j
      BY DEF OneQuery
    <2>2. Len(link[fd].todo) \in Nat /\ i \in Int /\ j \in Int
      BY <1>1, <1>11, LinkType, DomainIs
    <2>3. link'[x].todo[i] \in Requests \cap Elements(cs) =>
             /\ x = fd /\ i - Len(link[fd].todo) \in DOMAIN cs
             /\ link'[x].todo[i] = cs[i - Len(link[fd].todo)]
             /\ y = fd /\ j - Len(link[fd].todo) \in DOMAIN cs
             /\ link'[y].todo[j] = cs[j - Len(link[fd].todo)]
      BY <1>17, <1>18
    <2>4. link'[x].todo[i] \in Callers
      BY <1>11, DomainIs
    <2>5. CASE link'[x].todo[i] \in Elements(cs)
      BY <2>2, <2>3, <2>4, <2>5
    <2>6. CASE link'[x].todo[i] \notin Elements(cs)
      BY <2>6, <2>1, <1>14, <1>18
    <2> QED
      BY <2>5, <2>6
  <1>31. Done'
    <2>1. ASSUME NEW x \in Fds, NEW i \in DOMAIN link[x].done, link[x].done[i].query # Job
          PROVE  /\ link[x].done[i].ok => ran[link[x].done[i].query] = Carried
                 /\ ~link[x].done[i].ok => ran[link[x].done[i].query] = Refused
                 /\ \A y \in Fds : \A j \in DOMAIN link'[y].todo :
                       link'[y].todo[j] # link[x].done[i].query
      <3>1. link[x].done[i].query \in Requests
        BY <2>1, <1>1, LinkType
      <3> QED
        BY <2>1, <3>1, <1>14, <1>17, <1>18 DEF Inv, Done
    <2> QED
      BY <2>1, <1>18 DEF Done
  <1>32. Said' /\ Visits'
    BY DEF Inv, Said, BorneOut, Visits, Counted
  <1>33. Unused'
    <2>1. \A r \in Requests : pc'[r] \in {"off", "idle"} =>
              pc[r] \in {"off", "idle"} /\ r # ch /\ r \in Channels
      BY <1>12 DEF Channels
    <2>2. pc[Job] # "off" => db # Nil
      BY DEF Inv, Unused
    <2>3. ch # Nil
      BY RecordsAssumption
    <2>4. pc'[Job] # "off" => pc[Job] # "off"
      BY <1>12, <1>13
    <2> QED
      BY <2>1, <2>2, <2>3, <2>4, <1>10 DEF Inv, Unused
  <1> QED
    BY <1>19, <1>20, <1>21, <1>22, <1>23, <1>24, <1>25, <1>26, <1>27, <1>28,
       <1>29, <1>30, <1>31, <1>32, <1>33 DEF Inv

-----------------------------------------------------------------------------
(* A coroutine that asks writes its query, or waits for a socket.          *)
LEMMA QueryStep ==
    ASSUME Inv, NEW c \in Callers, NEW ch \in Channels, pc[c] = "idle", Query(c, ch),
           \A r \in Requests \ {c} : pc[r] \in {"off", "idle"} => r # ch,
           UNCHANGED <<db, ran, reply, told, fivemin, left>>
    PROVE  Inv'
  <1>1. CASE chan[ch].sock # 0 /\ Write(ch, chan[ch].sock, <<c>>)
    <2>1. Elements(<<c>>) = {c} /\ <<c>> \in Seq(Callers)
      BY DEF Elements
    <2>2. /\ \A i \in DOMAIN <<c>> : pc[<<c>>[i]] \in {"idle", "connect", "join"}
          /\ \A i, j \in DOMAIN <<c>> : <<c>>[i] = <<c>>[j] => i = j
      OBVIOUS
    <2>3. \A y \in Channels \ {ch} :
             /\ chan[y].leader \notin Elements(<<c>>)
             /\ \A i \in DOMAIN chan[y].joined : chan[y].joined[i] \notin Elements(<<c>>)
      <3>1. c # Nil
        BY RecordsAssumption
      <3> QED
        BY <2>1, <3>1 DEF Inv, Waiting
    <2>4. chan[ch].sock \in Fds
      BY <1>1, ChannelType DEF Inv
    <2>5. \A r \in Requests : pc'[r] \in {"off", "idle"} => r # ch
      BY <1>1, <2>1 DEF Write, Callers
    <2>6. Inv'
      <3> DEFINE cs == <<c>>
                 fd == chan[ch].sock
      <3> HIDE DEF cs, fd
      <3> QED
        BY <1>1, <2>1, <2>2, <2>3, <2>4, <2>5, WriteStep DEF cs, fd
    <2> QED
      BY <2>6
  <1>2. CASE chan[ch].sock = 0 /\ chan[ch].leader # Nil /\ Join(c, ch)
    BY <1>2, JoinStep
  <1>3. CASE chan[ch].sock = 0 /\ chan[ch].leader = Nil /\ Lead(c, ch)
    BY <1>3, LeadStep
  <1> QED
    BY <1>1, <1>2, <1>3 DEF Query

(* A handler starts: it opens the connection or asks on it.                *)
LEMMA HandleStep ==
    ASSUME Inv, NEW r \in Requests, Handle(r)
    PROVE  Inv'
  <1>1. r \in Callers /\ r \in Channels /\ pc[r] = "idle"
    BY DEF Handle, Callers, Channels
  <1>2. CASE db = Nil
    <2>1. chan[r].sock = 0 /\ chan[r].leader = Nil
      BY <1>1 DEF Inv, Unused, NewChannel
    <2> QED
      BY <1>1, <1>2, <2>1, LeadStep DEF Handle
  <1>3. CASE db # Nil
    <2>1. db \in Channels
      BY <1>3 DEF Inv, TypeOK
    <2>2. \A x \in Requests \ {r} : pc[x] \in {"off", "idle"} => x # db
      BY DEF Inv, Unused
    <2>3. Query(r, db) /\ UNCHANGED <<db, ran, reply, told, fivemin, left>>
      BY <1>3 DEF Handle
    <2> QED
      BY <1>1, <2>1, <2>2, <2>3, QueryStep
  <1> QED
    BY <1>2, <1>3

(* The daily job inserts its record.                                       *)
LEMMA RefreshCarTrafficStep ==
    ASSUME Inv, RefreshCarTraffic
    PROVE  Inv'
  <1>1. Job \in Callers /\ pc[Job] = "idle"
    BY DEF RefreshCarTraffic, Callers
  <1>2. db \in Channels
    BY <1>1 DEF Inv, Unused, TypeOK
  <1>3. \A x \in Requests \ {Job} : pc[x] \in {"off", "idle"} => x # db
    BY DEF Inv, Unused
  <1>4. Query(Job, db) /\ UNCHANGED <<db, ran, reply, told, fivemin, left>>
    BY DEF RefreshCarTraffic
  <1> QED
    BY <1>1, <1>2, <1>3, <1>4, QueryStep

(* Those that wait for a connection: the leader and all that have joined   *)
(* it, each once, and for no other.                                        *)
LEMMA ConnectingIs ==
    ASSUME Inv, NEW ch \in Channels, chan[ch].leader # Nil
    PROVE  /\ Connecting(ch) \in Seq(Callers)
           /\ \A i \in DOMAIN Connecting(ch) :
                 pc[Connecting(ch)[i]] \in {"idle", "connect", "join"}
           /\ \A i, j \in DOMAIN Connecting(ch) :
                 Connecting(ch)[i] = Connecting(ch)[j] => i = j
           /\ \A y \in Channels \ {ch} :
                 /\ chan[y].leader \notin Elements(Connecting(ch))
                 /\ \A i \in DOMAIN chan[y].joined :
                       chan[y].joined[i] \notin Elements(Connecting(ch))
           /\ chan[ch].sock = 0 /\ chan[ch].reqs = <<>>
  <1> DEFINE l == chan[ch].leader
             queue == chan[ch].joined
             cs == <<l>> \o queue
  <1>1. l # Nil /\ l \in Callers /\ queue \in Seq(Callers) /\ <<l>> \in Seq(Callers)
    BY ChannelType DEF Inv
  <1>2. cs \in Seq(Callers) /\ cs = Connecting(ch)
    BY <1>1, Concat DEF Connecting
  <1>3. \A k \in DOMAIN cs : cs[k] = l \/ \E i \in DOMAIN queue : cs[k] = queue[i]
    BY <1>1
  <1>4. pc[l] = "connect" /\ \A i \in DOMAIN queue : pc[queue[i]] = "join"
    BY <1>1 DEF Inv, Waiting
  <1>5. \A i \in DOMAIN cs : pc[cs[i]] \in {"idle", "connect", "join"}
    BY <1>3, <1>4
  <1>6. \A i, j \in DOMAIN cs : cs[i] = cs[j] => i = j
    <2>1. \A i, j \in DOMAIN queue : queue[i] = queue[j] => i = j
      BY DEF Inv, OneJoined
    <2>2. \A i, j \in DOMAIN <<l>> : <<l>>[i] = <<l>>[j] => i = j
      OBVIOUS
    <2>3. \A i \in DOMAIN <<l>>, j \in DOMAIN queue : <<l>>[i] # queue[j]
      BY <1>4
    <2> HIDE DEF l, queue
    <2> QED
      BY <1>1, <2>1, <2>2, <2>3, OnceConcat
  <1>7. \A y \in Channels \ {ch} :
           /\ chan[y].leader \notin Elements(cs)
           /\ \A i \in DOMAIN chan[y].joined : chan[y].joined[i] \notin Elements(cs)
    <2>1. \A y \in Channels \ {ch} : chan[y].leader # Nil => pc[chan[y].leader] = "connect"
      BY DEF Inv, Waiting
    <2>2. \A y \in Channels \ {ch} : \A i \in DOMAIN chan[y].joined :
             pc[chan[y].joined[i]] = "join"
      BY DEF Inv, Waiting
    <2>3. \A y \in Channels \ {ch} : chan[y].leader # l
      BY <1>1 DEF Inv, OneLeader
    <2>4. \A y \in Channels \ {ch} : \A i \in DOMAIN chan[y].joined, j \in DOMAIN queue :
             chan[y].joined[i] # queue[j]
      BY DEF Inv, OneJoined
    <2>5. \A x \in Elements(cs) : /\ x = l \/ \E j \in DOMAIN queue : x = queue[j]
                                  /\ x # Nil
      <3>1. Nil \notin Callers
        BY RecordsAssumption
      <3> QED
        BY <1>2, <1>3, <3>1, DomainIs DEF Elements
    <2> HIDE DEF l, queue, cs
    <2>6. \A y \in Channels \ {ch} : chan[y].leader \notin Elements(cs)
      BY <1>4, <2>1, <2>3, <2>5
    <2>7. \A y \in Channels \ {ch} : \A i \in DOMAIN chan[y].joined :
             chan[y].joined[i] \notin Elements(cs)
      BY <1>4, <2>2, <2>4, <2>5
    <2> QED
      BY <2>6, <2>7
  <1>8. chan[ch].sock = 0 /\ chan[ch].reqs = <<>>
    BY <1>1 DEF Inv, Connections
  <1> HIDE DEF cs
  <1> QED
    BY <1>2, <1>5, <1>6, <1>7, <1>8

(* The connection stands, and those that have waited for it write.         *)
LEMMA ConnectedStep ==
    ASSUME Inv, NEW ch \in Channels, Connected(ch)
    PROVE  Inv'
  <1>1. PICK fd \in Fds : link[fd].state = "none" /\ Write(ch, fd, Connecting(ch))
    BY DEF Connected
  <1>2. chan[ch].leader # Nil
    BY DEF Connected
  <1>3. \A r \in Requests : pc'[r] \in {"off", "idle"} => r # ch
    <2>1. \A r \in Requests : pc'[r] \in {"off", "idle"} => pc[r] \in {"off", "idle"}
      BY <1>1 DEF Write, Callers
    <2> QED
      BY <1>2, <2>1 DEF Inv, Unused, NewChannel
  <1>4. db' \in {db, ch} /\ UNCHANGED <<ran, reply, told, fivemin, left>>
    BY DEF Connected
  <1> QED
    BY <1>1, <1>2, <1>3, <1>4, ConnectingIs, WriteStep

-----------------------------------------------------------------------------
(* The coroutines of cs are in no place any more; a channel has lost its   *)
(* leader and those that joined it, or its socket and those that waited.   *)
Drops(cs) ==
    /\ chan' \in [Channels -> SocketChannels] /\ link' \in [Fds -> Links]
    /\ \A x \in Channels :
          /\ chan'[x].sock # 0 => /\ chan'[x].sock = chan[x].sock
                                  /\ chan'[x].leader = Nil
                                  /\ chan'[x].reqs = chan[x].reqs
                                  /\ link'[chan[x].sock] = link[chan[x].sock]
          /\ chan'[x].sock = 0 => chan'[x].reqs = <<>>
          /\ chan'[x].leader # Nil => chan'[x].leader = chan[x].leader
          /\ chan'[x].leader = Nil => chan'[x].joined = <<>>
          /\ chan'[x].joined \in {<<>>, chan[x].joined}
          /\ chan[x] = NewChannel => chan'[x] = NewChannel
    /\ \A x \in Channels :
          /\ chan'[x].leader \notin cs
          /\ \A i \in DOMAIN chan'[x].joined : chan'[x].joined[i] \notin cs
          /\ \A i \in DOMAIN chan'[x].reqs : chan'[x].reqs[i] \notin cs
    /\ \A x \in Fds : /\ link'[x].todo = link[x].todo
                      /\ link'[x].done \in {<<>>, link[x].done}
                      /\ link'[x].state = "none" => link[x].state = "none"

(* Coroutines raise, and are in no place any more.                         *)
LEMMA RaiseStep ==
    ASSUME Inv, NEW cs \in SUBSET Callers, Raise(cs), Drops(cs),
           \A c \in cs : pc[c] \in {"idle", "connect", "join", "wait"},
           UNCHANGED <<db, ran, told, fivemin, left>>
    PROVE  Inv'
  <1> USE DEF Callers
  <1>1. TypeOK
    BY DEF Inv
  <1>2. \A x \in Channels : chan'[x].reqs \in {<<>>, chan[x].reqs}
    BY DEF Drops
  <1>sock. \A x \in Channels : chan'[x].sock # 0 =>
              chan'[x].sock = chan[x].sock /\ chan'[x].leader = Nil
    BY DEF Drops
  <1>leader. \A x \in Channels : chan'[x].leader # Nil => chan'[x].leader = chan[x].leader
    BY DEF Drops
  <1>joined. \A x \in Channels : chan'[x].joined \in {<<>>, chan[x].joined}
    BY DEF Drops
  <1>todo. \A x \in Fds : link'[x].todo = link[x].todo
    BY DEF Drops
  <1>done. \A x \in Fds : \A i \in DOMAIN link'[x].done :
              i \in DOMAIN link[x].done /\ link'[x].done[i] = link[x].done[i]
    BY DEF Drops
  <1>out. \A x \in Channels :
              /\ chan'[x].leader \notin cs
              /\ \A i \in DOMAIN chan'[x].joined : chan'[x].joined[i] \notin cs
              /\ \A i \in DOMAIN chan'[x].reqs : chan'[x].reqs[i] \notin cs
    BY DEF Drops
  <1>3. /\ pc' \in [Callers -> {"off", "idle", "connect", "join", "wait", "done", "told"}]
        /\ \A c \in cs : pc'[c] = "done"
        /\ \A c \in Callers \ cs : pc'[c] = pc[c]
    BY <1>1 DEF Raise, TypeOK
  <1>4. /\ reply' \in [Callers -> {"none", "true", "false", "data"}]
        /\ \A r \in Requests : reply'[r] = reply[r]
    <2>1. \A r \in Requests : r \in cs => reply[r] = "none"
      BY DEF Inv, Unasked
    <2> QED
      BY <1>1, <2>1 DEF Raise, TypeOK
  <1>5. TypeOK'
    BY <1>1, <1>3, <1>4 DEF TypeOK, Drops
  <1>6. Connections'
    <2>1. \A x \in Channels : chan[x].sock # 0 => link[chan[x].sock].state \in {"up", "down"}
      BY DEF Inv, Connections
    <2>2. \A x \in Channels :
             /\ chan'[x].sock # 0 => link'[chan[x].sock] = link[chan[x].sock]
             /\ chan'[x].sock = 0 => chan'[x].reqs = <<>>
             /\ chan'[x].leader = Nil => chan'[x].joined = <<>>
      BY DEF Drops
    <2> QED
      BY <2>1, <2>2, <1>sock DEF Connections
  <1>7. OneSocket'
    <2>1. \A x, y \in Channels :
             chan[x].sock # 0 /\ chan[x].sock = chan[y].sock => x = y
      BY DEF Inv, OneSocket
    <2> QED
      BY <2>1, <1>sock DEF OneSocket
  <1>8. Unopened'
    <2>1. \A x \in Fds : link'[x].done \in {<<>>, link[x].done} /\
             (link'[x].state = "none" => link[x].state = "none")
      BY DEF Drops
    <2> QED
      BY <2>1, <1>todo DEF Inv, Unopened
  <1>9. Waiting'
    <2>1. \A x \in Channels :
             /\ chan[x].leader # Nil => pc[chan[x].leader] = "connect"
             /\ \A i \in DOMAIN chan[x].joined : pc[chan[x].joined[i]] = "join"
             /\ \A i \in DOMAIN chan[x].reqs : pc[chan[x].reqs[i]] = "wait"
      BY DEF Inv, Waiting
    <2> SUFFICES ASSUME NEW x \in Channels
                 PROVE  /\ chan'[x].leader # Nil => pc'[chan'[x].leader] = "connect"
                        /\ \A i \in DOMAIN chan'[x].joined : pc'[chan'[x].joined[i]] = "join"
                        /\ \A i \in DOMAIN chan'[x].reqs : pc'[chan'[x].reqs[i]] = "wait"
      BY DEF Waiting
    <2>2. chan'[x].leader # Nil => pc'[chan'[x].leader] = "connect"
      BY <2>1, <1>1, <1>3, <1>leader, <1>out, ChannelType
    <2>3. \A i \in DOMAIN chan'[x].joined : pc'[chan'[x].joined[i]] = "join"
      BY <2>1, <1>1, <1>3, <1>joined, <1>out, ChannelType
    <2>4. \A i \in DOMAIN chan'[x].reqs : pc'[chan'[x].reqs[i]] = "wait"
      BY <2>1, <1>1, <1>2, <1>3, <1>out, ChannelType
    <2> QED
      BY <2>2, <2>3, <2>4
  <1>10. OneLeader'
    <2>1. \A x, y \in Channels :
             chan[x].leader # Nil /\ chan[x].leader = chan[y].leader => x = y
      BY DEF Inv, OneLeader
    <2> QED
      BY <2>1, <1>leader DEF OneLeader
  <1>11. OneJoined'
    <2>1. \A x, y \in Channels : \A i \in DOMAIN chan[x].joined, j \in DOMAIN chan[y].joined :
             chan[x].joined[i] = chan[y].joined[j] => x = y /\ i = j
      BY DEF Inv, OneJoined
    <2> QED
      BY <2>1, <1>joined DEF OneJoined
  <1>12. OneWaits'
    <2>1. \A x, y \in Channels : \A i \in DOMAIN chan[x].reqs, j \in DOMAIN chan[y].reqs :
             chan[x].reqs[i] = chan[y].reqs[j] => x = y /\ i = j
      BY DEF Inv, OneWaits
    <2> QED
      BY <2>1, <1>2 DEF OneWaits
  <1>13. AllPaired'
    <2>1. \A x \in Channels : chan[x].sock # 0 => Paired(chan[x].reqs, link[chan[x].sock])
      BY DEF Inv, AllPaired
    <2>2. \A x \in Channels : chan'[x].sock # 0 =>
              /\ chan'[x].sock = chan[x].sock
              /\ chan'[x].reqs = chan[x].reqs
              /\ link'[chan[x].sock] = link[chan[x].sock]
      BY DEF Drops
    <2> QED
      BY <2>1, <2>2 DEF AllPaired
  <1>14. Unasked'
    <2>1. \A r \in Requests : pc'[r] \in {"off", "idle", "connect", "join"} => pc[r] = pc'[r]
      BY <1>3
    <2>2. \A r \in Requests : pc'[r] \notin {"done", "told"} => pc[r] = pc'[r]
      BY <1>3
    <2> QED
      BY <2>1, <2>2, <1>todo, <1>done, <1>4 DEF Inv, Unasked
  <1>15. Asked'
    <2>1. \A x \in Fds : \A i \in DOMAIN link[x].todo :
             link[x].todo[i] # Job => link[x].todo[i] \in Requests
      BY <1>1, LinkType
    <2> QED
      BY <2>1, <1>4, <1>todo DEF Inv, Asked
  <1>16. OneQuery'
    <2>1. \A x, y \in Fds : \A i \in DOMAIN link[x].todo, j \in DOMAIN link[y].todo :
             link[x].todo[i] = link[y].todo[j] /\ link[x].todo[i] # Job => x = y /\ i = j
      BY DEF Inv, OneQuery
    <2> QED
      BY <2>1, <1>todo DEF OneQuery
  <1>17. Done'
    <2>1. \A x \in Fds : \A i \in DOMAIN link[x].done :
             link[x].done[i].query # Job =>
                /\ link[x].done[i].ok => ran[link[x].done[i].query] = Carried
                /\ ~link[x].done[i].ok => ran[link[x].done[i].query] = Refused
                /\ \A y \in Fds : \A j \in DOMAIN link[y].todo :
                      link[y].todo[j] # link[x].done[i].query
      BY DEF Inv, Done
    <2> QED
      BY <2>1, <1>todo, <1>done DEF Done
  <1>18. Said'
    BY <1>4 DEF Inv, Said, BorneOut
  <1>19. Visits'
    <2>1. Counted' = Counted
      BY <1>4 DEF Counted
    <2> QED
      BY <2>1 DEF Inv, Visits
  <1>20. Unused'
    <2>1. \A r \in Requests : pc'[r] \in {"off", "idle"} => pc[r] = pc'[r] /\ r \in Channels
      BY <1>3 DEF Channels
    <2>2. pc'[Job] # "off" => pc[Job] # "off"
      BY <1>3
    <2> QED
      BY <2>1, <2>2 DEF Inv, Unused, Drops
  <1> QED
    BY <1>5, <1>6, <1>7, <1>8, <1>9, <1>10, <1>11, <1>12, <1>13, <1>14, <1>15,
       <1>16, <1>17, <1>18, <1>19, <1>20 DEF Inv

(* The connect has failed: the leader and all that have waited raise.      *)
LEMMA ConnectFailsStep ==
    ASSUME Inv, NEW ch \in Channels, ConnectFails(ch)
    PROVE  Inv'
  <1> DEFINE cs == Elements(Connecting(ch))
  <1>1. chan[ch].leader # Nil
    BY DEF ConnectFails
  <1>2. cs \in SUBSET Callers /\ \A c \in cs : pc[c] \in {"idle", "connect", "join"}
    BY <1>1, ConnectingIs, DomainIs DEF Elements
  <1>3. chan \in [Channels -> SocketChannels] /\ link \in [Fds -> Links]
    BY DEF Inv, TypeOK
  <1>4. /\ chan' \in [Channels -> SocketChannels]
        /\ \A x \in Channels \ {ch} : chan'[x] = chan[x]
        /\ chan'[ch].sock = chan[ch].sock /\ chan'[ch].reqs = chan[ch].reqs
        /\ chan'[ch].leader = Nil /\ chan'[ch].joined = <<>>
    <2> DEFINE e == [chan[ch] EXCEPT !.leader = Nil, !.joined = <<>>]
    <2>1. chan' = [chan EXCEPT ![ch] = e]
      BY DEF ConnectFails
    <2>2. chan[ch] \in SocketChannels
      BY <1>3
    <2>3. /\ e \in SocketChannels /\ e.leader = Nil /\ e.joined = <<>>
          /\ e.sock = chan[ch].sock /\ e.reqs = chan[ch].reqs
      BY <2>2, ChannelSet
    <2> HIDE DEF e
    <2> QED
      BY <2>1, <2>3, <1>3
  <1>5. link' = link
    BY DEF ConnectFails
  <1>6. Drops(cs)
    <2>1. \A x \in Channels :
             /\ chan[x].sock = 0 => chan[x].reqs = <<>>
             /\ chan[x].sock # 0 => chan[x].leader = Nil
             /\ chan[x].leader = Nil => chan[x].joined = <<>>
      BY DEF Inv, Connections
    <2>2. \A x \in Channels : \A i \in DOMAIN chan[x].reqs : chan[x].reqs[i] \notin cs
      BY <1>2 DEF Inv, Waiting
    <2>3. chan[ch] # NewChannel
      BY <1>1 DEF NewChannel
    <2>4. Nil \notin cs
      BY <1>2, RecordsAssumption
    <2>5. \A y \in Channels \ {ch} :
             /\ chan[y].leader \notin cs
             /\ \A i \in DOMAIN chan[y].joined : chan[y].joined[i] \notin cs
      BY <1>1, ConnectingIs
    <2> HIDE DEF cs
    <2>6. \A x \in Channels :
             /\ chan'[x].leader \notin cs
             /\ \A i \in DOMAIN chan'[x].joined : chan'[x].joined[i] \notin cs
             /\ \A i \in DOMAIN chan'[x].reqs : chan'[x].reqs[i] \notin cs
      <3>1. \A x \in Channels \ {ch} :
               /\ chan'[x].leader \notin cs
               /\ \A i \in DOMAIN chan'[x].joined : chan'[x].joined[i] \notin cs
               /\ \A i \in DOMAIN chan'[x].reqs : chan'[x].reqs[i] \notin cs
        BY <2>2, <2>5, <1>4
      <3>2. /\ chan'[ch].leader \notin cs
            /\ \A i \in DOMAIN chan'[ch].joined : chan'[ch].joined[i] \notin cs
            /\ \A i \in DOMAIN chan'[ch].reqs : chan'[ch].reqs[i] \notin cs
        BY <2>2, <2>4, <1>4
      <3> QED
        BY <3>1, <3>2
    <2>7. \A x \in Channels \ {ch} :
             /\ chan'[x].sock # 0 => /\ chan'[x].sock = chan[x].sock
                                     /\ chan'[x].leader = Nil
             /\ chan'[x].sock = 0 => chan'[x].reqs = <<>>
             /\ chan'[x].leader = Nil => chan'[x].joined = <<>>
      BY <2>1, <1>4
    <2>8. chan[ch].sock = 0 /\ chan[ch].reqs = <<>>
      BY <1>1, ConnectingIs
    <2> QED
      BY <2>3, <2>6, <2>7, <2>8, <1>3, <1>4, <1>5 DEF Drops
  <1>7. Raise(cs) /\ UNCHANGED <<db, ran, told, fivemin, left>>
    BY DEF ConnectFails
  <1> HIDE DEF cs
  <1> QED
    BY <1>2, <1>6, <1>7, RaiseStep

(* A handler raises before it has asked.                                   *)
LEMMA BadArgumentStep ==
    ASSUME Inv, NEW r \in Requests, BadArgument(r)
    PROVE  Inv'
  <1>1. r \in Callers /\ pc[r] = "idle" /\ chan' = chan /\ link' = link
    BY DEF BadArgument, Callers
  <1>2. chan \in [Channels -> SocketChannels] /\ link \in [Fds -> Links]
    BY DEF Inv, TypeOK
  <1>3. \A x \in Channels :
           /\ chan[x].sock = 0 => chan[x].reqs = <<>>
           /\ chan[x].sock # 0 => chan[x].leader = Nil
           /\ chan[x].leader = Nil => chan[x].joined = <<>>
    BY DEF Inv, Connections
  <1>4. \A x \in Channels :
           /\ chan[x].leader # r
           /\ \A i \in DOMAIN chan[x].joined : chan[x].joined[i] # r
           /\ \A i \in DOMAIN chan[x].reqs : chan[x].reqs[i] # r
    BY <1>1, RecordsAssumption DEF Inv, Waiting
  <1>5. Drops({r})
    BY <1>1, <1>2, <1>3, <1>4 DEF Drops
  <1>6. Raise({r}) /\ UNCHANGED <<db, ran, told, fivemin, left>>
    BY DEF BadArgument
  <1> QED
    BY <1>1, <1>5, <1>6, RaiseStep

(* The socket is closed: all that wait for its answers raise.              *)
LEMMA ClosedStep ==
    ASSUME Inv, NEW ch \in Channels, Closed(ch)
    PROVE  Inv'
  <1> DEFINE cs == Elements(chan[ch].reqs)
             fd == chan[ch].sock
  <1>1. fd \in Fds /\ fd # 0 /\ chan[ch].reqs \in Seq(Callers)
    BY ChannelType DEF Inv, Closed
  <1>2. cs \in SUBSET Callers /\ \A c \in cs : pc[c] = "wait"
    BY <1>1, DomainIs DEF Elements, Inv, Waiting
  <1>3. chan \in [Channels -> SocketChannels] /\ link \in [Fds -> Links]
    BY DEF Inv, TypeOK
  <1>4. /\ chan' \in [Channels -> SocketChannels]
        /\ \A x \in Channels \ {ch} : chan'[x] = chan[x]
        /\ chan'[ch].sock = 0 /\ chan'[ch].reqs = <<>>
        /\ chan'[ch].leader = chan[ch].leader /\ chan'[ch].joined = chan[ch].joined
    <2> DEFINE e == [chan[ch] EXCEPT !.sock = 0, !.reqs = <<>>]
    <2>1. chan' = [chan EXCEPT ![ch] = e]
      BY DEF Closed
    <2>2. chan[ch] \in SocketChannels
      BY <1>3
    <2>3. /\ e \in SocketChannels /\ e.sock = 0 /\ e.reqs = <<>>
          /\ e.leader = chan[ch].leader /\ e.joined = chan[ch].joined
      BY <2>2, ChannelSet
    <2> HIDE DEF e
    <2> QED
      BY <2>1, <2>3, <1>3
  <1>5. /\ link' \in [Fds -> Links]
        /\ \A x \in Fds \ {fd} : link'[x] = link[x]
        /\ link'[fd].todo = link[fd].todo
        /\ link'[fd].done = <<>> /\ link'[fd].state = "closed"
    <2> DEFINE e == [link[fd] EXCEPT !.state = "closed", !.done = <<>>]
    <2>1. link' = [link EXCEPT ![fd] = e]
      BY DEF Closed
    <2>2. link[fd] \in Links
      BY <1>1, <1>3
    <2>3. /\ e \in Links /\ e.state = "closed" /\ e.done = <<>>
          /\ e.todo = link[fd].todo
      BY <2>2, LinkSet
    <2> HIDE DEF e, fd
    <2> QED
      BY <2>1, <2>3, <1>1, <1>3
  <1>6. Drops(cs)
    <2>1. \A x \in Channels :
             /\ chan[x].sock = 0 => chan[x].reqs = <<>>
             /\ chan[x].sock # 0 => chan[x].leader = Nil
             /\ chan[x].leader = Nil => chan[x].joined = <<>>
      BY DEF Inv, Connections
    <2>2. \A x \in Channels \ {ch} : \A i \in DOMAIN chan[x].reqs : chan[x].reqs[i] \notin cs
      BY DEF Inv, OneWaits, Elements
    <2>3. chan[ch] # NewChannel
      BY <1>1 DEF NewChannel
    <2>4. Nil \notin cs
      BY <1>2, RecordsAssumption
    <2>5. \A x \in Channels :
             /\ chan[x].leader \notin cs
             /\ \A i \in DOMAIN chan[x].joined : chan[x].joined[i] \notin cs
      BY <1>2, <2>4 DEF Inv, Waiting
    <2>6. \A x \in Channels \ {ch} : chan[x].sock # fd
      BY <1>1 DEF Inv, OneSocket
    <2>7. \A x \in Channels : chan[x].sock \in Fds \cup {0}
      BY ChannelType DEF Inv
    <2> HIDE DEF cs, fd
    <2>8. \A x \in Channels :
             /\ chan'[x].leader \notin cs
             /\ \A i \in DOMAIN chan'[x].joined : chan'[x].joined[i] \notin cs
             /\ \A i \in DOMAIN chan'[x].reqs : chan'[x].reqs[i] \notin cs
      BY <2>2, <2>5, <1>4
    <2>9. \A x \in Channels \ {ch} :
             /\ chan'[x].sock # 0 => /\ chan'[x].sock = chan[x].sock
                                     /\ chan'[x].leader = Nil
                                     /\ link'[chan[x].sock] = link[chan[x].sock]
             /\ chan'[x].sock = 0 => chan'[x].reqs = <<>>
             /\ chan'[x].leader = Nil => chan'[x].joined = <<>>
      BY <2>1, <2>6, <2>7, <1>4, <1>5
    <2> QED
      BY ZenonT(30), <2>1, <2>3, <2>8, <2>9, <1>4, <1>5 DEF Drops
  <1>7. Raise(cs) /\ UNCHANGED <<db, ran, told, fivemin, left>>
    BY DEF Closed
  <1> HIDE DEF cs
  <1> QED
    BY <1>2, <1>6, <1>7, RaiseStep

-----------------------------------------------------------------------------
(* A query the server takes up stays in step with the one who waits.       *)
LEMMA PairedRuns ==
    ASSUME NEW reqs \in Seq(Callers), NEW on \in Links, NEW new \in Links, NEW ok \in BOOLEAN,
           Paired(reqs, on), on.todo # <<>>,
           new.state = on.state, new.todo = Tail(on.todo),
           new.done = IF on.state = "up"
                      THEN Append(on.done, [query |-> Head(on.todo), ok |-> ok]) ELSE on.done
    PROVE  Paired(reqs, new)
  <1> DEFINE d == Len(on.done)
             l == Len(on.todo)
             a == [query |-> Head(on.todo), ok |-> ok]
  <1>1. on.todo \in Seq(Callers) /\ on.done \in Seq(Answers) /\ Len(reqs) \in Nat
    OBVIOUS
  <1>2. /\ Len(Tail(on.todo)) = l - 1 /\ l \in Nat \ {0} /\ d \in Nat
        /\ Head(on.todo) = on.todo[1] /\ Head(on.todo) \in Callers
        /\ \A i \in 1..(l - 1) : Tail(on.todo)[i] = on.todo[i + 1]
    BY <1>1
  <1>3. a \in Answers
    BY <1>2
  <1>4. /\ Len(Append(on.done, a)) = d + 1
        /\ \A i \in 1..d : Append(on.done, a)[i] = on.done[i]
        /\ Append(on.done, a)[d + 1] = a
    BY <1>1, <1>3, Appended
  <1>5. d <= Len(reqs) /\ \A i \in 1..d : reqs[i] = on.done[i].query
    BY DEF Paired
  <1>6. CASE on.state # "up"
    BY <1>5, <1>6 DEF Paired
  <1>7. CASE on.state = "up"
    <2>1. Len(reqs) = d + l /\ \A i \in 1..l : reqs[d + i] = on.todo[i]
      BY <1>7 DEF Paired
    <2>2. Len(new.done) = d + 1 /\ Len(new.todo) = l - 1
      BY <1>2, <1>4, <1>7
    <2>3. d + 1 <= Len(reqs) /\ Len(reqs) = (d + 1) + (l - 1)
      BY <2>1, <1>2
    <2>4. \A i \in 1..(d + 1) : reqs[i] = new.done[i].query
      <3>1. reqs[d + 1] = a.query
        BY <2>1, <1>2
      <3> QED
        BY <3>1, <1>2, <1>4, <1>5, <1>7
    <2>5. ASSUME NEW i \in 1..(l - 1)
          PROVE  reqs[(d + 1) + i] = new.todo[i]
      <3>1. (d + 1) + i = d + (i + 1) /\ i + 1 \in 1..l
        BY <1>2
      <3> QED
        BY <3>1, <2>1, <1>2
    <2> QED
      BY <2>2, <2>3, <2>4, <2>5 DEF Paired
  <1> QED
    BY <1>6, <1>7

(* An answer read and the coroutine it is given to leave the rest in step. *)
LEMMA PairedTail ==
    ASSUME NEW reqs \in Seq(Callers), NEW on \in Links, NEW new \in Links,
           Paired(reqs, on), on.done # <<>>,
           new.state = on.state, new.todo = on.todo, new.done = Tail(on.done)
    PROVE  Paired(Tail(reqs), new) /\ Head(reqs) = Head(on.done).query
  <1> DEFINE d == Len(on.done)
             l == Len(on.todo)
  <1>1. /\ on.done \in Seq(Answers) /\ on.todo \in Seq(Callers)
        /\ d \in Nat \ {0} /\ l \in Nat /\ Len(reqs) \in Nat
    OBVIOUS
  <1>2. d <= Len(reqs) /\ \A i \in 1..d : reqs[i] = on.done[i].query
    BY DEF Paired
  <1>3. /\ Len(Tail(on.done)) = d - 1 /\ Head(on.done) = on.done[1]
        /\ \A i \in 1..(d - 1) : Tail(on.done)[i] = on.done[i + 1]
    BY <1>1
  <1>4. reqs # <<>>
    BY <1>1, <1>2
  <1>5. /\ Len(Tail(reqs)) = Len(reqs) - 1 /\ Head(reqs) = reqs[1]
        /\ \A i \in 1..(Len(reqs) - 1) : Tail(reqs)[i] = reqs[i + 1]
    BY <1>4
  <1>6. d - 1 <= Len(Tail(reqs)) /\ \A i \in 1..(d - 1) : Tail(reqs)[i] = new.done[i].query
    <2>1. \A i \in 1..(d - 1) : i + 1 \in 1..d /\ i \in 1..(Len(reqs) - 1)
      BY <1>1, <1>2
    <2> QED
      BY <2>1, <1>1, <1>2, <1>3, <1>5
  <1>7. ASSUME on.state = "up"
        PROVE  /\ Len(Tail(reqs)) = (d - 1) + l
               /\ \A i \in 1..l : Tail(reqs)[(d - 1) + i] = on.todo[i]
    <2>1. Len(reqs) = d + l /\ \A i \in 1..l : reqs[d + i] = on.todo[i]
      BY <1>7 DEF Paired
    <2>2. ASSUME NEW i \in 1..l
          PROVE  Tail(reqs)[(d - 1) + i] = on.todo[i]
      <3>1. (d - 1) + i \in 1..(Len(reqs) - 1) /\ ((d - 1) + i) + 1 = d + i
        BY <2>1, <1>1
      <3> QED
        BY <3>1, <2>1, <1>5
    <2> QED
      BY <2>1, <2>2, <1>1, <1>5
  <1> QED
    BY <1>1, <1>2, <1>3, <1>5, <1>6, <1>7 DEF Paired

(* The server carries out the next query of a socket, or refuses it.       *)
LEMMA ServerRunsStep ==
    ASSUME Inv, NEW fd \in Fds, ServerRuns(fd)
    PROVE  Inv'
  <1> USE DEF Callers
  <1>1. TypeOK
    BY DEF Inv
  <1> DEFINE q == Head(link[fd].todo)
  <1>2. PICK ok \in BOOLEAN :
           /\ ran' = IF q = Job THEN ran ELSE [ran EXCEPT ![q] = Append(@, Outcome(ok))]
           /\ link' = [link EXCEPT
                 ![fd].todo = Tail(@),
                 ![fd].done = IF link[fd].state = "up" THEN Append(@, [query |-> q, ok |-> ok])
                                                       ELSE @]
    BY DEF ServerRuns
  <1> DEFINE a == [query |-> q, ok |-> ok]
             rest == Tail(link[fd].todo)
             done == IF link[fd].state = "up" THEN Append(link[fd].done, a)
                                              ELSE link[fd].done
             new == [link[fd] EXCEPT !.todo = rest, !.done = done]
  <1>3. /\ link \in [Fds -> Links] /\ link[fd] \in Links
        /\ ran \in [Requests -> {<<>>, Carried, Refused}]
    BY <1>1 DEF TypeOK
  <1>4. /\ link[fd].todo \in Seq(Callers) /\ link[fd].todo # <<>>
        /\ link[fd].done \in Seq(Answers)
    BY <1>1, LinkType DEF ServerRuns
  <1>5. /\ rest \in Seq(Callers) /\ q \in Callers
        /\ 1 \in DOMAIN link[fd].todo /\ q = link[fd].todo[1]
        /\ \A i \in DOMAIN rest :
              i + 1 \in DOMAIN link[fd].todo /\ rest[i] = link[fd].todo[i + 1] /\ i \in Nat
    BY <1>4, Tailed, DomainIs
  <1>6. a \in Answers /\ a.query = q /\ a.ok = ok
    BY <1>5
  <1>7. /\ done \in Seq(Answers)
        /\ \A k \in DOMAIN done : \/ k \in DOMAIN link[fd].done /\ done[k] = link[fd].done[k]
                                  \/ done[k] = a
    <2> HIDE DEF a
    <2>1. /\ Append(link[fd].done, a) \in Seq(Answers)
          /\ \A k \in DOMAIN Append(link[fd].done, a) :
                \/ /\ k \in DOMAIN link[fd].done
                   /\ Append(link[fd].done, a)[k] = link[fd].done[k]
                \/ Append(link[fd].done, a)[k] = a
      BY <1>4, <1>6, Appended
    <2> QED
      BY <2>1, <1>4
  <1>8. /\ new \in Links /\ new.todo = rest /\ new.done = done
        /\ new.state = link[fd].state
    <2> HIDE DEF rest, done
    <2> QED
      BY <1>3, <1>5, <1>7
  <1>9. link' = [link EXCEPT ![fd] = new]
    BY <1>2
  <1>10. \A c \in Channels : chan[c].sock = fd => Paired(chan[c].reqs, new)
    <2> SUFFICES ASSUME NEW c \in Channels, chan[c].sock = fd
                 PROVE  Paired(chan[c].reqs, new)
      OBVIOUS
    <2> DEFINE on == link[fd]
               reqs == chan[c].reqs
    <2>1. Paired(reqs, on) /\ reqs \in Seq(Callers)
      BY <1>1, ChannelType DEF Inv, AllPaired, Fds
    <2>2. /\ new.state = on.state /\ new.todo = Tail(on.todo)
          /\ new.done = IF on.state = "up"
                        THEN Append(on.done, [query |-> Head(on.todo), ok |-> ok]) ELSE on.done
      BY <1>8
    <2>3. on \in Links /\ new \in Links /\ on.todo # <<>>
      BY <1>3, <1>4, <1>8
    <2> HIDE DEF new, on, reqs
    <2>4. Paired(reqs, new)
      BY <2>1, <2>2, <2>3, PairedRuns
    <2> QED
      BY <2>4 DEF reqs
  <1>11. /\ q # Job => /\ q \in Requests /\ ran[q] = <<>> /\ reply[q] = "none"
                       /\ told[q] \in {"nothing", "failed"}
         /\ \A x \in Fds : \A i \in DOMAIN link[x].todo :
               link[x].todo[i] = q /\ q # Job => x = fd /\ i = 1
         /\ \A x \in Fds : \A i \in DOMAIN link[x].done : link[x].done[i].query = q => q = Job
    BY <1>5 DEF Inv, Asked, OneQuery, Done
  <1> HIDE DEF q, a, rest, done, new
  <1>12. /\ link' \in [Fds -> Links]
         /\ \A x \in Fds : link'[x].state = link[x].state
         /\ \A x \in Fds : link'[x] = IF x = fd THEN new ELSE link[x]
    BY <1>3, <1>8, <1>9
  <1>13. /\ ran' \in [Requests -> {<<>>, Carried, Refused}]
         /\ q # Job => /\ ok => ran'[q] = Carried
                       /\ ~ok => ran'[q] = Refused
         /\ \A r \in Requests : r # q => ran'[r] = ran[r]
    <2> DEFINE o == Outcome(ok)
    <2>1. /\ Append(<<>>, o) = <<o>>
          /\ ok => <<o>> = Carried
          /\ ~ok => <<o>> = Refused
      BY DEF Outcome, Carried, Refused
    <2>2. q # Job => /\ q \in Requests /\ ran[q] = <<>>
                     /\ ran' = [ran EXCEPT ![q] = Append(ran[q], o)]
      BY <1>2, <1>11
    <2> HIDE DEF o
    <2>3. q # Job => ran' = [ran EXCEPT ![q] = <<o>>]
      BY <2>1, <2>2
    <2>4. q = Job => ran' = ran /\ q \notin Requests
      BY <1>2, RecordsAssumption
    <2> QED
      BY <1>3, <2>1, <2>2, <2>3, <2>4
  <1>todo. \A x \in Fds : \A i \in DOMAIN link'[x].todo :
              \E j \in DOMAIN link[x].todo :
                 /\ link'[x].todo[i] = link[x].todo[j]
                 /\ j = IF x = fd THEN i + 1 ELSE i
                 /\ i \in Nat
    <2>1. \A x \in Fds : \A i \in DOMAIN link[x].todo : i \in Nat
      BY <1>1, LinkType, DomainIs
    <2> QED
      BY <2>1, <1>5, <1>8, <1>12
  <1>done. \A x \in Fds : \A i \in DOMAIN link'[x].done :
              \/ i \in DOMAIN link[x].done /\ link'[x].done[i] = link[x].done[i]
              \/ link'[x].done[i] = a
    BY <1>7, <1>8, <1>12
  <1>gone. \A x \in Fds : \A i \in DOMAIN link'[x].todo : link'[x].todo[i] = q => q = Job
    <2> SUFFICES ASSUME NEW x \in Fds, NEW i \in DOMAIN link'[x].todo,
                        link'[x].todo[i] = q, q # Job
                 PROVE  FALSE
      OBVIOUS
    <2>1. PICK j \in DOMAIN link[x].todo : /\ link[x].todo[j] = q /\ i \in Nat
                                           /\ j = IF x = fd THEN i + 1 ELSE i
      BY <1>todo
    <2>2. x = fd /\ j = 1
      BY <2>1, <1>11
    <2>3. i + 1 = 1 /\ i \in DOMAIN rest
      BY <2>1, <2>2, <1>8, <1>12
    <2> QED
      BY <2>1, <2>3, <1>5, DomainIs
  <1>14. UNCHANGED <<db, chan, pc, reply, told, fivemin, left>>
    BY DEF ServerRuns
  <1>15. TypeOK'
    BY <1>1, <1>12, <1>13, <1>14 DEF TypeOK
  <1>16. Connections' /\ OneSocket' /\ Waiting' /\ OneLeader' /\ OneJoined' /\ OneWaits'
    <2>1. Connections'
      <3>1. \A c \in Channels : chan[c].sock # 0 => chan[c].sock \in Fds
        BY <1>1, ChannelType
      <3> QED
        BY <3>1, <1>12, <1>14 DEF Inv, Connections
    <2> QED
      BY <2>1, <1>14 DEF Inv, OneSocket, Waiting, OneLeader, OneJoined, OneWaits
  <1>17. Unopened'
    BY <1>4, <1>12 DEF Inv, Unopened
  <1>18. AllPaired'
    <2>1. \A c \in Channels : chan[c].sock # 0 => /\ Paired(chan[c].reqs, link[chan[c].sock])
                                                  /\ chan[c].sock \in Fds
      BY <1>1, ChannelType DEF Inv, AllPaired
    <2> QED
      BY <2>1, <1>10, <1>12, <1>14 DEF AllPaired
  <1>19. Unasked'
    <2> SUFFICES ASSUME NEW r \in Requests
                 PROVE  /\ pc[r] \in {"off", "idle", "connect", "join"} =>
                              /\ ran'[r] = <<>> /\ told[r] = "nothing"
                              /\ \A x \in Fds :
                                    /\ \A i \in DOMAIN link'[x].todo : link'[x].todo[i] # r
                                    /\ \A i \in DOMAIN link'[x].done : link'[x].done[i].query # r
                        /\ pc[r] \notin {"done", "told"} => reply[r] = "none"
      BY <1>14 DEF Unasked
    <2>1. pc[r] \in {"off", "idle", "connect", "join"} =>
             /\ ran[r] = <<>> /\ told[r] = "nothing"
             /\ \A x \in Fds : /\ \A i \in DOMAIN link[x].todo : link[x].todo[i] # r
                               /\ \A i \in DOMAIN link[x].done : link[x].done[i].query # r
      BY DEF Inv, Unasked
    <2>2. pc[r] \in {"off", "idle", "connect", "join"} => q # r
      BY <2>1, <1>5
    <2>3. pc[r] \notin {"done", "told"} => reply[r] = "none"
      BY DEF Inv, Unasked
    <2> QED
      BY <2>1, <2>2, <2>3, <1>6, <1>13, <1>todo, <1>done
  <1>20. Asked'
    <2>1. \A x \in Fds : \A i \in DOMAIN link[x].todo :
             link[x].todo[i] # Job => /\ link[x].todo[i] \in Requests
                                      /\ ran[link[x].todo[i]] = <<>>
                                      /\ reply[link[x].todo[i]] = "none"
                                      /\ told[link[x].todo[i]] \in {"nothing", "failed"}
      BY <1>1, LinkType DEF Inv, Asked
    <2> QED
      BY <2>1, <1>13, <1>14, <1>todo, <1>gone DEF Asked
  <1>21. OneQuery'
    <2>1. \A x, y \in Fds : \A i \in DOMAIN link[x].todo, j \in DOMAIN link[y].todo :
             link[x].todo[i] = link[y].todo[j] /\ link[x].todo[i] # Job => x = y /\ i = j
      BY DEF Inv, OneQuery
    <2> SUFFICES ASSUME NEW x \in Fds, NEW y \in Fds,
                        NEW i \in DOMAIN link'[x].todo, NEW j \in DOMAIN link'[y].todo,
                        link'[x].todo[i] = link'[y].todo[j], link'[x].todo[i] # Job
                 PROVE  x = y /\ i = j
      BY DEF OneQuery
    <2>2. PICK k \in DOMAIN link[x].todo : /\ link'[x].todo[i] = link[x].todo[k]
                                           /\ k = IF x = fd THEN i + 1 ELSE i
                                           /\ i \in Nat
      BY <1>todo
    <2>3. PICK l \in DOMAIN link[y].todo : /\ link'[y].todo[j] = link[y].todo[l]
                                           /\ l = IF y = fd THEN j + 1 ELSE j
                                           /\ j \in Nat
      BY <1>todo
    <2>4. x = y /\ k = l
      <3>1. link[x].todo[k] = link[y].todo[l] /\ link[x].todo[k] # Job
        BY <2>2, <2>3
      <3> QED
        BY <2>1, <3>1
    <2> QED
      BY <2>2, <2>3, <2>4
  <1>22. Done'
    <2>1. \A x \in Fds : \A i \in DOMAIN link[x].done :
             link[x].done[i].query # Job =>
                /\ link[x].done[i].query \in Requests
                /\ link[x].done[i].ok => ran[link[x].done[i].query] = Carried
                /\ ~link[x].done[i].ok => ran[link[x].done[i].query] = Refused
                /\ \A y \in Fds : \A j \in DOMAIN link[y].todo :
                      link[y].todo[j] # link[x].done[i].query
      BY <1>1, LinkType DEF Inv, Done
    <2> SUFFICES ASSUME NEW x \in Fds, NEW i \in DOMAIN link'[x].done,
                        link'[x].done[i].query # Job
                 PROVE  /\ link'[x].done[i].ok => ran'[link'[x].done[i].query] = Carried
                        /\ ~link'[x].done[i].ok => ran'[link'[x].done[i].query] = Refused
                        /\ \A y \in Fds : \A j \in DOMAIN link'[y].todo :
                              link'[y].todo[j] # link'[x].done[i].query
      BY DEF Done
    <2>2. CASE i \in DOMAIN link[x].done /\ link'[x].done[i] = link[x].done[i]
      BY <2>1, <2>2, <1>11, <1>13, <1>todo
    <2>3. CASE link'[x].done[i] = a
      BY <2>3, <1>6, <1>13, <1>gone
    <2> QED
      BY <2>2, <2>3, <1>done
  <1>23. Said'
    <2> SUFFICES ASSUME NEW r \in Requests, NEW said \in {reply[r], told[r]}
                 PROVE  BorneOut(r, said)'
      BY <1>14 DEF Said
    <2>1. BorneOut(r, said)
      BY DEF Inv, Said, BorneOut
    <2>2. CASE r = q
      <3>1. said \in {"none", "nothing", "failed"}
        BY <2>2, <1>11, RecordsAssumption
      <3> QED
        BY <3>1 DEF BorneOut
    <2>3. CASE r # q
      BY <2>1, <2>3, <1>13 DEF BorneOut
    <2> QED
      BY <2>2, <2>3
  <1>24. Visits' /\ Unused'
    BY <1>14 DEF Inv, Visits, Counted, Unused
  <1> QED
    BY <1>15, <1>16, <1>17, <1>18, <1>19, <1>20, <1>21, <1>22, <1>23, <1>24 DEF Inv

-----------------------------------------------------------------------------
(* What a coroutine makes of the answer to its query.                      *)
ResumesAs(c, ok) ==
    /\ pc' \in [Callers -> {"off", "idle", "connect", "join", "wait", "done", "told"}]
    /\ \A x \in Callers \ {c} : pc'[x] = pc[x]
    /\ pc'[c] \in {"idle", "done"} /\ (c # Job => pc'[c] = "done")
    /\ reply' \in [Callers -> {"none", "true", "false", "data"}]
    /\ \A x \in Callers \ {c} : reply'[x] = reply[x]
    /\ c # Job => /\ reply'[c] = "true" => ok
                  /\ reply'[c] = "false" => ~ok
                  /\ reply'[c] = "data" => ok \/ Kind[c] = "recent"
    /\ fivemin' \in [{"in", "out"} -> Nat]
    /\ \/ fivemin'.in + fivemin'.out = fivemin.in + fivemin.out
       \/ /\ fivemin'.in + fivemin'.out = fivemin.in + fivemin.out + 1
          /\ c \in Requests /\ Kind[c] = "visit" /\ reply'[c] = "true"

(* Every way a coroutine goes on with its answer is one of these.          *)
LEMMA ResumeIs ==
    ASSUME TypeOK, NEW c \in Callers, NEW ok \in BOOLEAN, Resume(c, ok)
    PROVE  ResumesAs(c, ok)
  <1>1. /\ pc \in [Callers -> {"off", "idle", "connect", "join", "wait", "done", "told"}]
        /\ reply \in [Callers -> {"none", "true", "false", "data"}]
        /\ fivemin \in [{"in", "out"} -> Nat]
    BY DEF TypeOK
  <1>2. fivemin.in \in Nat /\ fivemin.out \in Nat
    BY <1>1
  <1>3. CASE CarRecorded(c, ok)
    BY <1>1, <1>3 DEF CarRecorded, ResumesAs
  <1>4. CASE c # Job /\ (Selected(c, ok) \/ Recent(c, ok))
    BY <1>1, <1>4 DEF Selected, Recent, ResumesAs
  <1>5. CASE c # Job /\ Inserted(c, ok)
    BY <1>1, <1>5 DEF Inserted, ResumesAs
  <1>6. CASE c # Job /\ Visited(c, ok)
    <2>1. c \in Requests
      BY <1>6 DEF Callers
    <2>2. /\ pc' = [pc EXCEPT ![c] = "done"] /\ Kind[c] = "visit"
          /\ reply' = [reply EXCEPT ![c] = IF ok THEN "true" ELSE "none"]
      BY <1>6 DEF Visited
    <2>3. CASE ~ok
      BY <1>1, <1>6, <2>2, <2>3 DEF Visited, ResumesAs
    <2>4. CASE ok
      <3>1. PICK way \in {"in", "out"} : fivemin' = [fivemin EXCEPT ![way] = @ + 1]
        BY <1>1, <1>6, <2>4 DEF Visited
      <3>2. /\ fivemin' \in [{"in", "out"} -> Nat]
            /\ fivemin'.in + fivemin'.out = fivemin.in + fivemin.out + 1
        BY <1>1, <1>2, <3>1
      <3> QED
        BY <1>1, <1>6, <2>1, <2>2, <2>4, <3>2 DEF ResumesAs
    <2> QED
      BY <2>3, <2>4
  <1> QED
    BY <1>3, <1>4, <1>5, <1>6 DEF Resume

(* The next answer is read and given to the first who waits.               *)
LEMMA DispatchStep ==
    ASSUME Inv, NEW ch \in Channels, Dispatch(ch)
    PROVE  Inv'
  <1>1. TypeOK
    BY DEF Inv
  <1> DEFINE fd == chan[ch].sock
             c == Head(chan[ch].reqs)
             a == Head(link[fd].done)
             reqs == Tail(chan[ch].reqs)
             done == Tail(link[fd].done)
  <1>2. /\ fd \in Fds /\ fd # 0 /\ link[fd].done # <<>> /\ chan[ch].reqs # <<>>
        /\ chan[ch].reqs \in Seq(Callers) /\ link[fd].done \in Seq(Answers)
    <2>1. fd \in Fds /\ fd # 0 /\ link[fd].done # <<>> /\ chan[ch].reqs # <<>>
      BY <1>1, ChannelType DEF Dispatch
    <2> HIDE DEF fd
    <2> QED
      BY <1>1, <2>1, ChannelType, LinkType
  <1>3. /\ reqs \in Seq(Callers) /\ c \in Callers
        /\ 1 \in DOMAIN chan[ch].reqs /\ c = chan[ch].reqs[1]
        /\ \A i \in DOMAIN reqs :
              /\ i + 1 \in DOMAIN chan[ch].reqs /\ reqs[i] = chan[ch].reqs[i + 1]
              /\ i \in Nat /\ i # 0
    BY <1>2, Tailed, DomainIs
  <1>4. /\ done \in Seq(Answers) /\ a \in Answers
        /\ 1 \in DOMAIN link[fd].done /\ a = link[fd].done[1]
        /\ \A i \in DOMAIN done :
              i + 1 \in DOMAIN link[fd].done /\ done[i] = link[fd].done[i + 1]
    <2> DEFINE answers == link[fd].done
    <2>1. answers \in Seq(Answers) /\ answers # <<>>
      BY <1>2
    <2> HIDE DEF answers
    <2>2. /\ Tail(answers) \in Seq(Answers)
          /\ 1 \in DOMAIN answers /\ Head(answers) = answers[1]
          /\ \A i \in DOMAIN Tail(answers) :
                i + 1 \in DOMAIN answers /\ Tail(answers)[i] = answers[i + 1]
      BY <2>1, Tailed
    <2>3. answers[1] \in Answers
      BY <2>1, <2>2, DomainIs
    <2> QED
      BY <2>2, <2>3 DEF answers
  <1>5. ResumesAs(c, a.ok)
    <2>1. Resume(c, a.ok)
      BY DEF Dispatch
    <2>2. a.ok \in BOOLEAN
      BY <1>4
    <2> HIDE DEF c, a
    <2> QED
      BY <1>1, <1>3, <2>1, <2>2, ResumeIs
  <1>6. pc[c] = "wait" /\ (c \in Requests => reply[c] = "none")
    <2>1. pc[c] = "wait"
      BY <1>3 DEF Inv, Waiting
    <2> QED
      BY <2>1 DEF Inv, Unasked
  <1>7. /\ link' = [link EXCEPT ![fd].done = done]
        /\ chan' = [chan EXCEPT ![ch].reqs = reqs]
        /\ UNCHANGED <<db, ran, told, left>>
    BY DEF Dispatch
  <1>8. /\ chan \in [Channels -> SocketChannels] /\ link \in [Fds -> Links]
        /\ chan[ch] \in SocketChannels /\ link[fd] \in Links
    BY <1>1, <1>2 DEF TypeOK
  <1>9. c = a.query /\ Paired(reqs, link'[fd])
    <2> DEFINE on == link[fd]
               old == chan[ch].reqs
    <2>1. Paired(old, on)
      BY <1>2 DEF Inv, AllPaired
    <2>2. /\ link'[fd] \in Links /\ link'[fd].state = on.state
          /\ link'[fd].todo = on.todo /\ link'[fd].done = Tail(on.done)
      <3> HIDE DEF fd, done
      <3>1. /\ link'[fd] \in Links /\ link'[fd].state = link[fd].state
            /\ link'[fd].todo = link[fd].todo /\ link'[fd].done = done
        BY <1>2, <1>4, <1>7, <1>8
      <3> QED
        BY <3>1 DEF done
    <2>3. /\ Paired(Tail(old), link'[fd]) /\ Head(old) = Head(on.done).query
      <3>1. on \in Links /\ old \in Seq(Callers) /\ on.done # <<>>
        BY <1>2, <1>8
      <3> DEFINE new == link'[fd]
      <3> HIDE DEF on, old, new
      <3>2. /\ new \in Links /\ new.state = on.state
            /\ new.todo = on.todo /\ new.done = Tail(on.done)
        BY <2>2 DEF new
      <3>3. Paired(Tail(old), new) /\ Head(old) = Head(on.done).query
        BY <2>1, <3>1, <3>2, PairedTail
      <3> QED
        BY <3>3 DEF new
    <2> QED
      BY <2>3
  <1>10. /\ c # Job => /\ c \in Requests
                       /\ a.ok => ran[c] = Carried
                       /\ ~a.ok => ran[c] = Refused
         /\ a.ok \in BOOLEAN
    BY <1>3, <1>4, <1>9, <1>2 DEF Inv, Done, Callers
  <1> HIDE DEF fd, c, a, reqs, done
  <1>sock. \A x \in Channels : chan'[x].sock = chan[x].sock
    BY <1>7, <1>8
  <1>leader. \A x \in Channels : chan'[x].leader = chan[x].leader
    BY <1>7, <1>8
  <1>joined. \A x \in Channels : chan'[x].joined = chan[x].joined
    BY <1>7, <1>8
  <1>reqs. \A x \in Channels : chan'[x].reqs = IF x = ch THEN reqs ELSE chan[x].reqs
    BY <1>7, <1>8
  <1>todo. \A x \in Fds : link'[x].todo = link[x].todo /\ link'[x].state = link[x].state
    BY <1>7, <1>8
  <1>done. \A x \in Fds : \A i \in DOMAIN link'[x].done :
              \E j \in DOMAIN link[x].done : link'[x].done[i] = link[x].done[j]
    <2>1. \A x \in Fds : link'[x].done = IF x = fd THEN done ELSE link[x].done
      BY <1>7, <1>8
    <2> QED
      BY <2>1, <1>4
  <1>pc. /\ pc' \in [Callers -> {"off", "idle", "connect", "join", "wait", "done", "told"}]
         /\ \A x \in Callers \ {c} : pc'[x] = pc[x]
         /\ pc'[c] \in {"idle", "done"} /\ (c # Job => pc'[c] = "done")
    BY <1>5 DEF ResumesAs
  <1>reply. /\ reply' \in [Callers -> {"none", "true", "false", "data"}]
            /\ \A x \in Callers \ {c} : reply'[x] = reply[x]
    BY <1>5 DEF ResumesAs
  <1>11. TypeOK'
    <2>1. chan' \in [Channels -> SocketChannels]
      BY <1>3, <1>7, <1>8
    <2>2. link' \in [Fds -> Links]
      BY <1>4, <1>7, <1>8
    <2>3. fivemin' \in [{"in", "out"} -> Nat]
      BY <1>5 DEF ResumesAs
    <2> QED
      BY <2>1, <2>2, <2>3, <1>1, <1>7, <1>pc, <1>reply DEF TypeOK
  <1>12. Connections'
    <2>1. \A x \in Channels :
             /\ chan[x].sock = 0 => chan[x].reqs = <<>>
             /\ chan[x].sock # 0 => /\ link[chan[x].sock].state \in {"up", "down"}
                                    /\ chan[x].leader = Nil
                                    /\ chan[x].sock \in Fds
             /\ chan[x].leader = Nil => chan[x].joined = <<>>
      BY <1>1, ChannelType DEF Inv, Connections
    <2>2. chan[ch].sock # 0
      BY <1>2 DEF fd
    <2> QED
      BY <2>1, <2>2, <1>sock, <1>leader, <1>joined, <1>reqs, <1>todo DEF Connections
  <1>13. OneSocket' /\ OneLeader' /\ OneJoined'
    BY <1>sock, <1>leader, <1>joined DEF Inv, OneSocket, OneLeader, OneJoined
  <1>14. Unopened'
    <2>1. link[fd].state # "none"
      BY <1>2 DEF Inv, Unopened
    <2>2. \A x \in Fds \ {fd} : link'[x] = link[x]
      BY <1>7, <1>8
    <2> QED
      BY <2>1, <2>2, <1>todo DEF Inv, Unopened
  <1>once. \A x, y \in Channels : \A i \in DOMAIN chan[x].reqs, j \in DOMAIN chan[y].reqs :
              chan[x].reqs[i] = chan[y].reqs[j] => x = y /\ i = j
    BY DEF Inv, OneWaits
  <1>other. \A x \in Channels : \A i \in DOMAIN chan'[x].reqs : chan'[x].reqs[i] # c
    <2>1. \A x \in Channels \ {ch} : \A i \in DOMAIN chan[x].reqs : chan[x].reqs[i] # c
      BY <1>once, <1>3
    <2>2. \A i \in DOMAIN reqs : reqs[i] # c
      <3>1. \A i \in DOMAIN chan[ch].reqs : chan[ch].reqs[i] = c => i = 1
        BY <1>once, <1>3
      <3>2. \A i \in DOMAIN reqs : i + 1 # 1
        BY <1>3
      <3> QED
        BY <3>1, <3>2, <1>3
    <2> QED
      BY <2>1, <2>2, <1>reqs
  <1>15. Waiting'
    <2>1. \A x \in Channels :
             /\ chan[x].leader # Nil => pc[chan[x].leader] = "connect"
             /\ \A i \in DOMAIN chan[x].joined : pc[chan[x].joined[i]] = "join"
             /\ \A i \in DOMAIN chan[x].reqs : pc[chan[x].reqs[i]] = "wait"
      BY DEF Inv, Waiting
    <2>2. \A x \in Channels :
             /\ chan[x].leader # Nil => pc'[chan[x].leader] = "connect"
             /\ \A i \in DOMAIN chan[x].joined : pc'[chan[x].joined[i]] = "join"
      BY <2>1, <1>1, <1>6, <1>pc, ChannelType
    <2>3. \A x \in Channels : \A i \in DOMAIN chan'[x].reqs :
             chan'[x].reqs[i] \in Callers /\ pc[chan'[x].reqs[i]] = "wait"
      BY <2>1, <1>1, <1>3, <1>reqs, ChannelType
    <2> QED
      BY <2>2, <2>3, <1>leader, <1>joined, <1>other, <1>pc DEF Waiting
  <1>16. OneWaits'
    <2>1. \A i, j \in DOMAIN reqs : reqs[i] = reqs[j] => i = j
      <3>1. \A i, j \in DOMAIN reqs : reqs[i] = reqs[j] => i + 1 = j + 1
        BY <1>once, <1>3
      <3> QED
        BY <3>1, <1>3
    <2>2. \A y \in Channels \ {ch} : \A i \in DOMAIN reqs, j \in DOMAIN chan[y].reqs :
             reqs[i] # chan[y].reqs[j]
      BY <1>once, <1>3
    <2> QED
      BY <2>1, <2>2, <1>once, <1>reqs DEF OneWaits
  <1>17. AllPaired'
    <2>1. \A x \in Channels : chan[x].sock # 0 => /\ Paired(chan[x].reqs, link[chan[x].sock])
                                                  /\ chan[x].sock \in Fds
      BY <1>1, ChannelType DEF Inv, AllPaired
    <2>2. \A x \in Channels \ {ch} : chan[x].sock # fd
      BY <1>2 DEF Inv, OneSocket, fd
    <2>3. \A x \in Fds \ {fd} : link'[x] = link[x]
      BY <1>7, <1>8
    <2>4. chan[ch].sock = fd
      BY DEF fd
    <2> QED
      BY <2>1, <2>2, <2>3, <2>4, <1>9, <1>sock, <1>reqs DEF AllPaired
  <1>18. Unasked'
    <2> SUFFICES ASSUME NEW r \in Requests
                 PROVE  /\ pc'[r] \in {"off", "idle", "connect", "join"} =>
                              /\ ran[r] = <<>> /\ told[r] = "nothing"
                              /\ \A x \in Fds :
                                    /\ \A i \in DOMAIN link[x].todo : link[x].todo[i] # r
                                    /\ \A i \in DOMAIN link'[x].done : link'[x].done[i].query # r
                        /\ pc'[r] \notin {"done", "told"} => reply'[r] = "none"
      BY <1>7, <1>todo DEF Unasked
    <2>1. r \in Callers /\ r # Job
      BY RecordsAssumption DEF Callers
    <2>2. CASE r = c
      BY <2>1, <2>2, <1>pc
    <2>3. CASE r # c
      BY <2>1, <2>3, <1>pc, <1>reply, <1>done DEF Inv, Unasked
    <2> QED
      BY <2>2, <2>3
  <1>19. Asked' /\ OneQuery'
    <2>1. \A x \in Fds : \A i \in DOMAIN link[x].todo :
             link[x].todo[i] # Job =>
                /\ link[x].todo[i] \in Callers /\ link[x].todo[i] # c
                /\ ran[link[x].todo[i]] = <<>> /\ reply[link[x].todo[i]] = "none"
                /\ told[link[x].todo[i]] \in {"nothing", "failed"}
      <3>1. c # Job => \A x \in Fds : \A i \in DOMAIN link[x].todo : link[x].todo[i] # c
        BY <1>2, <1>4, <1>9 DEF Inv, Done
      <3> QED
        BY <3>1, <1>1, LinkType DEF Inv, Asked
    <2>2. Asked'
      BY <2>1, <1>7, <1>reply, <1>todo DEF Asked
    <2>3. OneQuery'
      BY <1>todo DEF Inv, OneQuery
    <2> QED
      BY <2>2, <2>3
  <1>20. Done'
    <2>1. \A x \in Fds : \A i \in DOMAIN link[x].done :
             link[x].done[i].query # Job =>
                /\ link[x].done[i].ok => ran[link[x].done[i].query] = Carried
                /\ ~link[x].done[i].ok => ran[link[x].done[i].query] = Refused
                /\ \A y \in Fds : \A j \in DOMAIN link[y].todo :
                      link[y].todo[j] # link[x].done[i].query
      BY DEF Inv, Done
    <2> QED
      BY <2>1, <1>7, <1>todo, <1>done DEF Done
  <1>21. Said'
    <2> SUFFICES ASSUME NEW r \in Requests, NEW said \in {reply'[r], told[r]}
                 PROVE  BorneOut(r, said)
      BY <1>7 DEF Said, BorneOut
    <2>1. \A heard \in {reply[r], told[r]} : BorneOut(r, heard)
      BY DEF Inv, Said, BorneOut
    <2>2. r \in Callers /\ r # Job
      BY RecordsAssumption DEF Callers
    <2>3. CASE r = c /\ said = reply'[r]
      <3>1. /\ a.ok => ran[c] = Carried
            /\ ~a.ok => ran[c] = Refused
        BY <2>2, <2>3, <1>10
      <3>2. /\ said = "true" => a.ok
            /\ said = "false" => ~a.ok
            /\ said = "data" => a.ok \/ Kind[c] = "recent"
        BY <2>2, <2>3, <1>5 DEF ResumesAs
      <3> QED
        BY <2>3, <3>1, <3>2 DEF BorneOut
    <2>4. CASE ~(r = c /\ said = reply'[r])
      BY <2>1, <2>2, <2>4, <1>reply
    <2> QED
      BY <2>3, <2>4
  <1>22. Visits'
    <2>1. /\ IsFiniteSet(Counted') /\ IsFiniteSet(Counted) /\ Counted \subseteq Counted'
          /\ Cardinality(Counted) \in Nat /\ Cardinality(Counted') \in Nat
      <3>1. Counted \subseteq Requests /\ Counted' \subseteq Requests
        BY DEF Counted
      <3>2. IsFiniteSet(Counted') /\ IsFiniteSet(Counted)
        BY <3>1, RecordsAssumption, FS_Subset
      <3>3. Counted \subseteq Counted'
        BY <1>6, <1>reply DEF Counted, Callers
      <3> QED
        BY <3>2, <3>3, FS_CardinalityType
    <2>2. Cardinality(Counted) <= Cardinality(Counted')
      BY <2>1, FS_Subset
    <2>3. fivemin.in + fivemin.out <= Cardinality(Counted)
      BY DEF Inv, Visits
    <2>4. fivemin.in \in Nat /\ fivemin.out \in Nat /\ fivemin'.in \in Nat /\ fivemin'.out \in Nat
      BY <1>1, <1>11 DEF TypeOK
    <2>5. CASE fivemin'.in + fivemin'.out = fivemin.in + fivemin.out
      BY <2>1, <2>2, <2>3, <2>4, <2>5 DEF Visits
    <2>6. CASE /\ fivemin'.in + fivemin'.out = fivemin.in + fivemin.out + 1
               /\ c \in Requests /\ Kind[c] = "visit" /\ reply'[c] = "true"
      <3>1. c \in Counted' /\ c \notin Counted
        BY <2>6, <1>6 DEF Counted
      <3>2. Cardinality(Counted \cup {c}) = Cardinality(Counted) + 1
        BY <2>1, <3>1, FS_AddElement
      <3>3. Cardinality(Counted \cup {c}) <= Cardinality(Counted')
        BY <2>1, <3>1, FS_Subset
      <3> QED
        BY <2>1, <2>3, <2>4, <2>6, <3>2, <3>3 DEF Visits
    <2> QED
      BY <2>5, <2>6, <1>5 DEF ResumesAs
  <1>23. Unused'
    <2>1. \A r \in Requests : r \in Callers /\ r # Job /\ r \in Channels
      BY RecordsAssumption DEF Callers, Channels
    <2>2. \A r \in Requests : pc'[r] \in {"off", "idle"} => pc[r] \in {"off", "idle"}
      BY <2>1, <1>pc
    <2>3. chan[ch] # NewChannel
      BY <1>2 DEF NewChannel, fd
    <2>4. \A x \in Channels \ {ch} : chan'[x] = chan[x]
      BY <1>7, <1>8
    <2>5. pc[Job] # "off" => db # Nil
      BY DEF Inv, Unused
    <2>6. pc'[Job] # "off" => pc[Job] # "off"
      BY <1>6, <1>pc DEF Callers
    <2> QED
      BY <2>1, <2>2, <2>3, <2>4, <2>5, <2>6, <1>7 DEF Inv, Unused
  <1> QED
    BY <1>11, <1>12, <1>13, <1>14, <1>15, <1>16, <1>17, <1>18, <1>19, <1>20,
       <1>21, <1>22, <1>23 DEF Inv

-----------------------------------------------------------------------------
(* The agent tells its client what it has heard.                           *)
LEMMA ForwardStep ==
    ASSUME Inv, NEW r \in Requests, Forward(r)
    PROVE  Inv'
  <1>1. TypeOK
    BY DEF Inv
  <1>2. /\ pc[r] = "done" /\ pc' = [pc EXCEPT ![r] = "told"] /\ r \in Callers /\ r # Job
        /\ UNCHANGED <<db, chan, link, ran, reply, fivemin, left>>
    BY RecordsAssumption DEF Forward, Callers
  <1>3. /\ pc' \in [Callers -> {"off", "idle", "connect", "join", "wait", "done", "told"}]
        /\ pc'[r] = "told" /\ \A x \in Callers \ {r} : pc'[x] = pc[x]
    BY <1>1, <1>2 DEF TypeOK
  <1>4. /\ told' \in [Requests -> {"nothing", "failed", "true", "false", "data"}]
        /\ told'[r] \in {told[r], "failed"} \/ (reply[r] # "none" /\ told'[r] = reply[r])
        /\ \A x \in Requests \ {r} : told'[x] = told[x]
    <2>1. reply[r] \in {"none", "true", "false", "data"}
      BY <1>1, <1>2 DEF TypeOK
    <2> QED
      BY ZenonT(30), <1>1, <2>1 DEF Forward, TypeOK
  <1>5. TypeOK'
    BY <1>1, <1>2, <1>3, <1>4 DEF TypeOK
  <1>6. Connections' /\ OneSocket' /\ Unopened' /\ OneLeader' /\ OneJoined' /\ OneWaits'
    BY <1>2 DEF Inv, Connections, OneSocket, Unopened, OneLeader, OneJoined, OneWaits
  <1>7. Waiting'
    <2>1. \A x \in Channels :
             /\ chan[x].leader # Nil => pc[chan[x].leader] = "connect"
             /\ \A i \in DOMAIN chan[x].joined : pc[chan[x].joined[i]] = "join"
             /\ \A i \in DOMAIN chan[x].reqs : pc[chan[x].reqs[i]] = "wait"
      BY DEF Inv, Waiting
    <2>2. \A x \in Channels :
             /\ chan[x].leader # Nil => pc'[chan[x].leader] = "connect"
             /\ \A i \in DOMAIN chan[x].joined : pc'[chan[x].joined[i]] = "join"
             /\ \A i \in DOMAIN chan[x].reqs : pc'[chan[x].reqs[i]] = "wait"
      BY <2>1, <1>1, <1>2, <1>3, ChannelType
    <2> QED
      BY <2>2, <1>2 DEF Waiting
  <1>8. AllPaired'
    BY <1>2 DEF Inv, AllPaired, Paired
  <1>9. Unasked'
    <2>1. \A x \in Requests : pc'[x] \in {"off", "idle", "connect", "join"} =>
              x # r /\ pc[x] = pc'[x]
      BY <1>3 DEF Callers
    <2>2. \A x \in Requests : pc'[x] \notin {"done", "told"} => pc[x] = pc'[x]
      BY <1>3 DEF Callers
    <2> QED
      BY <2>1, <2>2, <1>2, <1>4 DEF Inv, Unasked
  <1>10. Asked'
    <2>1. \A x \in Fds : \A i \in DOMAIN link[x].todo :
             link[x].todo[i] # Job => /\ link[x].todo[i] \in Requests
                                      /\ ran[link[x].todo[i]] = <<>>
                                      /\ reply[link[x].todo[i]] = "none"
                                      /\ told[link[x].todo[i]] \in {"nothing", "failed"}
      BY <1>1, LinkType DEF Inv, Asked, Callers
    <2>2. \A x \in Requests : reply[x] = "none" /\ told[x] \in {"nothing", "failed"}
                                 => told'[x] \in {"nothing", "failed"}
      BY <1>4
    <2> QED
      BY <2>1, <2>2, <1>2 DEF Asked
  <1>11. OneQuery' /\ Done'
    BY <1>2 DEF Inv, OneQuery, Done
  <1>12. Said'
    <2>1. \A x \in Requests : told'[x] \in {told[x], reply[x], "failed"}
      BY <1>4
    <2> QED
      BY <2>1, <1>2 DEF Inv, Said, BorneOut
  <1>13. Visits'
    BY <1>2 DEF Inv, Visits, Counted
  <1>14. Unused'
    <2>1. \A x \in Requests : pc'[x] \in {"off", "idle"} => pc[x] = pc'[x]
      BY <1>3 DEF Callers
    <2>2. pc'[Job] = pc[Job]
      BY <1>2, <1>3 DEF Callers
    <2> QED
      BY <2>1, <2>2, <1>2 DEF Inv, Unused
  <1> QED
    BY <1>5, <1>6, <1>7, <1>8, <1>9, <1>10, <1>11, <1>12, <1>13, <1>14 DEF Inv

(* A connection breaks.                                                    *)
LEMMA BreakStep ==
    ASSUME Inv, NEW fd \in Fds, Break(fd)
    PROVE  Inv'
  <1>1. TypeOK
    BY DEF Inv
  <1>2. /\ link \in [Fds -> Links] /\ left \in [breaks : Nat, sensors : Nat]
        /\ link[fd].state = "up" /\ left.breaks > 0
        /\ link' = [link EXCEPT ![fd].state = "down"]
        /\ left' = [left EXCEPT !.breaks = @ - 1]
        /\ UNCHANGED <<db, chan, pc, ran, reply, told, fivemin>>
    BY <1>1 DEF Break, TypeOK
  <1>3. /\ link' \in [Fds -> Links]
        /\ \A x \in Fds : link'[x].todo = link[x].todo
        /\ \A x \in Fds : link'[x].done = link[x].done
        /\ \A x \in Fds : link'[x].state = IF x = fd THEN "down" ELSE link[x].state
    BY <1>2
  <1>4. left' \in [breaks : Nat, sensors : Nat]
    <2>1. left.breaks - 1 \in Nat
      BY <1>2
    <2> QED
      BY <2>1, <1>2
  <1>5. TypeOK'
    BY <1>1, <1>2, <1>3, <1>4 DEF TypeOK
  <1>sock. \A x \in Channels : chan[x].sock # 0 => chan[x].sock \in Fds
    BY <1>1, ChannelType
  <1>6. Connections'
    <2>1. \A x \in Channels : chan[x].sock # 0 => link'[chan[x].sock].state \in {"up", "down"}
      BY <1>sock, <1>3 DEF Inv, Connections
    <2> QED
      BY <2>1, <1>2 DEF Inv, Connections
  <1>7. OneSocket' /\ Waiting' /\ OneLeader' /\ OneJoined' /\ OneWaits'
    BY <1>2 DEF Inv, OneSocket, Waiting, OneLeader, OneJoined, OneWaits
  <1>8. Unopened'
    BY <1>2, <1>3 DEF Inv, Unopened
  <1>9. AllPaired'
    <2>1. \A x \in Channels : chan[x].sock # 0 => Paired(chan[x].reqs, link[chan[x].sock])
      BY DEF Inv, AllPaired
    <2>2. \A x \in Channels : chan[x].sock # 0 => Paired(chan[x].reqs, link'[chan[x].sock])
      <3> SUFFICES ASSUME NEW x \in Channels, chan[x].sock # 0
                   PROVE  Paired(chan[x].reqs, link'[chan[x].sock])
        OBVIOUS
      <3> DEFINE on == link[chan[x].sock]
                 new == link'[chan[x].sock]
      <3>1. /\ new.todo = on.todo /\ new.done = on.done
            /\ new.state \in {on.state, "down"}
        BY <1>3, <1>sock
      <3>2. Paired(chan[x].reqs, on)
        BY <2>1
      <3> HIDE DEF on, new
      <3>3. Paired(chan[x].reqs, new)
        BY <3>1, <3>2 DEF Paired
      <3> QED
        BY <3>3 DEF new
    <2> QED
      BY <2>2, <1>2 DEF AllPaired
  <1>10. Unasked'
    BY <1>2, <1>3 DEF Inv, Unasked
  <1>11. Asked'
    BY <1>2, <1>3 DEF Inv, Asked
  <1>12. OneQuery'
    <2>1. \A x, y \in Fds : \A i \in DOMAIN link[x].todo, j \in DOMAIN link[y].todo :
             link[x].todo[i] = link[y].todo[j] /\ link[x].todo[i] # Job => x = y /\ i = j
      BY DEF Inv, OneQuery
    <2>2. \A x \in Fds : link'[x].todo = link[x].todo
      BY <1>3
    <2> QED
      BY <2>1, <2>2 DEF OneQuery
  <1>13. Done'
    BY <1>2, <1>3 DEF Inv, Done
  <1>14. Said' /\ Visits' /\ Unused'
    BY <1>2 DEF Inv, Said, BorneOut, Visits, Counted, Unused
  <1> QED
    BY <1>5, <1>6, <1>7, <1>8, <1>9, <1>10, <1>11, <1>12, <1>13, <1>14 DEF Inv

(* The five minute timer and the sensors touch nothing that a query does.  *)
LEMMA RefreshFootTrafficStep ==
    ASSUME Inv, RefreshFootTraffic
    PROVE  Inv'
  <1>1. /\ fivemin' = [in |-> 0, out |-> 0]
        /\ UNCHANGED <<db, chan, link, pc, ran, reply, told, left>>
    BY DEF RefreshFootTraffic
  <1>2. fivemin' \in [{"in", "out"} -> Nat] /\ fivemin'.in = 0 /\ fivemin'.out = 0
    BY <1>1
  <1>3. TypeOK'
    BY <1>1, <1>2 DEF Inv, TypeOK
  <1>4. Visits'
    <2>1. Counted \subseteq Requests
      BY DEF Counted
    <2>2. Cardinality(Counted) \in Nat
      BY <2>1, RecordsAssumption, FS_Subset, FS_CardinalityType
    <2>3. Counted' = Counted
      BY <1>1 DEF Counted
    <2> QED
      BY <2>2, <2>3, <1>2 DEF Visits
  <1>5. /\ Connections' /\ OneSocket' /\ Unopened' /\ Waiting' /\ OneLeader'
        /\ OneJoined' /\ OneWaits'
    BY <1>1 DEF Inv, Connections, OneSocket, Unopened, Waiting, OneLeader,
                OneJoined, OneWaits
  <1>pairs. AllPaired'
    BY <1>1 DEF Inv, AllPaired, Paired
  <1>6. Unasked' /\ Asked' /\ OneQuery' /\ Done' /\ Said' /\ Unused'
    BY <1>1 DEF Inv, Unasked, Asked, OneQuery, Done, Said, BorneOut, Unused
  <1> QED
    BY <1>3, <1>4, <1>5, <1>pairs, <1>6 DEF Inv

(* A sensor touches the parking map only.                                  *)
LEMMA SetParkinglotRecordStep ==
    ASSUME Inv, SetParkinglotRecord
    PROVE  Inv'
  <1>1. /\ left' = [left EXCEPT !.sensors = @ - 1] /\ left.sensors > 0
        /\ UNCHANGED <<db, chan, link, pc, ran, reply, told, fivemin>>
    BY DEF SetParkinglotRecord
  <1>2. left \in [breaks : Nat, sensors : Nat]
    BY DEF Inv, TypeOK
  <1>3. left' \in [breaks : Nat, sensors : Nat]
    BY <1>1, <1>2
  <1>4. TypeOK'
    BY <1>1, <1>3 DEF Inv, TypeOK
  <1>5. /\ Connections' /\ OneSocket' /\ Unopened' /\ Waiting' /\ OneLeader'
        /\ OneJoined' /\ OneWaits'
    BY <1>1 DEF Inv, Connections, OneSocket, Unopened, Waiting, OneLeader,
                OneJoined, OneWaits
  <1>pairs. AllPaired'
    BY <1>1 DEF Inv, AllPaired, Paired
  <1>6. Unasked' /\ Asked' /\ OneQuery' /\ Done' /\ Said' /\ Visits' /\ Unused'
    BY <1>1 DEF Inv, Unasked, Asked, OneQuery, Done, Said, BorneOut, Visits, Counted, Unused
  <1> QED
    BY <1>4, <1>5, <1>pairs, <1>6 DEF Inv

-----------------------------------------------------------------------------
(* The inductive invariant holds at the start and is kept by every step.   *)
LEMMA InitInv ==
    ASSUME Init
    PROVE  Inv
  <1>1. PICK s \in Starts :
           /\ db = s.db
           /\ chan = [ch \in Channels |->
                        IF ch = s.db THEN [NewChannel EXCEPT !.sock = 1] ELSE NewChannel]
           /\ link = [fd \in Fds |-> IF fd = 1 /\ s.db # Nil
                                     THEN [NoLink EXCEPT !.state = "up"] ELSE NoLink]
           /\ pc = [c \in Callers |-> IF c \in s.callers THEN "idle" ELSE "off"]
           /\ ran = [r \in Requests |-> <<>>]
           /\ reply = [c \in Callers |-> "none"]
           /\ told = [r \in Requests |-> "nothing"]
           /\ fivemin = [in |-> 0, out |-> 0]
           /\ left = s.left
    BY DEF Init
  <1>2. /\ s.db \in {Boot, Nil} /\ (Job \in s.callers => s.db = Boot)
        /\ s.left \in [breaks : Nat, sensors : Nat]
    BY StartsAssumption
  <1>3. /\ Boot \in Channels /\ Nil \notin Channels /\ Nil \notin Callers /\ 1 \in Fds
        /\ \A r \in Requests : r \in Callers /\ r \in Channels /\ r # Boot
        /\ Job \in Callers
    BY RecordsAssumption DEF Channels, Callers, Fds
  <1>4. /\ NewChannel \in SocketChannels /\ [NewChannel EXCEPT !.sock = 1] \in SocketChannels
        /\ NoLink \in Links /\ [NoLink EXCEPT !.state = "up"] \in Links
    <2>1. <<>> \in Seq(Callers) /\ <<>> \in Seq(Answers)
      BY EmptySeq
    <2>2. NewChannel \in SocketChannels
      BY <2>1 DEF NewChannel, SocketChannels
    <2>3. [NewChannel EXCEPT !.sock = 1] \in SocketChannels
      BY <2>2, <1>3 DEF SocketChannels
    <2>4. NoLink \in Links
      BY <2>1 DEF NoLink, Links
    <2>5. [NoLink EXCEPT !.state = "up"] \in Links
      BY <2>4 DEF Links
    <2> QED
      BY <2>2, <2>3, <2>4, <2>5
  <1>5. \A ch \in Channels :
           /\ chan[ch].sock = IF ch = db THEN 1 ELSE 0
           /\ chan[ch].leader = Nil /\ chan[ch].joined = <<>> /\ chan[ch].reqs = <<>>
           /\ ch # db => chan[ch] = NewChannel
    BY <1>1 DEF NewChannel
  <1>6. \A fd \in Fds :
           /\ link[fd].state = IF fd = 1 /\ db # Nil THEN "up" ELSE "none"
           /\ link[fd].todo = <<>> /\ link[fd].done = <<>>
    BY <1>1 DEF NoLink
  <1>7. TypeOK
    <2>1. fivemin \in [{"in", "out"} -> Nat]
      BY <1>1
    <2> QED
      BY <2>1, <1>1, <1>2, <1>3, <1>4 DEF TypeOK
  <1>8. Connections
    BY <1>3, <1>5, <1>6 DEF Connections
  <1>9. OneSocket /\ OneLeader
    BY <1>5 DEF OneSocket, OneLeader
  <1>10. Unopened
    BY <1>6 DEF Unopened
  <1>11. Waiting /\ OneJoined /\ OneWaits
    BY <1>5 DEF Waiting, OneJoined, OneWaits
  <1>12. AllPaired
    <2>1. \A ch \in Channels : chan[ch].sock # 0 => chan[ch].sock = 1 /\ chan[ch].reqs = <<>>
      BY <1>5
    <2>2. link[1].todo = <<>> /\ link[1].done = <<>>
      BY <1>3, <1>6
    <2>3. Paired(<<>>, link[1])
      BY <2>2 DEF Paired
    <2> QED
      BY <2>1, <2>3 DEF AllPaired
  <1>13. Unasked /\ Said
    BY <1>1, <1>3, <1>6 DEF Unasked, Said, BorneOut
  <1>14. Asked /\ OneQuery /\ Done
    BY <1>6 DEF Asked, OneQuery, Done
  <1>15. Visits
    <2>1. Counted = {}
      BY <1>1, <1>3 DEF Counted
    <2> QED
      BY <2>1, <1>1, FS_EmptySet DEF Visits
  <1>16. Unused
    BY <1>1, <1>2, <1>3, <1>5 DEF Unused
  <1> QED
    BY <1>7, <1>8, <1>9, <1>10, <1>11, <1>12, <1>13, <1>14, <1>15, <1>16 DEF Inv

(* Every step keeps the inductive invariant.                               *)
LEMMA NextInv ==
    ASSUME Inv, [Next]_vars
    PROVE  Inv'
  <1>1. CASE UNCHANGED vars
    <2>1. UNCHANGED <<db, chan, link, pc, ran, reply, told, fivemin, left>>
      BY <1>1 DEF vars
    <2>2. TypeOK'
      BY <2>1 DEF Inv, TypeOK
    <2>3. Connections' /\ OneSocket'
      BY <2>1 DEF Inv, Connections, OneSocket
    <2>4. Unopened' /\ Waiting'
      BY <2>1 DEF Inv, Unopened, Waiting
    <2>5. OneLeader'
      BY <2>1 DEF Inv, OneLeader
    <2>6. OneJoined'
      BY <2>1 DEF Inv, OneJoined
    <2>7. OneWaits'
      BY <2>1 DEF Inv, OneWaits
    <2>8. AllPaired'
      BY <2>1 DEF Inv, AllPaired
    <2>9. Unasked' /\ Asked' /\ OneQuery' /\ Done' /\ Said' /\ Visits' /\ Unused'
      BY <2>1 DEF Inv, Unasked, Asked, OneQuery, Done, Said, BorneOut, Visits, Counted, Unused
    <2> QED
      BY <2>2, <2>3, <2>4, <2>5, <2>6, <2>7, <2>8, <2>9 DEF Inv
  <1>2. CASE \E r \in Requests : Handle(r) \/ BadArgument(r) \/ Forward(r)
    BY <1>2, HandleStep, BadArgumentStep, ForwardStep
  <1>3. CASE RefreshCarTraffic
    BY <1>3, RefreshCarTrafficStep
  <1>4. CASE \E ch \in Channels :
                Connected(ch) \/ ConnectFails(ch) \/ Dispatch(ch) \/ Closed(ch)
    BY <1>4, ConnectedStep, ConnectFailsStep, DispatchStep, ClosedStep
  <1>5. CASE \E fd \in Fds : ServerRuns(fd) \/ Break(fd)
    BY <1>5, ServerRunsStep, BreakStep
  <1>6. CASE RefreshFootTraffic
    BY <1>6, RefreshFootTrafficStep
  <1>7. CASE SetParkinglotRecord
    BY <1>7, SetParkinglotRecordStep
  <1> QED
    BY <1>1, <1>2, <1>3, <1>4, <1>5, <1>6, <1>7 DEF Next

(* The inductive invariant holds in every reachable state.                 *)
THEOREM Invariant == Spec => []Inv
  BY InitInv, NextInv, PTL DEF Spec

(* The connection of a service and the coroutines that use it keep their   *)
(* types, and the server carries out no query of a request twice           *)
(* (skynet/socketchannel.lua, skynet/db/mysql.lua).                        *)
THEOREM TypeCorrect == Spec => []TypeOK
  <1>1. Inv => TypeOK
    BY DEF Inv
  <1> QED
    BY <1>1, Invariant, PTL

(* dispatch_by_order gives each answer to the coroutine that asked for it, *)
(* whatever connections have broken and been opened again, by whomever.    *)
THEOREM AnswersInStep == Spec => []InStep
  <1>1. ASSUME Inv
        PROVE  InStep
    <2> SUFFICES ASSUME NEW ch \in Channels, chan[ch].sock # 0
                 PROVE  LET on == link[chan[ch].sock]
                            asked == [i \in DOMAIN on.done |-> on.done[i].query] \o on.todo
                        IN IF on.state = "up"
                           THEN chan[ch].reqs = asked
                           ELSE /\ Len(on.done) <= Len(chan[ch].reqs)
                                /\ \A i \in DOMAIN on.done :
                                      chan[ch].reqs[i] = on.done[i].query
      BY DEF InStep
    <2> DEFINE on == link[chan[ch].sock]
               reqs == chan[ch].reqs
               given == [i \in DOMAIN on.done |-> on.done[i].query]
               asked == given \o on.todo
    <2>1. on \in Links /\ reqs \in Seq(Callers) /\ Paired(reqs, on)
      <3>1. chan[ch].sock \in Fds
        BY <1>1, ChannelType DEF Inv
      <3> QED
        BY <1>1, <3>1, ChannelType DEF Inv, TypeOK, AllPaired
    <2> HIDE DEF on, reqs
    <2>2. /\ on.todo \in Seq(Callers) /\ on.done \in Seq(Answers)
          /\ DOMAIN on.done = 1..Len(on.done)
          /\ Len(on.done) \in Nat /\ Len(on.todo) \in Nat /\ Len(reqs) \in Nat
      BY <2>1
    <2>3. \A i \in 1..Len(on.done) : on.done[i].query \in Callers
      <3>1. \A i \in 1..Len(on.done) : on.done[i] \in Answers
        BY <2>2, DomainIs
      <3> QED
        BY <3>1
    <2>4. given \in Seq(Callers) /\ Len(given) = Len(on.done)
      BY <2>2, <2>3
    <2>5. /\ Len(on.done) <= Len(reqs)
          /\ \A i \in 1..Len(on.done) : reqs[i] = on.done[i].query
      BY <2>1 DEF Paired
    <2>6. ASSUME on.state = "up"
          PROVE  reqs = asked
      <3>1. /\ Len(reqs) = Len(on.done) + Len(on.todo)
            /\ \A i \in 1..Len(on.todo) : reqs[Len(on.done) + i] = on.todo[i]
        BY <2>1, <2>6 DEF Paired
      <3>2. \A i \in 1..Len(on.done) : given[i] = on.done[i].query
        BY <2>2
      <3> HIDE DEF given
      <3>3. /\ asked \in Seq(Callers) /\ Len(asked) = Len(on.done) + Len(on.todo)
            /\ \A i \in 1..Len(on.done) : asked[i] = given[i]
            /\ \A j \in 1..Len(on.todo) : asked[Len(on.done) + j] = on.todo[j]
        <4>1. /\ asked \in Seq(Callers) /\ Len(asked) = Len(given) + Len(on.todo)
              /\ \A i \in 1..Len(given) : asked[i] = given[i]
              /\ \A j \in 1..Len(on.todo) : asked[Len(given) + j] = on.todo[j]
          <5>1. DOMAIN given = 1..Len(given)
            BY <2>4
          <5>2. /\ given \o on.todo \in Seq(Callers)
                /\ Len(given \o on.todo) = Len(given) + Len(on.todo)
                /\ \A i \in DOMAIN given : (given \o on.todo)[i] = given[i]
                /\ \A j \in 1..Len(on.todo) :
                      (given \o on.todo)[Len(given) + j] = on.todo[j]
            <6> DEFINE todo == on.todo
            <6>1. todo \in Seq(Callers) /\ given \in Seq(Callers)
              BY <2>2, <2>4
            <6> HIDE DEF todo
            <6>2. /\ given \o todo \in Seq(Callers)
                  /\ Len(given \o todo) = Len(given) + Len(todo)
                  /\ \A i \in DOMAIN given : (given \o todo)[i] = given[i]
                  /\ \A j \in 1..Len(todo) : (given \o todo)[Len(given) + j] = todo[j]
              BY <6>1, Concat
            <6> QED
              BY <6>2 DEF todo
          <5> QED
            BY <5>1, <5>2
        <4> QED
          BY <4>1, <2>4
      <3> HIDE DEF asked
      <3>4. ASSUME NEW i \in 1..Len(reqs)
            PROVE  reqs[i] = asked[i]
        <4>1. CASE i \in 1..Len(on.done)
          BY <4>1, <2>5, <3>2, <3>3
        <4>2. CASE i \notin 1..Len(on.done)
          <5> DEFINE j == i - Len(on.done)
          <5>1. j \in 1..Len(on.todo) /\ i = Len(on.done) + j
            <6> DEFINE d == Len(on.done)
                       l == Len(on.todo)
            <6>1. d \in Nat /\ l \in Nat /\ i \in 1..(d + l) /\ i \notin 1..d
              BY <4>2, <3>1, <2>2
            <6> HIDE DEF d, l
            <6>2. (i - d) \in 1..l /\ i = d + (i - d)
              BY <6>1
            <6> QED
              BY <6>2 DEF d, l
          <5> QED
            BY <5>1, <3>1, <3>3
        <4> QED
          BY <4>1, <4>2
      <3> QED
        BY <2>1, <3>1, <3>3, <3>4, SeqEqual
    <2> QED
      BY <2>2, <2>5, <2>6 DEF on, reqs
  <1> QED
    BY <1>1, Invariant, PTL

(* A handler and the agent that called it say of a query what the server   *)
(* did, and the visit counters of unattended count stored visits only.     *)
THEOREM AnswersAreTrue == Spec => []AnswersMatch
  <1>1. ASSUME Inv
        PROVE  AnswersMatch
    <2> DEFINE Stored == {r \in Requests : Kind[r] = "visit" /\ ran[r] = Carried}
    <2>1. Counted \subseteq Stored
      BY <1>1 DEF Inv, Said, BorneOut, Counted
    <2>2. /\ Cardinality(Counted) <= Cardinality(Stored)
          /\ Cardinality(Counted) \in Nat /\ Cardinality(Stored) \in Nat
      <3>1. IsFiniteSet(Stored)
        BY RecordsAssumption, FS_Subset
      <3> HIDE DEF Stored
      <3> QED
        BY <2>1, <3>1, FS_Subset, FS_CardinalityType
    <2>3. /\ fivemin.in + fivemin.out <= Cardinality(Counted)
          /\ fivemin.in \in Nat /\ fivemin.out \in Nat
      BY <1>1 DEF Inv, TypeOK, Visits
    <2>4. fivemin.in + fivemin.out <= Cardinality(Stored)
      BY <2>2, <2>3
    <2> QED
      BY <1>1, <2>4 DEF Inv, Said, AnswersMatch
  <1> QED
    BY <1>1, Invariant, PTL
=============================================================================
