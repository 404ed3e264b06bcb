--------------------------- MODULE GatewayProofs ----------------------------
(***************************************************************************)
(* Theorems about Gateway for any sockets, players, agents and gateplayers *)
(* and any bounds.                                                         *)
(***************************************************************************)
EXTENDS Gateway, SequenceTheorems, TLAPS

(* A gateplayer that nothing refers to has no contents.                    *)
Blank(q) == gp[q] = NoGp /\ sent[q] = 0 /\ got[q] = <<>>
Collected == \A q \in Objs : Held(q) \/ Blank(q)

(* What a step can do to the messages of gateplayer q: nothing, collect or *)
(* make it, resume it, raise while it is resumed, cache a message, write   *)
(* one, or lose one.                                                       *)
Kept(q) == /\ sent'[q] = sent[q] /\ got'[q] = got[q]
           /\ gp'[q].cache = gp[q].cache /\ gp'[q].conn \in {gp[q].conn, Nil}
Emptied(q) == sent'[q] = 0 /\ got'[q] = <<>> /\ gp'[q].cache = <<>>
Resumed(q) == /\ sent'[q] = sent[q] /\ got'[q] = got[q] \o gp[q].cache
              /\ gp'[q].cache = <<>> /\ ~Jammed(gp[q].cache)
CutAt(q, k) == /\ Jams(gp[q].cache, k)
               /\ \A i \in 1 .. k - 1 : ~Jams(gp[q].cache, i)
               /\ got'[q] = got[q] \o SubSeq(gp[q].cache, 1, k - 1)
Cut(q) == /\ sent'[q] = sent[q] /\ gp'[q].cache = gp[q].cache
          /\ \E k \in DOMAIN gp[q].cache : CutAt(q, k)
          /\ loop'[gp'[q].conn] = "raised"
Cached(q) == /\ sent'[q] = sent[q] + 1 /\ got'[q] = got[q]
             /\ gp'[q].cache = Append(gp[q].cache, sent[q] + 1)
             /\ gp'[q].conn = Nil
Written(q) == /\ sent'[q] = sent[q] + 1 /\ got'[q] = Append(got[q], sent[q] + 1)
              /\ gp'[q] = gp[q] /\ gp[q].conn # Nil
Missed(q) == /\ sent'[q] = sent[q] + 1 /\ got'[q] = got[q]
             /\ gp'[q] = gp[q] /\ gp[q].conn # Nil
             /\ ~Writable(gp[q].conn) \/ sent[q] + 1 \in Unpackable
StepOf(q) == \/ Kept(q) \/ Emptied(q) \/ Resumed(q) \/ Cut(q)
             \/ Cached(q) \/ Written(q) \/ Missed(q)

Quiet == UNCHANGED <<players, gp, log, timers>>

(* A reconnect that flushes the cache or raises.                           *)
Resume(fd, p) == Reconnect(fd, p) \/ ReconnectRaises(fd, p)

SessionStep == \/ \E fd \in Fds, p \in Players : Resume(fd, p)
               \/ \E fd \in Fds : CloseBound(fd)
               \/ \E o \in Objs : TimerFires(o)
               \/ \E p \in Players : Send(p)
               \/ \E fd \in Fds, p \in Players, a \in Agents \cup {Nil} : SureAgent(fd, p, a)
               \/ \E p \in Players : Kick(p)

(* Every step leaves the sessions alone, or is one of six.                 *)
LEMMA Steps == [Next]_vars => Quiet \/ SessionStep
<1> SUFFICES ASSUME [Next]_vars, ~SessionStep PROVE Quiet
  OBVIOUS
<1>1. CASE UNCHANGED vars
  BY <1>1 DEF vars, Quiet, log
<1>2. CASE \E fd \in Fds : SocketStep(fd)
  <2>1. PICK fd \in Fds : SocketStep(fd)
    BY <1>2
  <2>2. \/ Connect(fd) \/ ConnectIgnored(fd) \/ LineToLogin(fd)
        \/ LineToAgent(fd) \/ LineRaises(fd) \/ ReconnectRefused(fd)
        \/ CloseUnbound(fd) \/ CloseRaises(fd) \/ GoneUnread(fd)
    BY <2>1 DEF SocketStep, SessionStep, Resume
  <2> QED
    BY <2>2 DEF Quiet, log, Connect, ConnectIgnored, LineToLogin, LineToAgent,
                LineRaises, ReconnectRefused, CloseUnbound, CloseRaises, GoneUnread
<1>3. CASE \E o \in Objs : TimerFires(o)
  BY <1>3 DEF SessionStep
<1>4. CASE MessageStep
  <2>1. \/ \E p \in Players : SendToNobody(p) \/ KickNobody(p)
        \/ \E fd \in Fds, p \in Players : SureAgentRefused(fd, p)
        \/ Shutdown
    BY <1>4 DEF MessageStep, SessionStep
  <2> QED
    BY <2>1 DEF Quiet, log, SendToNobody, KickNobody, SureAgentRefused, Shutdown
<1> QED
  BY <1>1, <1>2, <1>3, <1>4 DEF Next

-----------------------------------------------------------------------------
(* Types *)

(* Collecting gateplayers keeps the types of the three functions.          *)
LEMMA CollectTypes ==
    ASSUME TypeOK,
           NEW newGp \in [Objs -> Gateplayer], Collect(newGp, sent, got)
    PROVE  /\ gp' \in [Objs -> Gateplayer]
           /\ sent' \in [Objs -> 0 .. MaxSend]
           /\ got' \in [Objs -> Seq(1 .. MaxSend)]
<1>1. NoGp \in Gateplayer /\ 0 \in 0 .. MaxSend
  BY BoundsAssumption, EmptySeq DEF NoGp, Gateplayer
<1>2. <<>> \in Seq(1 .. MaxSend)
  BY EmptySeq
<1>3. gp' \in [Objs -> Gateplayer]
  BY <1>1 DEF Collect
<1>4. sent' \in [Objs -> 0 .. MaxSend]
  BY <1>1 DEF Collect, TypeOK
<1>5. got' \in [Objs -> Seq(1 .. MaxSend)]
  BY <1>2 DEF Collect, TypeOK
<1> QED
  BY <1>3, <1>4, <1>5

(* The parts of the state a session step may leave mistyped.               *)
Sessions ==
    /\ gp \in [Objs -> Gateplayer]
    /\ sent \in [Objs -> 0 .. MaxSend]
    /\ got \in [Objs -> Seq(1 .. MaxSend)]

(* What comes before an element of a sequence.                             *)
LEMMA Before ==
    ASSUME NEW S, NEW s \in Seq(S), NEW k \in DOMAIN s
    PROVE  /\ SubSeq(s, 1, k - 1) \in Seq(S)
           /\ DOMAIN SubSeq(s, 1, k - 1) = 1 .. k - 1
           /\ \A i \in 1 .. k - 1 : SubSeq(s, 1, k - 1)[i] = s[i] /\ i \in DOMAIN s
<1>1. k \in 1 .. Len(s) /\ Len(s) \in Nat /\ DOMAIN s = 1 .. Len(s)
  BY LenProperties
<1>2. \A i \in 1 .. k - 1 : i \in 1 .. Len(s)
  BY <1>1
<1>3. \A i \in 1 .. k - 1 : s[i] \in S
  BY <1>1, <1>2, ElementOfSeq
<1>4. /\ SubSeq(s, 1, k - 1) \in Seq(S)
      /\ Len(SubSeq(s, 1, k - 1)) = k - 1
      /\ \A i \in 1 .. k - 1 : SubSeq(s, 1, k - 1)[i] = s[i]
  BY <1>1, <1>3, SubSeqProperties
<1> QED
  BY <1>1, <1>2, <1>4, LenProperties

(* What a reconnect does, whether or not it raises: the gateplayer of the  *)
(* player has the socket, and the others are left alone.                   *)
LEMMA Resuming ==
    ASSUME TypeOK, NEW fd \in Fds, NEW p \in Players, Resume(fd, p)
    PROVE  /\ players[p] \in Objs /\ gp[players[p]].conn = Nil
           /\ UNCHANGED <<conns, players, sent, timers, closing>>
           /\ bound' = [bound EXCEPT ![fd] = p] /\ asked' = {}
           /\ gp' \in [Objs -> Gateplayer] /\ got' \in [Objs -> Seq(1 .. MaxSend)]
           /\ gp'[players[p]].p \in {p, gp[players[p]].p}
           /\ gp'[players[p]].conn = fd
           /\ \A q \in Objs \ {players[p]} : gp'[q] = gp[q] /\ got'[q] = got[q]
           /\ Resumed(players[p]) \/ Cut(players[p])
<1> DEFINE o == players[p]
           c == gp[o].cache
<1>1. o \in Objs /\ gp[o] \in Gateplayer
  BY DEF TypeOK, Resume, Reconnect, ReconnectRaises
<1>2. c \in Seq(1 .. MaxSend) /\ got[o] \in Seq(1 .. MaxSend)
  BY <1>1 DEF TypeOK, Gateplayer
<1>3. CASE Reconnect(fd, p)
  <2>1. /\ gp[o].conn = Nil /\ ~Jammed(c)
        /\ UNCHANGED <<conns, players, sent, timers, closing>>
        /\ bound' = [bound EXCEPT ![fd] = p] /\ asked' = {}
        /\ gp' = [gp EXCEPT ![o] = [p |-> p, agent |-> gp[o].agent, conn |-> fd, cache |-> <<>>]]
        /\ got' = [got EXCEPT ![o] = got[o] \o c]
    BY <1>3 DEF Reconnect, Flushed
  <2>2. [p |-> p, agent |-> gp[o].agent, conn |-> fd, cache |-> <<>>] \in Gateplayer
    BY <1>1, EmptySeq DEF Gateplayer
  <2>3. got[o] \o c \in Seq(1 .. MaxSend)
    BY <1>2, ConcatProperties
  <2>4. gp' \in [Objs -> Gateplayer] /\ got' \in [Objs -> Seq(1 .. MaxSend)]
    BY <2>1, <2>2, <2>3 DEF TypeOK
  <2>5. /\ gp'[o] = [p |-> p, agent |-> gp[o].agent, conn |-> fd, cache |-> <<>>]
        /\ got'[o] = got[o] \o c
        /\ \A q \in Objs \ {o} : gp'[q] = gp[q] /\ got'[q] = got[q]
    BY <1>1, <2>1 DEF TypeOK
  <2>6. gp'[o].cache = <<>> /\ gp'[o].conn = fd /\ gp'[o].p = p
    BY <2>5
  <2>7. Resumed(o)
    BY <2>1, <2>5, <2>6 DEF Resumed
  <2> QED
    BY <1>1, <2>1, <2>4, <2>5, <2>6, <2>7
<1>4. CASE ReconnectRaises(fd, p)
  <2>1. /\ gp[o].conn = Nil
        /\ UNCHANGED <<conns, players, sent, timers, closing>>
        /\ bound' = [bound EXCEPT ![fd] = p] /\ asked' = {}
        /\ gp' = [gp EXCEPT ![o] = [gp[o] EXCEPT !.conn = fd]]
        /\ loop' = [loop EXCEPT ![fd] = "raised"]
    BY <1>4 DEF ReconnectRaises
  <2>2. PICK k \in DOMAIN c :
          /\ Jams(c, k)
          /\ \A i \in 1 .. k - 1 : ~Jams(c, i)
          /\ got' = [got EXCEPT ![o] = got[o] \o SubSeq(c, 1, k - 1)]
    BY <1>4 DEF ReconnectRaises
  <2>4. SubSeq(c, 1, k - 1) \in Seq(1 .. MaxSend)
    BY <1>2, Before
  <2>5. got[o] \o SubSeq(c, 1, k - 1) \in Seq(1 .. MaxSend)
    BY <1>2, <2>4, ConcatProperties
  <2>6. [gp[o] EXCEPT !.conn = fd] \in Gateplayer
    BY <1>1 DEF Gateplayer
  <2>7. gp' \in [Objs -> Gateplayer] /\ got' \in [Objs -> Seq(1 .. MaxSend)]
    BY <2>1, <2>2, <2>5, <2>6 DEF TypeOK
  <2>8. /\ gp'[o] = [gp[o] EXCEPT !.conn = fd]
        /\ got'[o] = got[o] \o SubSeq(c, 1, k - 1)
        /\ \A q \in Objs \ {o} : gp'[q] = gp[q] /\ got'[q] = got[q]
    BY <1>1, <2>1, <2>2 DEF TypeOK
  <2>9. gp'[o].cache = c /\ gp'[o].conn = fd /\ gp'[o].p = gp[o].p
    BY <1>1, <2>8 DEF Gateplayer
  <2>10. loop'[fd] = "raised"
    BY <2>1 DEF TypeOK
  <2>11. Cut(o)
    <3>1. CutAt(o, k)
      BY <2>2, <2>8 DEF CutAt
    <3> QED
      BY <2>1, <2>9, <2>10, <3>1 DEF Cut
  <2> QED
    BY <1>1, <2>1, <2>7, <2>8, <2>9, <2>11
<1> QED
  BY <1>3, <1>4 DEF Resume

(* So does taking the socket from a gateplayer and starting its timer.     *)
LEMMA CloseTypes ==
    ASSUME TypeOK, NEW fd \in Fds, CloseBound(fd)
    PROVE  Sessions' /\ timers' \in [Objs -> 0 .. MaxTimers]
<1> DEFINE o == players[bound[fd]]
<1>1. o \in Objs /\ gp[o] \in Gateplayer
  BY DEF TypeOK, CloseBound, Disconnects
<1>2. gp' = [gp EXCEPT ![o] = [gp[o] EXCEPT !.conn = Nil]]
  BY DEF CloseBound
<1>3. [gp[o] EXCEPT !.conn = Nil] \in Gateplayer
  BY <1>1 DEF Gateplayer
<1>4. gp' \in [Objs -> Gateplayer]
  BY <1>2, <1>3 DEF TypeOK
<1>5. \A q \in Objs : gp'[q].cache = gp[q].cache
  BY <1>1, <1>2 DEF TypeOK, Gateplayer
<1>6. timers' \in [Objs -> 0 .. MaxTimers]
  BY <1>1, BoundsAssumption DEF CloseBound, TimerSet, TypeOK
<1> QED
  BY <1>4, <1>5, <1>6 DEF CloseBound, log, Sessions, TypeOK

(* So does a timer that fires.                                             *)
LEMMA TimerTypes ==
    ASSUME TypeOK, NEW o \in Objs, TimerFires(o)
    PROVE  Sessions' /\ timers' \in [Objs -> 0 .. MaxTimers]
<1>1. timers' \in [Objs -> 0 .. MaxTimers]
  BY BoundsAssumption DEF TimerFires, TypeOK
<1>2. Collect(gp, sent, got)
  BY DEF TimerFires
<1> QED
  BY <1>1, <1>2, CollectTypes DEF Sessions, TypeOK

(* So does a kick.                                                         *)
LEMMA KickTypes ==
    ASSUME TypeOK, NEW p \in Players, Kick(p)
    PROVE  Sessions'
<1>1. Collect(gp, sent, got)
  BY DEF Kick
<1> QED
  BY <1>1, CollectTypes DEF Sessions, TypeOK

(* So does a new session.                                                  *)
LEMMA SureAgentTypes ==
    ASSUME TypeOK, NEW fd \in Fds, NEW p \in Players, NEW a \in Agents \cup {Nil},
           SureAgent(fd, p, a)
    PROVE  Sessions' /\ players' \in [Players -> Objs \cup {Nil}]
<1>1. PICK o \in Objs :
         /\ ~Held(o)
         /\ players' = [players EXCEPT ![p] = o]
         /\ Collect([gp EXCEPT ![o] = [p |-> p, agent |-> a, conn |-> fd, cache |-> <<>>]],
                    sent, got)
  BY DEF SureAgent
<1> DEFINE newGp == [gp EXCEPT ![o] = [p |-> p, agent |-> a, conn |-> fd, cache |-> <<>>]]
<1>2. <<>> \in Seq(1 .. MaxSend) /\ Len(<<>>) = 0
  BY EmptySeq
<1>3. [p |-> p, agent |-> a, conn |-> fd, cache |-> <<>>] \in Gateplayer
  BY <1>2 DEF Gateplayer
<1>4. newGp \in [Objs -> Gateplayer]
  BY <1>3 DEF TypeOK
<1>6. Sessions'
  BY <1>1, <1>4, CollectTypes DEF Sessions
<1>7. players' \in [Players -> Objs \cup {Nil}]
  BY <1>1 DEF TypeOK
<1> QED
  BY <1>6, <1>7

(* A message put in the cache of gateplayer o leaves the rest as it is.    *)
LEMMA MessageCached ==
    ASSUME TypeOK, NEW o \in Objs, NEW m \in 1 .. MaxSend
    PROVE  /\ WithMessage(o, m) \in [Objs -> Gateplayer]
           /\ WithMessage(o, m)[o].cache = Append(gp[o].cache, m)
           /\ WithMessage(o, m)[o].conn = gp[o].conn
           /\ WithMessage(o, m)[o].p = gp[o].p
           /\ \A q \in Objs \ {o} : WithMessage(o, m)[q] = gp[q]
<1> DEFINE c == Append(gp[o].cache, m)
<1>1. gp[o] \in Gateplayer /\ gp[o].cache \in Seq(1 .. MaxSend)
  BY DEF TypeOK, Gateplayer
<1>2. c \in Seq(1 .. MaxSend)
  BY <1>1, AppendProperties
<1> HIDE DEF c
<1>3. WithMessage(o, m) = [gp EXCEPT ![o] = [gp[o] EXCEPT !.cache = c]]
  BY DEF WithMessage, c
<1>4. [gp[o] EXCEPT !.cache = c] \in Gateplayer
  BY <1>1, <1>2 DEF Gateplayer
<1>5. /\ [gp[o] EXCEPT !.cache = c].cache = c
      /\ [gp[o] EXCEPT !.cache = c].conn = gp[o].conn
      /\ [gp[o] EXCEPT !.cache = c].p = gp[o].p
  BY <1>1 DEF Gateplayer
<1> QED
  BY <1>3, <1>4, <1>5 DEF TypeOK, c

(* What send does to the gateplayer o of its player.                       *)
Sending(o) ==
    /\ sent' = [sent EXCEPT ![o] = sent[o] + 1]
    /\ sent[o] + 1 \in 1 .. MaxSend
    /\ \/ /\ gp[o].conn = Nil /\ got' = got
          /\ gp' = WithMessage(o, sent[o] + 1)
       \/ /\ gp[o].conn # Nil /\ gp' = gp
          /\ got' = [got EXCEPT ![o] = Append(got[o], sent[o] + 1)]
       \/ /\ gp[o].conn # Nil /\ gp' = gp
          /\ ~Writable(gp[o].conn) \/ sent[o] + 1 \in Unpackable
          /\ got' = got

(* The gateplayer a message is for exists and is changed as above.         *)
LEMMA SendCases ==
    ASSUME TypeOK, NEW p \in Players, Send(p)
    PROVE  \E o \in Objs : o = players[p] /\ Sending(o)
<1> DEFINE o == players[p]
<1>1. o \in Objs
  BY DEF Send, TypeOK
<1>2. sent[o] \in 0 .. MaxSend /\ sent[o] < MaxSend
  BY <1>1 DEF Send, TypeOK
<1>3. sent[o] + 1 \in 1 .. MaxSend
  BY <1>2, BoundsAssumption
<1>4. sent' = [sent EXCEPT ![o] = sent[o] + 1]
  BY DEF Send
<1>5. CASE Offline(p)
  <2>1. gp[o].conn = Nil
    BY <1>5 DEF Offline
  <2>2. gp' = WithMessage(o, sent[o] + 1)
    BY <1>5 DEF Send
  <2>3. got' = got
    BY <1>5 DEF Send
  <2> HIDE DEF o
  <2>4. Sending(o)
    BY <1>3, <1>4, <2>1, <2>2, <2>3 DEF Sending
  <2> QED
    BY <1>1, <2>4 DEF o
<1>6. CASE ~Offline(p)
  <2>1. gp[o].conn # Nil
    BY <1>6 DEF Offline
  <2>2. /\ got' = IF Writable(gp[o].conn) /\ sent[o] + 1 \notin Unpackable
                  THEN [got EXCEPT ![o] = Append(got[o], sent[o] + 1)] ELSE got
        /\ gp' = gp
    BY <1>6 DEF Send
  <2> HIDE DEF o
  <2>3. CASE Writable(gp[o].conn) /\ sent[o] + 1 \notin Unpackable
    BY <1>1, <1>3, <1>4, <2>1, <2>2, <2>3 DEF o, Sending
  <2>4. CASE ~(Writable(gp[o].conn) /\ sent[o] + 1 \notin Unpackable)
    BY <1>1, <1>3, <1>4, <2>1, <2>2, <2>4 DEF o, Sending
  <2> QED
    BY <2>3, <2>4
<1> QED
  BY <1>5, <1>6

(* So does a message.                                                      *)
LEMMA SendTypes ==
    ASSUME TypeOK, NEW p \in Players, Send(p)
    PROVE  Sessions'
<1>1. PICK o \in Objs : o = players[p] /\ Sending(o)
  BY SendCases
<1> USE DEF Sending
<1> DEFINE n == sent[o] + 1
<1>2. /\ gp[o] \in Gateplayer /\ gp[o].cache \in Seq(1 .. MaxSend)
      /\ got[o] \in Seq(1 .. MaxSend) /\ n \in 1 .. MaxSend
  BY <1>1 DEF TypeOK, Gateplayer
<1>4. Append(got[o], n) \in Seq(1 .. MaxSend)
  BY <1>2, AppendProperties
<1>5. sent' \in [Objs -> 0 .. MaxSend]
  BY <1>1, BoundsAssumption DEF TypeOK
<1>6. gp' \in [Objs -> Gateplayer]
  BY <1>1, <1>2, MessageCached DEF TypeOK
<1>7. got' \in [Objs -> Seq(1 .. MaxSend)]
  BY <1>1, <1>4 DEF TypeOK
<1> QED
  BY <1>1, <1>5, <1>6, <1>7 DEF Sessions

(* Gateplayers belong to players: the one a player has is its own, and one  *)
(* with a timer has a player.                                              *)
Owned ==
    /\ \A p \in Players : players[p] # Nil => gp[players[p]].p = p
    /\ \A o \in Objs : timers[o] > 0 => gp[o].p \in Players

(* The initial state is well typed.                                        *)
LEMMA TypeInit == Init => TypeOK
<1> SUFFICES ASSUME Init PROVE TypeOK
  OBVIOUS
<1>1. <<>> \in Seq(1 .. MaxSend)
  BY EmptySeq
<1>2. NoGp \in Gateplayer
  BY <1>1 DEF NoGp, Gateplayer
<1>5. /\ gp \in [Objs -> Gateplayer]
      /\ sent \in [Objs -> 0 .. MaxSend]
      /\ timers \in [Objs -> 0 .. MaxTimers]
  BY <1>2, BoundsAssumption DEF Init
<1>6. got \in [Objs -> Seq(1 .. MaxSend)]
  BY <1>1 DEF Init
<1> QED
  BY <1>5, <1>6 DEF Init, TypeOK

(* No action breaks a type.                                                *)
LEMMA TypeStep == TypeOK /\ Owned /\ [Next]_vars => TypeOK'
<1> SUFFICES ASSUME TypeOK, Owned, [Next]_vars PROVE TypeOK'
  OBVIOUS
<1> USE DEF Sessions
<1>1. ASSUME NEW fd \in Fds,
             \/ Connect(fd) \/ ConnectIgnored(fd)
             \/ LineToLogin(fd) \/ LineToAgent(fd) \/ LineRaises(fd)
             \/ ReconnectRefused(fd) \/ CloseUnbound(fd) \/ CloseRaises(fd) \/ GoneUnread(fd)
      PROVE TypeOK'
  BY <1>1 DEF TypeOK, log, Connect, ConnectIgnored, LineToLogin, LineToAgent,
              LineRaises, ReconnectRefused, CloseUnbound, CloseRaises, GoneUnread
<1>2. ASSUME NEW fd \in Fds, NEW p \in Players, Resume(fd, p)
      PROVE TypeOK'
  <2>1. loop' = loop \/ loop' = [loop EXCEPT ![fd] = "raised"]
    BY <1>2 DEF Resume, Reconnect, ReconnectRaises
  <2>2. /\ UNCHANGED <<conns, players, sent, timers, closing>>
        /\ bound' = [bound EXCEPT ![fd] = p] /\ asked' = {}
        /\ gp' \in [Objs -> Gateplayer] /\ got' \in [Objs -> Seq(1 .. MaxSend)]
    BY <1>2, Resuming
  <2> QED
    BY <2>1, <2>2 DEF TypeOK
<1>3. ASSUME NEW fd \in Fds, CloseBound(fd)
      PROVE TypeOK'
  <2>1. /\ UNCHANGED <<conns, bound, players, closing>>
        /\ loop' = [loop EXCEPT ![fd] = "ended"] /\ asked' = {}
    BY <1>3 DEF CloseBound
  <2> QED
    BY <1>3, <2>1, CloseTypes DEF TypeOK
<1>4. ASSUME NEW o \in Objs, TimerFires(o)
      PROVE TypeOK'
  <2>1. UNCHANGED <<conns, bound, players, loop, closing>>
    BY <1>4 DEF TimerFires
  <2>2. asked' \in SUBSET Players
    BY <1>4 DEF TimerFires, Owned
  <2> QED
    BY <1>4, <2>1, <2>2, TimerTypes DEF TypeOK
<1>5. ASSUME NEW p \in Players, Send(p)
      PROVE TypeOK'
  <2>1. UNCHANGED <<conns, bound, players, timers, loop, closing>>
    BY <1>5 DEF Send
  <2>2. asked' \in SUBSET Players
    BY <1>5 DEF Send
  <2> QED
    BY <1>5, <2>1, <2>2, SendTypes DEF TypeOK
<1>6. ASSUME NEW fd \in Fds, NEW p \in Players, NEW a \in Agents \cup {Nil},
             SureAgent(fd, p, a)
      PROVE TypeOK'
  <2>1. /\ UNCHANGED <<conns, timers, loop, closing>>
        /\ bound' = [bound EXCEPT ![fd] = p] /\ asked' = {}
    BY <1>6 DEF SureAgent
  <2> QED
    BY <1>6, <2>1, SureAgentTypes DEF TypeOK
<1>7. ASSUME NEW p \in Players, Kick(p)
      PROVE TypeOK'
  <2>1. /\ UNCHANGED <<bound, timers, loop, closing>>
        /\ players' = [players EXCEPT ![p] = Nil]
        /\ conns' \subseteq conns /\ asked' = {}
    BY <1>7 DEF Kick
  <2> QED
    BY <1>7, <2>1, KickTypes DEF TypeOK
<1>8. ASSUME \/ \E fd \in Fds, p \in Players : SureAgentRefused(fd, p)
             \/ \E p \in Players : SendToNobody(p) \/ KickNobody(p)
             \/ Shutdown
      PROVE TypeOK'
  BY <1>8 DEF TypeOK, log, SureAgentRefused, SendToNobody, KickNobody, Shutdown
<1>9. CASE UNCHANGED vars
  BY <1>9 DEF vars, TypeOK
<1> QED
  BY <1>1, <1>2, <1>3, <1>4, <1>5, <1>6, <1>7, <1>8, <1>9 DEF Next, SocketStep, MessageStep, Resume

-----------------------------------------------------------------------------
(* One step of a session *)

(* What collecting does to a gateplayer.                                   *)
LEMMA CollectedOrKept ==
    ASSUME NEW newGp, Collect(newGp, sent, got), NEW q \in Objs
    PROVE  \/ Held(q)' /\ gp'[q] = newGp[q] /\ sent'[q] = sent[q] /\ got'[q] = got[q]
           \/ ~Held(q)' /\ gp'[q] = NoGp /\ sent'[q] = 0 /\ got'[q] = <<>>
BY DEF Collect

(* sure_agent makes a gateplayer under a name that nothing used.           *)
LEMMA MadeNew ==
    ASSUME TypeOK, NEW fd \in Fds, NEW p \in Players, NEW a \in Agents \cup {Nil},
           SureAgent(fd, p, a)
    PROVE  \E o \in Objs :
             /\ ~Held(o)
             /\ players' = [players EXCEPT ![p] = o] /\ timers' = timers
             /\ Collect([gp EXCEPT ![o] = [p |-> p, agent |-> a, conn |-> fd, cache |-> <<>>]],
                        sent, got)
BY DEF SureAgent

(* Who owns a gateplayer does not change while it is held.                 *)
LEMMA OwnedStep == TypeOK /\ Owned /\ [Next]_vars => Owned'
<1> SUFFICES ASSUME TypeOK, Owned, [Next]_vars PROVE Owned'
  OBVIOUS
<1>1. CASE Quiet
  BY <1>1 DEF Quiet, Owned
<1>2. ASSUME NEW fd \in Fds, NEW p \in Players, Resume(fd, p) PROVE Owned'
  <2>1. /\ players[p] \in Objs /\ UNCHANGED <<players, timers>>
        /\ gp'[players[p]].p \in {p, gp[players[p]].p}
        /\ \A q \in Objs \ {players[p]} : gp'[q] = gp[q]
    BY <1>2, Resuming
  <2>2. gp[players[p]].p = p
    BY <2>1, NilAssumption DEF Owned
  <2>3. \A q \in Objs : gp'[q].p = gp[q].p
    BY <2>1, <2>2
  <2> QED
    BY <2>1, <2>3 DEF Owned, TypeOK
<1>3. ASSUME NEW fd \in Fds, CloseBound(fd) PROVE Owned'
  <2> DEFINE o == players[bound[fd]]
  <2>1. bound[fd] \in Players /\ o \in Objs
    BY <1>3 DEF CloseBound, Disconnects, TypeOK
  <2>2. /\ players' = players /\ timers' = [timers EXCEPT ![o] = timers[o] + 1]
        /\ gp' = [gp EXCEPT ![o] = [gp[o] EXCEPT !.conn = Nil]]
    BY <1>3 DEF CloseBound, TimerSet
  <2>3. \A q \in Objs : gp'[q].p = gp[q].p
    BY <2>1, <2>2 DEF TypeOK, Gateplayer
  <2>4. gp[o].p \in Players
    BY <2>1, NilAssumption DEF Owned
  <2>5. ASSUME NEW q \in Objs, timers'[q] > 0 PROVE gp'[q].p \in Players
    <3>1. CASE q = o
      BY <3>1, <2>3, <2>4
    <3>2. CASE q # o
      BY <3>2, <2>1, <2>2, <2>3, <2>5 DEF TypeOK, Owned
    <3> QED
      BY <3>1, <3>2
  <2>6. ASSUME NEW p \in Players, players'[p] # Nil PROVE gp'[players'[p]].p = p
    BY <2>2, <2>3, <2>6 DEF Owned, TypeOK
  <2> QED
    BY <2>5, <2>6 DEF Owned
<1>4. ASSUME NEW o \in Objs, TimerFires(o) PROVE Owned'
  <2>1. /\ players' = players /\ timers[o] > 0
        /\ timers' = [timers EXCEPT ![o] = timers[o] - 1]
        /\ Collect(gp, sent, got)
    BY <1>4 DEF TimerFires
  <2>2. \A q \in Objs : Held(q)' => gp'[q] = gp[q]
    BY <2>1, CollectedOrKept
  <2>3. ASSUME NEW q \in Objs, timers'[q] > 0 PROVE gp'[q].p \in Players
    <3>1. timers[q] > 0
      BY <2>1, <2>3 DEF TypeOK
    <3> QED
      BY <2>2, <2>3, <3>1 DEF Held, Owned
  <2>4. ASSUME NEW p \in Players, players'[p] # Nil PROVE gp'[players'[p]].p = p
    BY <2>1, <2>2, <2>4 DEF Held, Owned, TypeOK
  <2> QED
    BY <2>3, <2>4 DEF Owned
<1>5. ASSUME NEW p \in Players, Send(p) PROVE Owned'
  <2>1. PICK o \in Objs : o = players[p] /\ Sending(o)
    BY <1>5, SendCases
  <2>2. UNCHANGED <<players, timers>>
    BY <1>5 DEF Send
  <2>3. \A q \in Objs : gp'[q].p = gp[q].p
    BY <2>1, MessageCached DEF Sending
  <2> QED
    BY <2>2, <2>3 DEF Owned, TypeOK
<1>6. ASSUME NEW fd \in Fds, NEW p \in Players, NEW a \in Agents \cup {Nil},
             SureAgent(fd, p, a)
      PROVE  Owned'
  <2>1. PICK o \in Objs :
             /\ ~Held(o)
             /\ players' = [players EXCEPT ![p] = o] /\ timers' = timers
             /\ Collect([gp EXCEPT ![o] = [p |-> p, agent |-> a, conn |-> fd, cache |-> <<>>]],
                        sent, got)
    BY <1>6, MadeNew
  <2> DEFINE newGp == [gp EXCEPT ![o] = [p |-> p, agent |-> a, conn |-> fd, cache |-> <<>>]]
  <2>2. ASSUME NEW q \in Objs, Held(q)' PROVE gp'[q].p = IF q = o THEN p ELSE gp[q].p
    <3>1. gp'[q] = newGp[q]
      BY <2>1, <2>2, CollectedOrKept
    <3>2. newGp[q].p = IF q = o THEN p ELSE gp[q].p
      BY DEF TypeOK
    <3> QED
      BY <3>1, <3>2
  <2>3. ASSUME NEW q \in Objs, timers'[q] > 0 PROVE gp'[q].p \in Players
    BY <2>1, <2>2, <2>3 DEF Held, Owned
  <2>4. ASSUME NEW r \in Players, players'[r] # Nil PROVE gp'[players'[r]].p = r
    <3>1. PICK q \in Objs : q = players'[r] /\ Held(q)'
      BY <2>1, <2>4 DEF Held, TypeOK
    <3>2. CASE r = p
      <4>1. q = o
        BY <3>1, <3>2, <2>1 DEF TypeOK
      <4> QED
        BY <4>1, <3>1, <3>2, <2>2
    <3>3. CASE r # p
      <4>1. players[r] = q /\ q # o
        BY <3>3, <3>1, <2>1 DEF Held, TypeOK
      <4>2. gp[q].p = r
        BY <4>1, <3>1, <2>4 DEF Owned
      <4> QED
        BY <4>1, <4>2, <3>1, <2>2
    <3> QED
      BY <3>2, <3>3
  <2> QED
    BY <2>3, <2>4 DEF Owned
<1>7. ASSUME NEW p \in Players, Kick(p) PROVE Owned'
  <2>1. /\ players' = [players EXCEPT ![p] = Nil] /\ timers' = timers
        /\ Collect(gp, sent, got)
    BY <1>7 DEF Kick
  <2>2. \A q \in Objs : Held(q)' => gp'[q] = gp[q]
    BY <2>1, CollectedOrKept
  <2>3. ASSUME NEW q \in Objs, timers'[q] > 0 PROVE gp'[q].p \in Players
    BY <2>1, <2>2, <2>3 DEF Held, Owned
  <2>4. ASSUME NEW r \in Players, players'[r] # Nil PROVE gp'[players'[r]].p = r
    <3>1. PICK q \in Objs : q = players'[r] /\ q = players[r]
      BY <2>1, <2>4 DEF TypeOK
    <3>2. Held(q)'
      BY <3>1 DEF Held
    <3>3. gp[q].p = r
      BY <3>1, <2>4 DEF Owned
    <3> QED
      BY <3>1, <3>2, <3>3, <2>2
  <2> QED
    BY <2>3, <2>4 DEF Owned
<1> QED
  BY <1>1, <1>2, <1>3, <1>4, <1>5, <1>6, <1>7, Steps DEF SessionStep

(* Each step does to a gateplayer one of the things StepOf lists, and an   *)
(* unheld one stays blank.                                                 *)
LEMMA SessionSteps ==
    ASSUME TypeOK, Collected, [Next]_vars, NEW q \in Objs
    PROVE  StepOf(q) /\ (Held(q)' \/ Blank(q)')
<1> USE DEF StepOf
<1>1. CASE Quiet
  BY <1>1 DEF Quiet, log, Kept, Collected, Held, Blank
<1>2. ASSUME NEW fd \in Fds, NEW p \in Players, Resume(fd, p)
      PROVE  StepOf(q) /\ (Held(q)' \/ Blank(q)')
  <2>1. /\ players[p] \in Objs /\ UNCHANGED <<players, timers, sent>>
        /\ \A o \in Objs \ {players[p]} : gp'[o] = gp[o] /\ got'[o] = got[o]
        /\ Resumed(players[p]) \/ Cut(players[p])
    BY <1>2, Resuming
  <2>2. CASE q = players[p]
    BY <2>1, <2>2 DEF Held
  <2>3. CASE q # players[p]
    BY <2>1, <2>3 DEF Kept, Collected, Held, Blank
  <2> QED
    BY <2>2, <2>3
<1>3. ASSUME NEW fd \in Fds, CloseBound(fd)
      PROVE  StepOf(q) /\ (Held(q)' \/ Blank(q)')
  <2> DEFINE o == players[bound[fd]]
  <2>1. bound[fd] \in Players /\ o \in Objs
    BY <1>3 DEF CloseBound, Disconnects, TypeOK
  <2>2. /\ UNCHANGED <<players, sent, got>>
        /\ timers' = [timers EXCEPT ![o] = timers[o] + 1]
        /\ gp' = [gp EXCEPT ![o] = [gp[o] EXCEPT !.conn = Nil]]
    BY <1>3 DEF CloseBound, TimerSet, log
  <2>3. CASE q = o
    <3>1. Held(q)'
      BY <2>1, <2>2, <2>3 DEF Held
    <3>2. gp'[q].cache = gp[q].cache /\ gp'[q].conn = Nil
      BY <2>2, <2>3 DEF TypeOK, Gateplayer
    <3> QED
      BY <2>2, <3>1, <3>2 DEF Kept
  <2>4. CASE q # o
    <3>1. gp'[q] = gp[q] /\ timers'[q] = timers[q]
      BY <2>1, <2>2, <2>4 DEF TypeOK
    <3> QED
      BY <2>2, <3>1 DEF Kept, Collected, Held, Blank
  <2> QED
    BY <2>3, <2>4
<1>4. ASSUME Collect(gp, sent, got)
      PROVE  StepOf(q) /\ (Held(q)' \/ Blank(q)')
  BY <1>4, CollectedOrKept DEF Kept, Emptied, Blank, NoGp
<1>5. ASSUME NEW p \in Players, Send(p)
      PROVE  StepOf(q) /\ (Held(q)' \/ Blank(q)')
  <2>1. PICK o \in Objs : o = players[p] /\ Sending(o)
    BY <1>5, SendCases
  <2>2. UNCHANGED <<players, timers>>
    BY <1>5 DEF Send
  <2>3. CASE q = o
    <3>1. Held(q)'
      BY <2>1, <2>2, <2>3 DEF Held
    <3>2. sent'[q] = sent[q] + 1
      BY <2>1, <2>3 DEF Sending, TypeOK
    <3>3. CASE gp[o].conn = Nil /\ got' = got /\ gp' = WithMessage(o, sent[o] + 1)
      BY <2>1, <2>3, <3>1, <3>2, <3>3, MessageCached DEF Cached, Sending
    <3>4. CASE /\ gp[o].conn # Nil /\ gp' = gp
               /\ got' = [got EXCEPT ![o] = Append(got[o], sent[o] + 1)]
      BY <2>3, <3>1, <3>2, <3>4 DEF Written, TypeOK
    <3>5. CASE /\ gp[o].conn # Nil /\ gp' = gp /\ got' = got
               /\ ~Writable(gp[o].conn) \/ sent[o] + 1 \in Unpackable
      BY <2>3, <3>1, <3>2, <3>5 DEF Missed
    <3> QED
      BY <2>1, <3>3, <3>4, <3>5 DEF Sending
  <2>4. CASE q # o
    <3>1. gp'[q] = gp[q]
      BY <2>1, <2>4, MessageCached DEF Sending
    <3>2. sent'[q] = sent[q] /\ got'[q] = got[q]
      BY <2>1, <2>4 DEF Sending, TypeOK
    <3> QED
      BY <2>2, <3>1, <3>2 DEF Kept, Collected, Held, Blank
  <2> QED
    BY <2>3, <2>4
<1>6. ASSUME NEW fd \in Fds, NEW p \in Players, NEW a \in Agents \cup {Nil},
             SureAgent(fd, p, a)
      PROVE  StepOf(q) /\ (Held(q)' \/ Blank(q)')
  <2>1. PICK o \in Objs :
             /\ ~Held(o)
             /\ players' = [players EXCEPT ![p] = o] /\ timers' = timers
             /\ Collect([gp EXCEPT ![o] = [p |-> p, agent |-> a, conn |-> fd, cache |-> <<>>]],
                        sent, got)
    BY <1>6, MadeNew
  <2> DEFINE newGp == [gp EXCEPT ![o] = [p |-> p, agent |-> a, conn |-> fd, cache |-> <<>>]]
  <2>2. CASE q = o
    <3>1. newGp[q].cache = <<>> /\ sent[q] = 0 /\ got[q] = <<>>
      BY <2>1, <2>2 DEF TypeOK, Collected, Blank
    <3>2. \/ Held(q)' /\ gp'[q] = newGp[q] /\ sent'[q] = sent[q] /\ got'[q] = got[q]
          \/ ~Held(q)' /\ gp'[q] = NoGp /\ sent'[q] = 0 /\ got'[q] = <<>>
      BY <2>1, CollectedOrKept
    <3> HIDE DEF newGp
    <3> QED
      BY <3>1, <3>2 DEF Emptied, Blank, NoGp
  <2>3. CASE q # o
    <3>1. newGp[q] = gp[q]
      BY <2>3
    <3>2. \/ Held(q)' /\ gp'[q] = newGp[q] /\ sent'[q] = sent[q] /\ got'[q] = got[q]
          \/ ~Held(q)' /\ gp'[q] = NoGp /\ sent'[q] = 0 /\ got'[q] = <<>>
      BY <2>1, CollectedOrKept
    <3> HIDE DEF newGp
    <3> QED
      BY <3>1, <3>2 DEF Kept, Emptied, Blank, NoGp
  <2> QED
    BY <2>2, <2>3
<1>7. ASSUME NEW o \in Objs, TimerFires(o) PROVE Collect(gp, sent, got)
  BY <1>7 DEF TimerFires
<1>8. ASSUME NEW p \in Players, Kick(p) PROVE Collect(gp, sent, got)
  BY <1>8 DEF Kick
<1> QED
  BY <1>1, <1>2, <1>3, <1>4, <1>5, <1>6, <1>7, <1>8, Steps DEF SessionStep

-----------------------------------------------------------------------------
(* The order of messages *)

(* The messages of a gateplayer are numbered up to the number that came,   *)
(* wait in order, and were written in order but for those ahead of one     *)
(* that cannot be packed; what waits while there is a socket waits behind  *)
(* a flush that raised.                                                    *)
Waiting(q) == Increasing(gp[q].cache)
WrittenInOrder(q) ==
    \A i, j \in DOMAIN got[q] :
        i < j => got[q][i] < got[q][j] \/ got[q][j] \in Ahead(gp[q].cache)
WrittenFirst(q) ==
    \A i \in DOMAIN got[q], j \in DOMAIN gp[q].cache :
        got[q][i] < gp[q].cache[j] \/ Jammed(gp[q].cache)
Counted(q) == /\ \A i \in DOMAIN got[q] : got[q][i] <= sent[q]
              /\ \A i \in DOMAIN gp[q].cache : gp[q].cache[i] <= sent[q]
Unread(fd) == loop[fd] \in {"raised", "ended"}
NoneWaits(q) == gp[q].conn # Nil =>
                  \/ gp[q].cache = <<>>
                  \/ Jammed(gp[q].cache) /\ Unread(gp[q].conn)
Ordered(q) == Waiting(q) /\ WrittenInOrder(q) /\ WrittenFirst(q) /\ Counted(q) /\ NoneWaits(q)

Inv == TypeOK /\ Owned /\ Collected /\ \A q \in Objs : Ordered(q)

(* The messages of a gateplayer are numbers.                               *)
LEMMA LineTypes ==
    ASSUME TypeOK, NEW q \in Objs
    PROVE  /\ got[q] \in Seq(Nat) /\ gp[q].cache \in Seq(Nat)
           /\ gp[q].conn \in Fds \cup {Nil}
           /\ sent[q] \in Nat
<1>1. got[q] \in Seq(1 .. MaxSend) /\ gp[q].cache \in Seq(1 .. MaxSend)
  BY DEF TypeOK, Gateplayer
<1>2. sent[q] \in Nat /\ gp[q].conn \in Fds \cup {Nil}
  BY BoundsAssumption DEF TypeOK, Gateplayer
<1> QED
  BY <1>1, <1>2, SeqMonotonic, BoundsAssumption

(* What an appended sequence holds.                                        *)
LEMMA Appended ==
    ASSUME NEW s \in Seq(Nat), NEW n \in Nat
    PROVE  /\ Append(s, n) \in Seq(Nat)
           /\ \A i \in DOMAIN s : /\ i \in DOMAIN Append(s, n) /\ Append(s, n)[i] = s[i]
                                  /\ s[i] \in Nat
           /\ Len(s) + 1 \in DOMAIN Append(s, n) /\ Append(s, n)[Len(s) + 1] = n
           /\ \A i \in DOMAIN s : i \in Nat /\ i >= 1 /\ i < Len(s) + 1
           /\ \A i \in DOMAIN Append(s, n) : i \in DOMAIN s \/ i = Len(s) + 1
<1> DEFINE t == Append(s, n)
<1>1. /\ Len(t) = Len(s) + 1 /\ Len(s) \in Nat /\ t \in Seq(Nat)
      /\ DOMAIN s = 1 .. Len(s) /\ DOMAIN t = 1 .. Len(t)
      /\ \A i \in 1 .. Len(s) : t[i] = s[i]
      /\ t[Len(s) + 1] = n
  BY AppendProperties, LenProperties
<1>2. \A i \in DOMAIN s : s[i] \in Nat
  BY <1>1, ElementOfSeq
<1> HIDE DEF t
<1> QED
  BY <1>1, <1>2 DEF t

(* What two sequences hold when one is appended to the other.              *)
LEMMA Concatenated ==
    ASSUME NEW s \in Seq(Nat), NEW t \in Seq(Nat), NEW i \in DOMAIN (s \o t)
    PROVE  \/ i \in DOMAIN s /\ (s \o t)[i] = s[i]
           \/ /\ i - Len(s) \in DOMAIN t /\ (s \o t)[i] = t[i - Len(s)]
              /\ i > Len(s)
<1>1. /\ Len(s \o t) = Len(s) + Len(t)
      /\ \A k \in 1 .. Len(s) + Len(t) :
            (s \o t)[k] = IF k <= Len(s) THEN s[k] ELSE t[k - Len(s)]
      /\ s \o t \in Seq(Nat)
  BY ConcatProperties
<1>2. /\ Len(s) \in Nat /\ Len(t) \in Nat
      /\ DOMAIN s = 1 .. Len(s) /\ DOMAIN t = 1 .. Len(t)
      /\ DOMAIN (s \o t) = 1 .. Len(s) + Len(t)
  BY <1>1, LenProperties
<1> QED
  BY <1>1, <1>2

(* And nothing of the two is missing.                                      *)
LEMMA AllConcatenated ==
    ASSUME NEW s \in Seq(Nat), NEW t \in Seq(Nat)
    PROVE  /\ \A i \in DOMAIN s : i \in DOMAIN (s \o t) /\ (s \o t)[i] = s[i]
           /\ \A i \in DOMAIN t : /\ Len(s) + i \in DOMAIN (s \o t)
                                  /\ (s \o t)[Len(s) + i] = t[i]
<1>1. /\ Len(s \o t) = Len(s) + Len(t)
      /\ \A k \in 1 .. Len(s) + Len(t) :
            (s \o t)[k] = IF k <= Len(s) THEN s[k] ELSE t[k - Len(s)]
      /\ s \o t \in Seq(Nat)
  BY ConcatProperties
<1>2. /\ Len(s) \in Nat /\ Len(t) \in Nat
      /\ DOMAIN s = 1 .. Len(s) /\ DOMAIN t = 1 .. Len(t)
      /\ DOMAIN (s \o t) = 1 .. Len(s) + Len(t)
  BY <1>1, LenProperties
<1>3. ASSUME NEW i \in DOMAIN t
      PROVE  Len(s) + i \in DOMAIN (s \o t) /\ (s \o t)[Len(s) + i] = t[i]
  <2>1. Len(s) + i \in 1 .. Len(s) + Len(t) /\ ~(Len(s) + i <= Len(s))
    BY <1>2
  <2>2. (Len(s) + i) - Len(s) = i
    BY <1>2
  <2> QED
    BY <1>1, <1>2, <2>1, <2>2
<1> QED
  BY <1>1, <1>2, <1>3

(* A sequence stays in order when a larger number is appended.             *)
LEMMA AppendOrdered ==
    ASSUME NEW s \in Seq(Nat), NEW n \in Nat, NEW A,
           \A i, j \in DOMAIN s : i < j => s[i] < s[j] \/ s[j] \in A,
           \A i \in DOMAIN s : s[i] <= n,
           NEW i \in DOMAIN Append(s, n + 1), NEW j \in DOMAIN Append(s, n + 1), i < j
    PROVE  Append(s, n + 1)[i] < Append(s, n + 1)[j] \/ Append(s, n + 1)[j] \in A
<1> DEFINE t == Append(s, n + 1)
<1>1. /\ \A k \in DOMAIN s : /\ k \in DOMAIN t /\ t[k] = s[k]
                             /\ s[k] \in Nat
      /\ t[Len(s) + 1] = n + 1
      /\ \A k \in DOMAIN s : k \in Nat /\ k >= 1 /\ k < Len(s) + 1
      /\ \A k \in DOMAIN t : k \in DOMAIN s \/ k = Len(s) + 1
  BY Appended
<1>2. Len(s) \in Nat
  BY LenProperties
<1> HIDE DEF t
<1>3. i \in DOMAIN s /\ t[i] = s[i] /\ s[i] \in Nat /\ s[i] <= n
  BY <1>1, <1>2 DEF t
<1>4. CASE j \in DOMAIN s
  BY <1>1, <1>3, <1>4
<1>5. CASE j = Len(s) + 1
  BY <1>1, <1>3, <1>5
<1> QED
  BY <1>1, <1>4, <1>5 DEF t

(* Sequences that are in order but for the members of A stay so together.  *)
LEMMA ConcatOrdered ==
    ASSUME NEW s \in Seq(Nat), NEW t \in Seq(Nat), NEW A,
           \A i, j \in DOMAIN s : i < j => s[i] < s[j] \/ s[j] \in A,
           \A i, j \in DOMAIN t : i < j => t[i] < t[j] \/ t[j] \in A,
           \A i \in DOMAIN s, j \in DOMAIN t : s[i] < t[j] \/ t[j] \in A,
           NEW i \in DOMAIN (s \o t), NEW j \in DOMAIN (s \o t), i < j
    PROVE  (s \o t)[i] < (s \o t)[j] \/ (s \o t)[j] \in A
<1>1. /\ Len(s) \in Nat /\ DOMAIN s = 1 .. Len(s)
      /\ i \in Nat /\ j \in Nat
  BY ConcatProperties, LenProperties
<1>2. \/ i \in DOMAIN s /\ (s \o t)[i] = s[i]
      \/ /\ i - Len(s) \in DOMAIN t /\ (s \o t)[i] = t[i - Len(s)]
         /\ i > Len(s)
  BY Concatenated
<1>3. \/ j \in DOMAIN s /\ (s \o t)[j] = s[j]
      \/ /\ j - Len(s) \in DOMAIN t /\ (s \o t)[j] = t[j - Len(s)]
         /\ j > Len(s)
  BY Concatenated
<1>4. CASE i \in DOMAIN s /\ (s \o t)[i] = s[i] /\ j \in DOMAIN s /\ (s \o t)[j] = s[j]
  BY <1>4
<1>5. CASE /\ i \in DOMAIN s /\ (s \o t)[i] = s[i]
           /\ j - Len(s) \in DOMAIN t /\ (s \o t)[j] = t[j - Len(s)]
  BY <1>5
<1>6. CASE /\ i - Len(s) \in DOMAIN t /\ (s \o t)[i] = t[i - Len(s)]
           /\ j - Len(s) \in DOMAIN t /\ (s \o t)[j] = t[j - Len(s)]
  <2>1. i - Len(s) < j - Len(s)
    BY <1>1
  <2> QED
    BY <1>6, <2>1
<1>7. ~(i > Len(s) /\ j \in DOMAIN s)
  BY <1>1
<1> QED
  BY <1>2, <1>3, <1>4, <1>5, <1>6, <1>7

(* Nothing is ahead of a message that cannot be packed if there is none.   *)
LEMMA NothingAhead == \A cache : ~Jammed(cache) => Ahead(cache) = {}
BY DEF Ahead

(* A socket that is not read from any more is never read from again.       *)
LEMMA UnreadStays ==
    ASSUME TypeOK, [Next]_vars, NEW fd \in Fds, Unread(fd)
    PROVE  Unread(fd)'
<1>1. ASSUME NEW f \in Fds, SocketStep(f) PROVE Unread(fd)'
  BY <1>1 DEF Unread, TypeOK, SocketStep, Connect, ConnectIgnored, LineToLogin,
     LineToAgent, LineRaises, ReconnectRefused, Reconnect, ReconnectRaises, GoneUnread,
     CloseUnbound, CloseBound, CloseRaises
<1>2. CASE UNCHANGED loop
  BY <1>2 DEF Unread
<1> QED
  BY <1>1, <1>2 DEF Next, MessageStep, vars, TimerFires, Send, SendToNobody, Kick,
     KickNobody, SureAgent, SureAgentRefused, Shutdown

(* Whatever a step does to a gateplayer, its messages stay in order.       *)
LEMMA OrderStep ==
    ASSUME TypeOK, TypeOK', [Next]_vars, NEW q \in Objs, Ordered(q), StepOf(q)
    PROVE  Ordered(q)'
<1> DEFINE w == got[q]
           c == gp[q].cache
           n == sent[q]
<1>1. /\ w \in Seq(Nat) /\ c \in Seq(Nat)
      /\ gp[q].conn \in Fds \cup {Nil} /\ gp'[q].conn \in Fds \cup {Nil}
      /\ n \in Nat /\ n + 1 \in Nat
  <2>1. /\ w \in Seq(Nat) /\ c \in Seq(Nat)
        /\ gp[q].conn \in Fds \cup {Nil} /\ n \in Nat
    BY LineTypes
  <2>2. gp'[q].conn \in Fds \cup {Nil}
    BY DEF TypeOK, Gateplayer
  <2> QED
    BY <2>1, <2>2
<1>2. /\ Waiting(q) /\ WrittenInOrder(q) /\ WrittenFirst(q) /\ Counted(q) /\ NoneWaits(q)
  BY DEF Ordered
<1>3. CASE Kept(q)
  <2>1. Waiting(q)' /\ WrittenInOrder(q)' /\ WrittenFirst(q)' /\ Counted(q)'
    BY <1>2, <1>3 DEF Kept, Waiting, WrittenInOrder, WrittenFirst, Counted
  <2>2. NoneWaits(q)'
    <3>1. ASSUME gp'[q].conn # Nil PROVE c = <<>> \/ (Jammed(c) /\ loop'[gp'[q].conn] \in {"raised", "ended"})
      <4>1. gp'[q].conn = gp[q].conn /\ gp[q].conn \in Fds
        BY <1>1, <1>3, <3>1 DEF Kept
      <4>2. c = <<>> \/ (Jammed(c) /\ Unread(gp[q].conn))
        BY <1>2, <3>1, <4>1 DEF NoneWaits
      <4>3. Unread(gp[q].conn) => Unread(gp[q].conn)'
        BY <4>1, UnreadStays
      <4> QED
        BY <4>1, <4>2, <4>3 DEF Unread
    <3> QED
      BY <1>3, <3>1 DEF Kept, NoneWaits, Unread
  <2> QED
    BY <2>1, <2>2 DEF Ordered
<1>4. CASE Emptied(q)
  <2>1. \A i \in DOMAIN <<>> : FALSE
    OBVIOUS
  <2> QED
    BY <1>4, <2>1 DEF Emptied, Ordered, Waiting, Increasing, WrittenInOrder,
       WrittenFirst, Counted, NoneWaits
<1>5. CASE Resumed(q)
  <2>1. got'[q] = w \o c /\ gp'[q].cache = <<>> /\ sent'[q] = n /\ ~Jammed(c)
    BY <1>5 DEF Resumed
  <2>2. \A i \in DOMAIN <<>> : FALSE
    OBVIOUS
  <2>3. Ahead(c) = {}
    BY <2>1, NothingAhead
  <2>4. /\ \A i, j \in DOMAIN w : i < j => w[i] < w[j] \/ w[j] \in {}
        /\ \A i, j \in DOMAIN c : i < j => c[i] < c[j] \/ c[j] \in {}
        /\ \A i \in DOMAIN w, j \in DOMAIN c : w[i] < c[j] \/ c[j] \in {}
    BY <1>2, <2>1, <2>3 DEF Waiting, Increasing, WrittenInOrder, WrittenFirst
  <2> HIDE DEF w, c, n
  <2>5. \A i, j \in DOMAIN (w \o c) : i < j => (w \o c)[i] < (w \o c)[j]
    BY <1>1, <2>4, ConcatOrdered
  <2>6. \A i \in DOMAIN (w \o c) : (w \o c)[i] <= n
    BY <1>1, <1>2, Concatenated DEF Counted, w, c, n
  <2>7. Waiting(q)'
    BY <2>1, <2>2 DEF Waiting, Increasing
  <2>8. WrittenInOrder(q)'
    BY <2>1, <2>5 DEF WrittenInOrder
  <2>9. WrittenFirst(q)' /\ Counted(q)' /\ NoneWaits(q)'
    BY <2>1, <2>2, <2>6 DEF WrittenFirst, Counted, NoneWaits
  <2> QED
    BY <2>7, <2>8, <2>9 DEF Ordered
<1>6. CASE Cut(q)
  <2>1. sent'[q] = n /\ gp'[q].cache = c /\ loop'[gp'[q].conn] = "raised"
    BY <1>6 DEF Cut
  <2>2. PICK k \in DOMAIN c : CutAt(q, k)
    BY <1>6 DEF Cut
  <2> DEFINE t == SubSeq(c, 1, k - 1)
  <2>3. /\ k \in Nat /\ Jams(c, k) /\ got'[q] = w \o t
        /\ \A i \in 1 .. k - 1 : ~Jams(c, i)
    <3>1. k \in Nat
      <4>1. c \in Seq(Nat) /\ k \in DOMAIN c
        BY <1>1
      <4> HIDE DEF c
      <4> QED
        BY <4>1, LenProperties
    <3>2. Jams(c, k) /\ got'[q] = w \o t
      BY <2>2, Zenon DEF CutAt
    <3>3. \A i \in 1 .. k - 1 : ~Jams(c, i)
      BY <2>2, Zenon DEF CutAt
    <3> QED
      BY <3>1, <3>2, <3>3
  <2>4. Jammed(c)
    BY <2>3 DEF Jammed
  <2>5. /\ t \in Seq(Nat) /\ DOMAIN t = 1 .. k - 1
        /\ \A i \in 1 .. k - 1 : t[i] = c[i] /\ i \in DOMAIN c
    <3>1. c \in Seq(Nat) /\ k \in DOMAIN c
      BY <1>1
    <3> HIDE DEF c
    <3> QED
      BY <3>1, Before
  <2>7. \A i \in DOMAIN t : t[i] \in Ahead(c) /\ t[i] <= n
    <3>1. ASSUME NEW i \in 1 .. k - 1 PROVE c[i] \in Ahead(c) /\ c[i] <= n
      <4>1. i \in DOMAIN c /\ \A j \in 1 .. i : ~Jams(c, j)
        BY <2>3, <2>5
      <4> QED
        BY <1>2, <2>4, <4>1 DEF Ahead, Counted
    <3> QED
      BY <2>5, <3>1
  <2>8. \A i, j \in DOMAIN w : i < j => w[i] < w[j] \/ w[j] \in Ahead(c)
    BY <1>2 DEF WrittenInOrder
  <2> HIDE DEF w, c, n, t
  <2>9. \A i, j \in DOMAIN (w \o t) :
           i < j => (w \o t)[i] < (w \o t)[j] \/ (w \o t)[j] \in Ahead(c)
    <3>1. /\ \A i, j \in DOMAIN t : i < j => t[i] < t[j] \/ t[j] \in Ahead(c)
          /\ \A i \in DOMAIN w, j \in DOMAIN t : w[i] < t[j] \/ t[j] \in Ahead(c)
      BY <2>7
    <3> DEFINE A == Ahead(c)
    <3> HIDE DEF A
    <3>2. \A i, j \in DOMAIN (w \o t) :
             i < j => (w \o t)[i] < (w \o t)[j] \/ (w \o t)[j] \in A
      <4>1. /\ \A i, j \in DOMAIN w : i < j => w[i] < w[j] \/ w[j] \in A
            /\ \A i, j \in DOMAIN t : i < j => t[i] < t[j] \/ t[j] \in A
            /\ \A i \in DOMAIN w, j \in DOMAIN t : w[i] < t[j] \/ t[j] \in A
        BY <2>8, <3>1 DEF A
      <4> QED
        BY <1>1, <2>5, <4>1, ConcatOrdered
    <3> QED
      BY <3>2 DEF A
  <2>10. \A i \in DOMAIN (w \o t) : (w \o t)[i] <= n
    BY <1>1, <1>2, <2>5, <2>7, Concatenated DEF Counted, w, c, n
  <2>11. Waiting(q)'
    BY <1>2, <2>1 DEF Waiting, c
  <2>12. WrittenInOrder(q)'
    BY <2>1, <2>3, <2>9 DEF WrittenInOrder
  <2>13. WrittenFirst(q)' /\ NoneWaits(q)'
    BY <2>1, <2>4 DEF WrittenFirst, NoneWaits, Unread
  <2>14. Counted(q)'
    BY <1>2, <2>1, <2>3, <2>10 DEF Counted, c, n
  <2> QED
    BY <2>11, <2>12, <2>13, <2>14 DEF Ordered
<1>7. CASE Cached(q)
  <2> DEFINE d == Append(c, n + 1)
  <2>1. /\ sent'[q] = n + 1 /\ got'[q] = w /\ gp'[q].cache = d /\ gp'[q].conn = Nil
    BY <1>7 DEF Cached
  <2>2. /\ \A i \in DOMAIN c : i \in DOMAIN d /\ d[i] = c[i] /\ c[i] \in Nat /\ c[i] <= n
        /\ Len(c) + 1 \in DOMAIN d /\ d[Len(c) + 1] = n + 1
        /\ \A i \in DOMAIN c : i \in Nat /\ i >= 1 /\ i < Len(c) + 1
        /\ \A i \in DOMAIN d : i \in DOMAIN c \/ i = Len(c) + 1
    <3>1. \A i \in DOMAIN c : c[i] <= n
      BY <1>2 DEF Counted
    <3> HIDE DEF c, n
    <3> QED
      BY <1>1, <3>1, Appended
  <2>3. \A i \in DOMAIN w : w[i] \in Nat /\ w[i] <= n
    BY <1>1, <1>2, LenProperties, ElementOfSeq DEF Counted
  <2>4. \A i, j \in DOMAIN c : i < j => c[i] < c[j]
    BY <1>2 DEF Waiting, Increasing
  <2>5. \A i \in DOMAIN c : Jams(c, i) => Jams(d, i)
    BY <2>2 DEF Jams
  <2>6. Jammed(c) => Jammed(d)
    BY <2>2, <2>5 DEF Jammed
  <2>7. \A i, j \in DOMAIN w : i < j => w[i] < w[j] \/ w[j] \in Ahead(c)
    BY <1>2 DEF WrittenInOrder
  <2>8. \A i \in DOMAIN w, j \in DOMAIN c : w[i] < c[j] \/ Jammed(c)
    BY <1>2 DEF WrittenFirst
  <2>9. Ahead(c) \subseteq Ahead(d)
    <3>1. ASSUME NEW i \in DOMAIN c, \A j \in 1 .. i : ~Jams(c, j), Jammed(c)
          PROVE  c[i] \in Ahead(d)
      <4>1. i \in DOMAIN d /\ d[i] = c[i] /\ i \in Nat /\ i < Len(c) + 1
        BY <2>2
      <4>2. \A j \in 1 .. i : j \in DOMAIN c
        BY <1>1, <4>1, LenProperties
      <4>3. \A j \in 1 .. i : ~Jams(d, j)
        BY <2>2, <3>1, <4>2 DEF Jams
      <4> HIDE DEF d, c
      <4> QED
        BY <2>6, <3>1, <4>1, <4>3 DEF Ahead
    <3> QED
      BY <3>1 DEF Ahead
  <2>10. \A i, j \in DOMAIN d : i < j => d[i] < d[j]
    <3>1. /\ \A i, j \in DOMAIN c : i < j => c[i] < c[j] \/ c[j] \in {}
          /\ \A i \in DOMAIN c : c[i] <= n
      BY <2>2, <2>4
    <3> HIDE DEF c, n
    <3> QED
      BY <1>1, <3>1, AppendOrdered
  <2> HIDE DEF d, c, w, n
  <2>11. \A i \in DOMAIN w, j \in DOMAIN d : w[i] < d[j] \/ Jammed(d)
    <3> SUFFICES ASSUME NEW i \in DOMAIN w, NEW j \in DOMAIN d
                 PROVE  w[i] < d[j] \/ Jammed(d)
      OBVIOUS
    <3>1. CASE j \in DOMAIN c
      <4>1. w[i] < c[j] \/ Jammed(c)
        BY <2>8, <3>1
      <4>2. d[j] = c[j]
        BY <2>2, <3>1
      <4> QED
        BY <2>6, <4>1, <4>2
    <3>2. CASE j = Len(c) + 1
      <4>1. w[i] \in Nat /\ w[i] <= n
        BY <2>3
      <4>2. d[j] = n + 1
        BY <2>2, <3>2
      <4>3. n \in Nat
        BY <1>1
      <4> QED
        BY <4>1, <4>2, <4>3
    <3> QED
      BY <2>2, <3>1, <3>2
  <2>12. Waiting(q)'
    BY <2>1, <2>10 DEF Waiting, Increasing
  <2>13. WrittenInOrder(q)'
    BY <2>1, <2>7, <2>9 DEF WrittenInOrder
  <2>14. WrittenFirst(q)'
    BY <2>1, <2>11 DEF WrittenFirst
  <2>15. Counted(q)' /\ NoneWaits(q)'
    <3>1. \A i \in DOMAIN w : w[i] <= n + 1
      BY <1>1, <2>3
    <3>2. \A i \in DOMAIN d : d[i] <= n + 1
      BY <1>1, <2>2
    <3> QED
      BY <2>1, <3>1, <3>2 DEF Counted, NoneWaits
  <2> QED
    BY <2>12, <2>13, <2>14, <2>15 DEF Ordered
<1>8. CASE Written(q)
  <2> DEFINE v == Append(w, n + 1)
  <2>1. /\ sent'[q] = n + 1 /\ got'[q] = v /\ gp'[q] = gp[q] /\ gp[q].conn # Nil
    BY <1>8 DEF Written
  <2>2. /\ \A i \in DOMAIN w : i \in DOMAIN v /\ v[i] = w[i] /\ w[i] \in Nat /\ w[i] <= n
        /\ Len(w) + 1 \in DOMAIN v /\ v[Len(w) + 1] = n + 1
        /\ \A i \in DOMAIN w : i \in Nat /\ i < Len(w) + 1
        /\ \A i \in DOMAIN v : i \in DOMAIN w \/ i = Len(w) + 1
    <3>1. \A i \in DOMAIN w : w[i] <= n
      BY <1>2 DEF Counted
    <3> HIDE DEF w, n
    <3> QED
      BY <1>1, <3>1, Appended
  <2>3. \A i, j \in DOMAIN w : i < j => w[i] < w[j] \/ w[j] \in Ahead(c)
    BY <1>2 DEF WrittenInOrder
  <2>4. c = <<>> \/ (Jammed(c) /\ Unread(gp[q].conn))
    BY <1>2, <2>1 DEF NoneWaits
  <2>5. \A i \in DOMAIN c : c[i] \in Nat /\ c[i] <= n
    BY <1>1, <1>2, LenProperties, ElementOfSeq DEF Counted
  <2>6. Unread(gp[q].conn) => Unread(gp[q].conn)'
    BY <1>1, <2>1, UnreadStays DEF Unread
  <2>7. Waiting(q)'
    BY <1>2, <2>1 DEF Waiting
  <2>8. gp'[q].cache = c /\ gp'[q].conn = gp[q].conn
    BY <2>1
  <2>9. WrittenInOrder(q)'
    <3> DEFINE A == Ahead(c)
    <3>1. /\ \A i, j \in DOMAIN w : i < j => w[i] < w[j] \/ w[j] \in A
          /\ \A i \in DOMAIN w : w[i] <= n
      BY <2>2, <2>3
    <3> HIDE DEF w, n, c, A
    <3>2. \A i, j \in DOMAIN v : i < j => v[i] < v[j] \/ v[j] \in A
      BY <1>1, <3>1, AppendOrdered
    <3> HIDE DEF v
    <3> QED
      BY <2>1, <2>8, <3>2 DEF A, WrittenInOrder
  <2> HIDE DEF v, w, n, c
  <2>10. WrittenFirst(q)'
    <3>1. \A i \in DOMAIN <<>> : FALSE
      OBVIOUS
    <3>2. \A j \in DOMAIN c : Jammed(c)
      BY <2>4, <3>1
    <3> QED
      BY <2>8, <3>2 DEF WrittenFirst
  <2>11. Counted(q)'
    <3>1. \A i \in DOMAIN v : v[i] <= n + 1
      BY <1>1, <2>2
    <3>2. \A i \in DOMAIN c : c[i] <= n + 1
      BY <1>1, <2>5
    <3> QED
      BY <2>1, <2>8, <3>1, <3>2 DEF Counted
  <2>12. NoneWaits(q)'
    BY <2>4, <2>6, <2>8 DEF NoneWaits, Unread
  <2> QED
    BY <2>7, <2>9, <2>10, <2>11, <2>12 DEF Ordered
<1>9. CASE Missed(q)
  <2>1. sent'[q] = n + 1 /\ got'[q] = w /\ gp'[q] = gp[q] /\ gp[q].conn # Nil
    BY <1>9 DEF Missed
  <2>2. Waiting(q)' /\ WrittenInOrder(q)' /\ WrittenFirst(q)'
    BY <1>2, <2>1 DEF Waiting, WrittenInOrder, WrittenFirst
  <2>3. /\ \A i \in DOMAIN w : w[i] \in Nat /\ w[i] <= n
        /\ \A i \in DOMAIN c : c[i] \in Nat /\ c[i] <= n
    BY <1>1, <1>2, LenProperties, ElementOfSeq DEF Counted
  <2>4. Counted(q)'
    <3>1. gp'[q].cache = c
      BY <2>1
    <3> HIDE DEF w, c, n
    <3>2. /\ \A i \in DOMAIN w : w[i] <= n + 1
          /\ \A i \in DOMAIN c : c[i] <= n + 1
      BY <1>1, <2>3
    <3> QED
      BY <2>1, <3>1, <3>2 DEF Counted
  <2>5. NoneWaits(q)'
    <3>1. Unread(gp[q].conn) => Unread(gp[q].conn)'
      BY <1>1, <2>1, UnreadStays
    <3> QED
      BY <1>2, <2>1, <3>1 DEF NoneWaits, Unread
  <2> QED
    BY <2>2, <2>4, <2>5 DEF Ordered
<1> QED
  BY <1>3, <1>4, <1>5, <1>6, <1>7, <1>8, <1>9 DEF StepOf

(* The invariant holds at the start.                                       *)
LEMMA InvInit == Init => Inv
<1> SUFFICES ASSUME Init PROVE Inv
  OBVIOUS
<1>1. TypeOK
  BY TypeInit
<1>2. Owned /\ Collected
  BY DEF Init, Owned, Collected, Blank
<1>3. ASSUME NEW q \in Objs PROVE Ordered(q)
  <2>1. got[q] = <<>> /\ gp[q].cache = <<>>
    BY DEF Init, NoGp
  <2>2. \A i \in DOMAIN <<>> : FALSE
    OBVIOUS
  <2> QED
    BY <2>1, <2>2 DEF Ordered, Waiting, Increasing, WrittenInOrder, WrittenFirst,
       Counted, NoneWaits
<1> QED
  BY <1>1, <1>2, <1>3 DEF Inv

(* Every step keeps the invariant.                                         *)
LEMMA InvStep == Inv /\ [Next]_vars => Inv'
<1> SUFFICES ASSUME Inv, [Next]_vars PROVE Inv'
  OBVIOUS
<1>1. TypeOK' /\ Owned'
  BY TypeStep, OwnedStep DEF Inv
<1>2. \A q \in Objs : StepOf(q) /\ (Held(q)' \/ Blank(q)')
  BY SessionSteps DEF Inv
<1>3. Collected'
  BY <1>2 DEF Collected
<1>4. \A q \in Objs : Ordered(q)'
  BY <1>1, <1>2, OrderStep DEF Inv
<1> QED
  BY <1>1, <1>3, <1>4 DEF Inv

(* The invariant the other theorems are read from.                         *)
THEOREM Invariant == Spec => []Inv
BY InvInit, InvStep, PTL DEF Spec

(* Every variable keeps its type: TypeOK is an invariant.                  *)
THEOREM TypeCorrect == Spec => []TypeOK
<1>1. Inv => TypeOK
  BY DEF Inv
<1> QED
  BY <1>1, Invariant, PTL

(* send, disconnect, reconnect and the cache keep the order of messages,   *)
(* but for what is ahead of a message that cannot be packed.               *)
THEOREM OrderKept == Spec => []InOrder
<1>1. Inv => InOrder
  BY DEF Inv, Ordered, Waiting, WrittenInOrder, WrittenFirst, InOrder
<1> QED
  BY <1>1, Invariant, PTL

(* A message waits in the cache only while its client is away, or behind a *)
(* flush that raised, over a socket that is not read from.                 *)
THEOREM CachedOnlyOffline == Spec => []CacheOnlyOffline
<1>1. Inv => CacheOnlyOffline
  <2> SUFFICES ASSUME Inv, NEW p \in Players, players[p] # Nil, gp[players[p]].conn # Nil
               PROVE  \/ gp[players[p]].cache = <<>>
                      \/ Jammed(gp[players[p]].cache) /\ loop[gp[players[p]].conn] # "run"
    BY DEF CacheOnlyOffline
  <2>1. players[p] \in Objs
    BY DEF Inv, TypeOK
  <2>2. NoneWaits(players[p])
    BY <2>1 DEF Inv, Ordered
  <2> QED
    BY <2>2 DEF NoneWaits, Unread
<1> QED
  BY <1>1, Invariant, PTL

(* Only a write to a dead socket, or the raise of its own packing, loses a *)
(* message.                                                                *)
THEOREM OnlyDeadSocketsLose == Spec => LossOnlyOnDeadSocket
<1>1. ASSUME Inv, [Next]_vars, NEW q \in Objs, NEW m \in Lost(q)' \ Lost(q)
      PROVE  gp[q].conn # Nil /\ (~Writable(gp[q].conn) \/ m \in Unpackable)
  <2> DEFINE w == got[q]
             c == gp[q].cache
             n == sent[q]
  <2>1. StepOf(q)
    BY <1>1, SessionSteps DEF Inv
  <2>2. w \in Seq(Nat) /\ c \in Seq(Nat) /\ n \in Nat
    BY <1>1, LineTypes DEF Inv
  <2>3. /\ m \in 1 .. sent'[q]
        /\ m \notin Elements(got'[q]) /\ m \notin Elements(gp'[q].cache)
        /\ m \in 1 .. n => m \in Elements(w) \/ m \in Elements(c)
    BY <1>1 DEF Lost
  <2>4. ~Kept(q)
    BY <2>3 DEF Kept
  <2>5. ~Emptied(q)
    BY <2>3 DEF Emptied
  <2>6. ~Resumed(q)
    <3>1. SUFFICES ASSUME Resumed(q) PROVE FALSE
      OBVIOUS
    <3>2. got'[q] = w \o c /\ sent'[q] = n
      BY <3>1 DEF Resumed
    <3> HIDE DEF w, c, n
    <3>3. Elements(w) \subseteq Elements(w \o c) /\ Elements(c) \subseteq Elements(w \o c)
      <4>1. /\ \A i \in DOMAIN w : i \in DOMAIN (w \o c) /\ (w \o c)[i] = w[i]
            /\ \A i \in DOMAIN c : /\ Len(w) + i \in DOMAIN (w \o c)
                                   /\ (w \o c)[Len(w) + i] = c[i]
        BY <2>2, AllConcatenated
      <4> DEFINE x == w \o c
                 l == Len(w)
      <4> HIDE DEF x, l
      <4>2. /\ \A i \in DOMAIN w : i \in DOMAIN x /\ x[i] = w[i]
            /\ \A i \in DOMAIN c : l + i \in DOMAIN x /\ x[l + i] = c[i]
        BY <4>1 DEF x, l
      <4>3. Elements(w) \subseteq Elements(x) /\ Elements(c) \subseteq Elements(x)
        BY <4>2 DEF Elements
      <4> QED
        BY <4>3 DEF x
    <3> QED
      BY <2>3, <3>2, <3>3
  <2>7. ~Cut(q)
    <3>1. SUFFICES ASSUME Cut(q) PROVE FALSE
      OBVIOUS
    <3>2. PICK k \in DOMAIN c : CutAt(q, k)
      BY <3>1 DEF Cut
    <3> DEFINE t == SubSeq(c, 1, k - 1)
    <3>3. got'[q] = w \o t /\ sent'[q] = n /\ gp'[q].cache = c
      BY <3>1, <3>2 DEF Cut, CutAt
    <3>4. t \in Seq(Nat)
      <4>1. k \in DOMAIN c
        BY <3>2
      <4> QED
        BY <2>2, <4>1, Before
    <3> HIDE DEF w, c, n, t
    <3>5. m \in Elements(w) => m \in Elements(w \o t)
      BY <2>2, <3>4, AllConcatenated DEF Elements
    <3> QED
      BY <2>3, <3>3, <3>5
  <2>8. ~Cached(q)
    <3>1. SUFFICES ASSUME Cached(q) PROVE FALSE
      OBVIOUS
    <3>2. got'[q] = w /\ sent'[q] = n + 1 /\ gp'[q].cache = Append(c, n + 1)
      BY <3>1 DEF Cached
    <3> HIDE DEF w, c, n
    <3>3. m = n + 1 \/ m \in 1 .. n
      BY <2>2, <2>3, <3>2
    <3>4. n + 1 \in Elements(Append(c, n + 1)) /\ Elements(c) \subseteq Elements(Append(c, n + 1))
      BY <2>2, Appended DEF Elements
    <3> QED
      BY <2>3, <3>2, <3>3, <3>4
  <2>9. ~Written(q)
    <3>1. SUFFICES ASSUME Written(q) PROVE FALSE
      OBVIOUS
    <3>2. got'[q] = Append(w, n + 1) /\ sent'[q] = n + 1 /\ gp'[q].cache = c
      BY <3>1 DEF Written
    <3> HIDE DEF w, c, n
    <3>3. m = n + 1 \/ m \in 1 .. n
      BY <2>2, <2>3, <3>2
    <3>4. n + 1 \in Elements(Append(w, n + 1)) /\ Elements(w) \subseteq Elements(Append(w, n + 1))
      BY <2>2, Appended DEF Elements
    <3> QED
      BY <2>3, <3>2, <3>3, <3>4
  <2>10. Missed(q)
    BY <2>1, <2>4, <2>5, <2>6, <2>7, <2>8, <2>9 DEF StepOf
  <2>11. got'[q] = w /\ sent'[q] = n + 1 /\ gp'[q].cache = c
    BY <2>10 DEF Missed
  <2>12. m = n + 1
    <3> HIDE DEF w, c, n
    <3> QED
      BY <2>2, <2>3, <2>11
  <2> QED
    BY <2>10, <2>12 DEF Missed
<1>2. Inv /\ [Next]_vars =>
        [\A o \in Objs : \A m \in Lost(o)' \ Lost(o) :
            /\ gp[o].conn # Nil
            /\ ~Writable(gp[o].conn) \/ m \in Unpackable]_vars
  BY <1>1
<1>3. Spec => [][\A o \in Objs : \A m \in Lost(o)' \ Lost(o) :
                   /\ gp[o].conn # Nil
                   /\ ~Writable(gp[o].conn) \/ m \in Unpackable]_vars
  BY <1>2, Invariant, PTL DEF Spec
<1> QED
  BY <1>3 DEF LossOnlyOnDeadSocket

(* disconnect starts a timer, a timer that ends asks for the kick of the   *)
(* player it still finds offline: nobody is left offline and untimed.      *)
THEOREM NobodyIsForgotten == Spec => NobodyForgotten
<1>1. Inv /\ [Next]_vars =>
        [\A o \in Objs, p \in Players :
            Adrift(o, p)' /\ ~Adrift(o, p) => p \in asked']_vars
  <2> SUFFICES ASSUME Inv, [Next]_vars, NEW o \in Objs, NEW p \in Players,
                      Adrift(o, p)', ~Adrift(o, p)
               PROVE  p \in asked'
    OBVIOUS
  <2> USE DEF Inv
  <2>1. /\ players'[p] = o /\ gp'[o].conn = Nil /\ timers'[o] = 0
        /\ players[p] = o => gp[o].conn # Nil \/ timers[o] # 0
    BY DEF Adrift
  <2>2. CASE Quiet
    BY <2>1, <2>2 DEF Quiet
  <2>3. ASSUME NEW fd \in Fds, NEW r \in Players, Resume(fd, r) PROVE FALSE
    <3>1. /\ players[r] \in Objs /\ UNCHANGED <<players, timers>>
          /\ gp'[players[r]].conn = fd
          /\ \A q \in Objs \ {players[r]} : gp'[q] = gp[q]
      BY <2>3, Resuming
    <3>2. gp'[o].conn = fd \/ gp'[o] = gp[o]
      BY <3>1
    <3> QED
      BY <2>1, <3>1, <3>2, NilAssumption
  <2>4. ASSUME NEW fd \in Fds, CloseBound(fd) PROVE FALSE
    <3> DEFINE q == players[bound[fd]]
    <3>1. bound[fd] \in Players /\ q \in Objs
      BY <2>4 DEF CloseBound, Disconnects, TypeOK
    <3>2. /\ players' = players
          /\ timers' = [timers EXCEPT ![q] = timers[q] + 1]
          /\ gp' = [gp EXCEPT ![q] = [gp[q] EXCEPT !.conn = Nil]]
      BY <2>4 DEF CloseBound, TimerSet
    <3>3. timers[q] \in Nat
      BY <3>1, BoundsAssumption DEF TypeOK
    <3>4. o # q
      BY <2>1, <3>1, <3>2, <3>3 DEF TypeOK
    <3>5. gp'[o] = gp[o] /\ timers'[o] = timers[o]
      BY <3>1, <3>2, <3>4 DEF TypeOK
    <3> QED
      BY <2>1, <3>2, <3>5
  <2>5. ASSUME NEW q \in Objs, TimerFires(q) PROVE p \in asked'
    <3>1. /\ players' = players
          /\ timers' = [timers EXCEPT ![q] = timers[q] - 1]
          /\ asked' = IF gp[q].conn = Nil THEN {gp[q].p} ELSE {}
          /\ Collect(gp, sent, got)
      BY <2>5 DEF TimerFires, Timeout
    <3>2. Held(o)'
      BY <2>1 DEF Held
    <3>3. gp'[o] = gp[o]
      BY <3>1, <3>2, CollectedOrKept
    <3>4. timers[o] # 0
      BY <2>1, <3>1, <3>3
    <3>5. q = o
      BY <2>1, <3>1, <3>4 DEF TypeOK
    <3>6. gp[o].p = p
      BY <2>1, <3>1, NilAssumption DEF Owned
    <3> QED
      BY <2>1, <3>1, <3>3, <3>5, <3>6
  <2>6. ASSUME NEW r \in Players, Send(r) PROVE FALSE
    <3>1. PICK q \in Objs : q = players[r] /\ Sending(q)
      BY <2>6, SendCases
    <3>2. UNCHANGED <<players, timers>>
      BY <2>6 DEF Send
    <3>3. gp'[o].conn = gp[o].conn
      BY <3>1, MessageCached DEF Sending
    <3> QED
      BY <2>1, <3>2, <3>3
  <2>7. ASSUME NEW fd \in Fds, NEW r \in Players, NEW a \in Agents \cup {Nil},
               SureAgent(fd, r, a)
        PROVE  FALSE
    <3>1. PICK q \in Objs :
             /\ ~Held(q)
             /\ players' = [players EXCEPT ![r] = q] /\ timers' = timers
             /\ Collect([gp EXCEPT ![q] = [p |-> r, agent |-> a, conn |-> fd, cache |-> <<>>]],
                        sent, got)
      BY <2>7, MadeNew
    <3> DEFINE newGp == [gp EXCEPT ![q] = [p |-> r, agent |-> a, conn |-> fd, cache |-> <<>>]]
    <3>2. Held(o)'
      BY <2>1 DEF Held
    <3>3. gp'[o] = newGp[o]
      BY <3>1, <3>2, CollectedOrKept
    <3>4. newGp[q].conn = fd
      BY DEF TypeOK
    <3>5. o # q
      BY <2>1, <3>3, <3>4, NilAssumption
    <3>6. gp'[o] = gp[o]
      BY <3>3, <3>5
    <3>7. players[p] = o
      BY <2>1, <3>1, <3>5 DEF TypeOK
    <3> QED
      BY <2>1, <3>1, <3>6, <3>7
  <2>8. ASSUME NEW r \in Players, Kick(r) PROVE FALSE
    <3>1. /\ players' = [players EXCEPT ![r] = Nil] /\ timers' = timers
          /\ Collect(gp, sent, got)
      BY <2>8 DEF Kick
    <3>2. Held(o)'
      BY <2>1 DEF Held
    <3>3. gp'[o] = gp[o]
      BY <3>1, <3>2, CollectedOrKept
    <3>4. players[p] = o
      BY <2>1, <3>1, NilAssumption DEF TypeOK
    <3> QED
      BY <2>1, <3>1, <3>3, <3>4
  <2> QED
    BY <2>2, <2>3, <2>4, <2>5, <2>6, <2>7, <2>8, Steps DEF SessionStep
<1>2. Spec => [][\A o \in Objs, p \in Players :
                   Adrift(o, p)' /\ ~Adrift(o, p) => p \in asked']_vars
  BY <1>1, Invariant, PTL DEF Spec
<1> QED
  BY <1>2 DEF NobodyForgotten

-----------------------------------------------------------------------------
(* Sockets and sessions *)

(* A socket that serves a session has its player, or another one.          *)
Named == \A p \in Players, fd \in Fds : Serves(p, fd) => bound[fd] # Nil

(* Only a login or a reconnect names the player of a socket.               *)
LEMMA BoundSteps ==
    ASSUME [Next]_vars
    PROVE  \/ bound' = bound
           \/ \E fd \in Fds, p \in Players : Resume(fd, p)
           \/ \E fd \in Fds, p \in Players, a \in Agents \cup {Nil} : SureAgent(fd, p, a)
BY DEF Next, SocketStep, MessageStep, Resume, GoneUnread, vars, Connect, ConnectIgnored, LineToLogin,
       LineToAgent, LineRaises, ReconnectRefused, CloseUnbound, CloseBound, CloseRaises,
       TimerFires, Send, SendToNobody, Kick, KickNobody, SureAgentRefused, Shutdown

(* A socket stops being live by its end, an error in its loop, or a kick.  *)
LEMMA LiveSteps ==
    ASSUME TypeOK, [Next]_vars, NEW fd \in Fds, Live(fd), ~Live(fd)'
    PROVE  \/ LineRaises(fd) \/ CloseUnbound(fd) \/ CloseBound(fd) \/ CloseRaises(fd)
           \/ \E p \in Players : ReconnectRaises(fd, p)
           \/ \E p \in Players : Kick(p)
<1>1. ASSUME NEW r \in Fds, SocketStep(r)
      PROVE  \/ LineRaises(fd) \/ CloseUnbound(fd) \/ CloseBound(fd) \/ CloseRaises(fd)
             \/ \E p \in Players : ReconnectRaises(fd, p)
  <2>1. fd \in conns' /\ (r # fd => loop'[fd] = "run")
    BY <1>1 DEF TypeOK, Live, SocketStep, Connect, ConnectIgnored, LineToLogin,
       LineToAgent, LineRaises, ReconnectRefused, Reconnect, ReconnectRaises, GoneUnread,
       CloseUnbound, CloseBound, CloseRaises
  <2>2. r = fd
    BY <2>1 DEF Live
  <2> QED
    BY <1>1, <2>1, <2>2 DEF Live, SocketStep, Connect, ConnectIgnored, LineToLogin,
       LineToAgent, ReconnectRefused, Reconnect, GoneUnread
<1>2. CASE UNCHANGED <<conns, loop>>
  BY <1>2 DEF Live
<1> QED
  BY <1>1, <1>2 DEF Next, MessageStep, vars, TimerFires, Send, SendToNobody, KickNobody,
     SureAgent, SureAgentRefused, Shutdown

(* A session comes to a socket only with its name on it.                   *)
LEMMA ServesStep ==
    ASSUME Inv, [Next]_vars, NEW p \in Players, NEW fd \in Fds, Serves(p, fd)'
    PROVE  \/ Serves(p, fd)
           \/ bound'[fd] = p /\ (players'[p] # players[p] \/ Resume(fd, p))
<1> USE DEF Inv
<1>1. CASE Quiet
  BY <1>1 DEF Quiet, Serves
<1>2. ASSUME NEW f \in Fds, NEW r \in Players, Resume(f, r)
      PROVE  Serves(p, fd) \/ (bound'[fd] = p /\ Resume(fd, p))
  <2>1. /\ players[r] \in Objs /\ players' = players /\ bound' = [bound EXCEPT ![f] = r]
        /\ gp'[players[r]].conn = f
        /\ \A q \in Objs \ {players[r]} : gp'[q] = gp[q]
    BY <1>2, Resuming
  <2>2. CASE players[p] = players[r]
    <3>1. p = r
      BY <2>1, <2>2, NilAssumption DEF Owned
    <3>2. f = fd
      BY <2>1, <2>2 DEF Serves
    <3> QED
      BY <1>2, <2>1, <3>1, <3>2 DEF TypeOK
  <2>3. CASE players[p] # players[r]
    BY <2>1, <2>3 DEF Serves, TypeOK
  <2> QED
    BY <2>2, <2>3
<1>3. ASSUME NEW f \in Fds, CloseBound(f)
      PROVE  Serves(p, fd)
  <2> DEFINE q == players[bound[f]]
  <2>1. /\ q \in Objs /\ players' = players
        /\ gp' = [gp EXCEPT ![q] = [gp[q] EXCEPT !.conn = Nil]]
    BY <1>3 DEF CloseBound, Disconnects, TypeOK
  <2>2. players[p] \in Objs /\ gp'[players[p]].conn = fd
    BY <2>1 DEF Serves, TypeOK
  <2>3. players[p] # q
    BY <2>1, <2>2, NilAssumption DEF TypeOK
  <2> QED
    BY <2>1, <2>2, <2>3, NilAssumption DEF Serves, TypeOK
<1>4. ASSUME NEW q \in Objs, TimerFires(q)
      PROVE  Serves(p, fd)
  <2>1. players' = players /\ Collect(gp, sent, got)
    BY <1>4 DEF TimerFires
  <2>2. players[p] \in Objs /\ Held(players[p])'
    BY <2>1 DEF Serves, Held, TypeOK
  <2> QED
    BY <2>1, <2>2, CollectedOrKept DEF Serves
<1>5. ASSUME NEW r \in Players, Send(r)
      PROVE  Serves(p, fd)
  <2>1. PICK q \in Objs : q = players[r] /\ Sending(q)
    BY <1>5, SendCases
  <2>2. players' = players
    BY <1>5 DEF Send
  <2>3. players[p] \in Objs
    BY <2>2 DEF Serves, TypeOK
  <2>4. gp'[players[p]].conn = gp[players[p]].conn
    BY <2>1, <2>3, MessageCached DEF Sending
  <2> QED
    BY <2>2, <2>4 DEF Serves
<1>6. ASSUME NEW f \in Fds, NEW r \in Players, NEW a \in Agents \cup {Nil}, SureAgent(f, r, a)
      PROVE  Serves(p, fd) \/ (bound'[fd] = p /\ players'[p] # players[p])
  <2>1. PICK q \in Objs :
           /\ ~Held(q)
           /\ players' = [players EXCEPT ![r] = q] /\ timers' = timers
           /\ Collect([gp EXCEPT ![q] = [p |-> r, agent |-> a, conn |-> f, cache |-> <<>>]],
                      sent, got)
    BY <1>6, MadeNew
  <2> DEFINE newGp == [gp EXCEPT ![q] = [p |-> r, agent |-> a, conn |-> f, cache |-> <<>>]]
  <2>2. players'[p] \in Objs
    <3>1. players' \in [Players -> Objs \cup {Nil}]
      BY <2>1 DEF TypeOK
    <3>2. players'[p] # Nil
      BY DEF Serves
    <3> QED
      BY <3>1, <3>2
  <2>3. gp'[players'[p]] = newGp[players'[p]]
    <3>1. PICK x \in Objs : x = players'[p]
      BY <2>2
    <3>2. Held(x)'
      BY <3>1 DEF Held
    <3>3. Collect(newGp, sent, got)
      BY <2>1
    <3> HIDE DEF newGp
    <3>4. gp'[x] = newGp[x]
      BY <3>2, <3>3, CollectedOrKept
    <3> QED
      BY <3>1, <3>4
  <2>4. CASE p = r
    <3>1. players'[p] = q /\ newGp[q].conn = f
      BY <2>1, <2>4 DEF TypeOK
    <3>2. bound'[f] = r
      BY <1>6 DEF SureAgent, TypeOK
    <3>3. players[p] # q
      BY <2>1 DEF Held
    <3> QED
      BY <2>3, <2>4, <3>1, <3>2, <3>3 DEF Serves
  <2>5. CASE p # r
    <3>1. players'[p] = players[p] /\ players[p] # q
      BY <2>1, <2>5 DEF TypeOK, Held
    <3>2. newGp[players[p]] = gp[players[p]]
      BY <2>2, <3>1 DEF TypeOK
    <3> QED
      BY <2>3, <3>1, <3>2 DEF Serves
  <2> QED
    BY <2>4, <2>5
<1>7. ASSUME NEW r \in Players, Kick(r)
      PROVE  Serves(p, fd)
  <2>1. players' = [players EXCEPT ![r] = Nil] /\ Collect(gp, sent, got)
    BY <1>7 DEF Kick
  <2>2. players'[p] = players[p] /\ players[p] \in Objs
    BY <2>1 DEF Serves, TypeOK
  <2>3. Held(players[p])'
    BY <2>2 DEF Held
  <2> QED
    BY <2>1, <2>2, <2>3, CollectedOrKept DEF Serves
<1> QED
  BY <1>1, <1>2, <1>3, <1>4, <1>5, <1>6, <1>7, Steps DEF SessionStep

(* So a socket that serves a session has a player.                         *)
LEMMA NamedStep ==
    ASSUME Inv, Named, [Next]_vars
    PROVE  Named'
<1> SUFFICES ASSUME NEW p \in Players, NEW fd \in Fds, Serves(p, fd)'
             PROVE  bound'[fd] # Nil
  BY DEF Named
<1>1. CASE bound'[fd] = p
  BY <1>1, NilAssumption
<1>2. CASE Serves(p, fd)
  <2>1. bound[fd] # Nil
    BY <1>2 DEF Named
  <2>2. bound'[fd] = bound[fd] \/ bound'[fd] \in Players
    BY BoundSteps, Resuming DEF SureAgent, Inv, TypeOK
  <2> QED
    BY <2>1, <2>2, NilAssumption
<1> QED
  BY <1>1, <1>2, ServesStep

(* disconnect finds the session of the socket that goes, by the player of  *)
(* its conn, and so does kick: a session is left on a socket that is not   *)
(* read from only in the five ways the property names.                     *)
THEOREM GoneSocketsNoticed == Spec => GoneSocketNoticed
<1> DEFINE Cause(p, fd) ==
             \/ players'[p] # players[p]
             \/ gp[players[p]].conn = Nil /\ Jammed(gp[players[p]].cache)
             \/ gp[players[p]].agent = Nil
             \/ bound'[fd] \in Players \ {p}
             \/ \E q \in Players \ {p} : Serves(q, fd) /\ ~Serves(q, fd)'
<1>1. ASSUME Inv, Named, [Next]_vars, NEW p \in Players, NEW fd \in Fds,
             Deaf(p, fd)', ~Deaf(p, fd), ~Cause(p, fd)
      PROVE  FALSE
  <2> USE <1>1 DEF Inv
  <2>1. /\ Serves(p, fd)' /\ ~Live(fd)'
        /\ players'[p] = players[p] /\ players[p] \in Objs
        /\ gp[players[p]].agent # Nil
        /\ bound'[fd] \in {p, Nil}
    <3>1. Serves(p, fd)' /\ ~Live(fd)' /\ players'[p] = players[p]
      BY DEF Deaf
    <3>2. players[p] \in Objs
      BY <3>1 DEF Serves, TypeOK
    <3>3. bound'[fd] \in Players \cup {Nil}
      BY TypeStep DEF TypeOK
    <3> QED
      BY <3>1, <3>2, <3>3
  <2>2. Named'
    BY NamedStep
  <2>3. bound'[fd] = p
    BY <2>1, <2>2 DEF Named
  <2>4. CASE ~Serves(p, fd)
    <3>1. Resume(fd, p)
      BY <2>1, <2>4, ServesStep
    <3>2. CASE Reconnect(fd, p)
      BY <2>1, <3>2 DEF Reconnect, Live
    <3>3. CASE ReconnectRaises(fd, p)
      <4>1. gp[players[p]].conn = Nil /\ Jammed(gp[players[p]].cache)
        BY <3>3 DEF ReconnectRaises, Jammed
      <4> QED
        BY <4>1
    <3> QED
      BY <3>1, <3>2, <3>3 DEF Resume
  <2>5. CASE Serves(p, fd)
    <3>1. Live(fd) /\ fd \in conns
      BY <2>5 DEF Deaf, Live
    <3>2. bound[fd] # Nil
      BY <2>5 DEF Named
    <3>3. CASE LineRaises(fd) \/ CloseUnbound(fd) \/ CloseRaises(fd)
      <4>1. bound[fd] = p
        BY <2>3, <3>3 DEF LineRaises, CloseUnbound, CloseRaises
      <4> QED
        BY <2>1, <3>1, <3>2, <3>3, <4>1, NilAssumption
           DEF LineRaises, AgentOf, CloseUnbound, CloseRaises, Disconnects
    <3>4. CASE CloseBound(fd)
      <4>1. /\ bound[fd] = p /\ players' = players
            /\ gp' = [gp EXCEPT ![players[p]] = [gp[players[p]] EXCEPT !.conn = Nil]]
        BY <2>3, <3>4 DEF CloseBound
      <4>2. gp'[players[p]].conn = Nil
        BY <2>1, <4>1 DEF TypeOK, Gateplayer
      <4> QED
        BY <2>1, <4>1, <4>2, NilAssumption DEF Serves
    <3>5. ASSUME NEW q \in Players, Kick(q) PROVE FALSE
      <4>1. /\ players[q] # Nil /\ conns' = conns \ {gp[players[q]].conn} /\ loop' = loop
            /\ players' = [players EXCEPT ![q] = Nil]
        BY <3>5 DEF Kick
      <4>2. Serves(q, fd)
        BY <2>1, <3>1, <4>1 DEF Live, Serves
      <4>3. ~Serves(q, fd)' /\ q # p
        BY <2>1, <4>1, NilAssumption DEF Serves, TypeOK
      <4> QED
        BY <4>2, <4>3
    <3>6. ASSUME NEW r \in Players, ReconnectRaises(fd, r) PROVE FALSE
      <4>1. bound' = [bound EXCEPT ![fd] = r] /\ gp[players[r]].conn = Nil
        BY <3>6 DEF ReconnectRaises
      <4>2. r = p
        BY <2>3, <4>1 DEF TypeOK
      <4> QED
        BY <2>5, <4>1, <4>2, NilAssumption DEF Serves
    <3> QED
      BY <2>1, <3>1, <3>3, <3>4, <3>5, <3>6, LiveSteps
  <2> QED
    BY <2>4, <2>5
<1>2. Inv /\ Named /\ [Next]_vars =>
        [\A p \in Players, fd \in Fds :
            Deaf(p, fd)' /\ ~Deaf(p, fd) => Cause(p, fd)]_vars
  <2> HIDE DEF Cause
  <2> QED
    BY <1>1
<1>3. Init => Named
  BY DEF Init, Named, Serves
<1>4. Inv /\ Named /\ [Next]_vars => Named'
  BY NamedStep
<1>5. Spec => [][\A p \in Players, fd \in Fds :
                   Deaf(p, fd)' /\ ~Deaf(p, fd) => Cause(p, fd)]_vars
  BY <1>2, <1>3, <1>4, Invariant, PTL DEF Spec
<1> QED
  BY <1>5 DEF GoneSocketNoticed
=============================================================================
