------------------------------ MODULE Gateway ------------------------------
(***************************************************************************)
(* One gateway service (service/gateway/init.lua).  It accepts sockets,    *)
(* reads lines from them in one receive loop each, hands the lines to a    *)
(* login service or to the agent of the player, and writes what agents     *)
(* send, or caches it while the player's socket is gone.                   *)
(*                                                                         *)
(* No handler changes state after a yield: its calls of reqkick come last, *)
(* and socket.write does not yield.  So each handler, and each line a      *)
(* receive loop processes, is one action.  A conn object is named by its   *)
(* fd (skynet numbers sockets afresh), a gateplayer object by a member of  *)
(* Objs: a timer keeps the gateplayer it was started for.                  *)
(*                                                                         *)
(* A definition named ...Bug is a wrong form of the one that follows it,   *)
(* kept to show which property notices.                                    *)
(***************************************************************************)
EXTENDS Naturals, Sequences

CONSTANTS
    Fds,       \* sockets
    Players,   \* playerids
    Agents,    \* handles of agent services
    Objs,      \* names of gateplayer objects
    CacheMax,  \* messages cached before the player is kicked (500)
    MaxSend,   \* bound: messages an agent sends to one gateplayer
    MaxTimers, \* bound: timers running for one gateplayer
    Unpackable, \* the messages, by number, that str_pack raises on
    Nil

ASSUME NilAssumption == Nil \notin Fds \cup Players \cup Agents \cup Objs
ASSUME BoundsAssumption == CacheMax \in Nat /\ MaxSend \in Nat /\ MaxTimers \in Nat

VARIABLES
    conns,    \* the fds that have an entry in conns
    bound,    \* conn.playerid of each fd
    players,  \* playerid -> its gateplayer, or Nil
    gp,       \* the gateplayers: playerid, agent, conn and msgcache
    sent,     \* how many messages have come for each gateplayer
    got,      \* those written to a socket for it, by number
    timers,   \* 30 s timers that run for each gateplayer
    loop,     \* each socket and its receive loop: "raised" is a loop that an
              \* error ended while the socket is open, "ended" a closed socket
    closing,  \* shutdown has been called
    asked     \* the players the last step sent agentmgr a reqkick for

vars == <<conns, bound, players, gp, sent, got, timers, loop, closing, asked>>
log == <<sent, got>>

NoGp == [p |-> Nil, agent |-> Nil, conn |-> Nil, cache |-> <<>>]
(* A socket that is read from, and one that writing to has an effect on.   *)
Live(fd) == fd \in conns /\ loop[fd] = "run"
Writable(fd) == fd \in conns /\ loop[fd] \in {"run", "raised"}

(* A cache that cannot be flushed to its end: table.concat raises on an    *)
(* element that is neither a string nor a number.                          *)
Jams(cache, i) == i \in DOMAIN cache /\ cache[i] \in Unpackable
Jammed(cache) == \E i \in DOMAIN cache : Jams(cache, i)

(* Nothing refers to a gateplayer: it is collected, and its name is free.  *)
Held(o) == timers[o] > 0 \/ \E p \in Players : players[p] = o

Collect(newGp, newSent, newGot) ==
    /\ gp' = [o \in Objs |-> IF Held(o)' THEN newGp[o] ELSE NoGp]
    /\ sent' = [o \in Objs |-> IF Held(o)' THEN newSent[o] ELSE 0]
    /\ got' = [o \in Objs |-> IF Held(o)' THEN newGot[o] ELSE <<>>]

Init == /\ conns = {}
        /\ bound = [fd \in Fds |-> Nil]
        /\ players = [p \in Players |-> Nil]
        /\ gp = [o \in Objs |-> NoGp]
        /\ sent = [o \in Objs |-> 0]
        /\ got = [o \in Objs |-> <<>>]
        /\ timers = [o \in Objs |-> 0]
        /\ loop = [fd \in Fds |-> "none"]
        /\ closing = FALSE
        /\ asked = {}

-----------------------------------------------------------------------------
(* Sockets *)

(* A socket is accepted: it gets a conn and a receive loop.                *)
Connect(fd) ==
    /\ loop[fd] = "none"
    /\ ~closing
    /\ conns' = conns \cup {fd}
    /\ loop' = [loop EXCEPT ![fd] = "run"]
    /\ asked' = {}
    /\ UNCHANGED <<bound, players, gp, log, timers, closing>>

(* Once closing, an accepted socket is neither started nor closed.         *)
ConnectIgnored(fd) ==
    /\ loop[fd] = "none"
    /\ closing
    /\ loop' = [loop EXCEPT ![fd] = "ignored"]
    /\ asked' = {}
    /\ UNCHANGED <<conns, bound, players, gp, log, timers, closing>>

(* A line on a socket without a player goes to a login service.            *)
LineToLogin(fd) ==
    /\ loop[fd] = "run"
    /\ fd \in conns
    /\ bound[fd] = Nil
    /\ asked' = {}
    /\ UNCHANGED <<conns, bound, players, gp, log, timers, loop, closing>>

(* A line on a socket with a player goes to the agent.                     *)
AgentOf(p) == IF players[p] = Nil THEN Nil ELSE gp[players[p]].agent

LineToAgent(fd) ==
    /\ loop[fd] = "run"
    /\ fd \in conns
    /\ bound[fd] # Nil
    /\ AgentOf(bound[fd]) # Nil
    /\ asked' = {}
    /\ UNCHANGED <<conns, bound, players, gp, log, timers, loop, closing>>

(* Without a conn, a gateplayer or an agent process_msg raises: the loop   *)
(* ends without disconnect and without closing the socket.                 *)
LineRaises(fd) ==
    /\ loop[fd] = "run"
    /\ fd \notin conns \/ (bound[fd] # Nil /\ AgentOf(bound[fd]) = Nil)
    /\ loop' = [loop EXCEPT ![fd] = "raised"]
    /\ asked' = {}
    /\ UNCHANGED <<conns, bound, players, gp, log, timers, closing>>

(* A reconnect line is refused: no such player, its conn not broken, or a  *)
(* wrong key.                                                              *)
ReconnectRefused(fd) ==
    /\ loop[fd] = "run"
    /\ fd \in conns
    /\ asked' = {}
    /\ UNCHANGED <<conns, bound, players, gp, log, timers, loop, closing>>

(* With the right key the socket is bound to the gateplayer, whose cache   *)
(* is written to it in order and emptied.  A message that cannot be packed *)
(* ends the flush and the loop: what is before it has been written, and    *)
(* the cache stays as it is.                                               *)
FlushedBug(o) == gp[o].cache
Flushed(o) == <<>>

ReconnectBug(fd, p) ==
    LET o == players[p] IN
    /\ loop[fd] = "run" /\ fd \in conns
    /\ o # Nil /\ gp[o].conn = Nil
    /\ ~Jammed(gp[o].cache)
    /\ gp' = [gp EXCEPT ![o] = [p |-> p, agent |-> @.agent, conn |-> fd, cache |-> Flushed(o)]]
    /\ got' = [got EXCEPT ![o] = @ \o gp[o].cache]
    /\ asked' = {}
    /\ UNCHANGED <<bound, conns, players, sent, timers, loop, closing>>

Reconnect(fd, p) ==
    LET o == players[p] IN
    /\ loop[fd] = "run"
    /\ fd \in conns
    /\ o # Nil
    /\ gp[o].conn = Nil
    /\ ~Jammed(gp[o].cache)
    /\ gp' = [gp EXCEPT ![o] = [p |-> p, agent |-> @.agent, conn |-> fd, cache |-> Flushed(o)]]
    /\ bound' = [bound EXCEPT ![fd] = p]
    /\ got' = [got EXCEPT ![o] = @ \o gp[o].cache]
    /\ asked' = {}
    /\ UNCHANGED <<conns, players, sent, timers, loop, closing>>

ReconnectRaises(fd, p) ==
    LET o == players[p] IN
    /\ loop[fd] = "run"
    /\ fd \in conns
    /\ o # Nil
    /\ gp[o].conn = Nil
    /\ \E k \in DOMAIN gp[o].cache :
          /\ Jams(gp[o].cache, k)
          /\ \A i \in 1 .. k - 1 : ~Jams(gp[o].cache, i)
          /\ got' = [got EXCEPT ![o] = @ \o SubSeq(gp[o].cache, 1, k - 1)]
    /\ gp' = [gp EXCEPT ![o] = [@ EXCEPT !.conn = fd]]
    /\ bound' = [bound EXCEPT ![fd] = p]
    /\ loop' = [loop EXCEPT ![fd] = "raised"]
    /\ asked' = {}
    /\ UNCHANGED <<conns, players, sent, timers, closing>>

(* The client closes a socket whose loop has raised: nobody reads that.    *)
GoneUnread(fd) ==
    /\ loop[fd] = "raised"
    /\ loop' = [loop EXCEPT ![fd] = "ended"]
    /\ asked' = {}
    /\ UNCHANGED <<conns, bound, players, gp, log, timers, closing>>

(* The socket is closed, by the client or by kick.  With a conn that has a *)
(* player, disconnect takes the conn from the gateplayer of that player,   *)
(* whichever socket it has by now, and starts a timer.  The entry in conns *)
(* stays.                                                                  *)
Disconnects(fd) == fd \in conns /\ bound[fd] # Nil

CloseUnbound(fd) ==
    /\ loop[fd] = "run"
    /\ ~Disconnects(fd)
    /\ loop' = [loop EXCEPT ![fd] = "ended"]
    /\ asked' = {}
    /\ UNCHANGED <<conns, bound, players, gp, log, timers, closing>>

TimerSetBug(o) == timers
TimerSet(o) == [timers EXCEPT ![o] = @ + 1]

CloseBound(fd) ==
    LET o == players[bound[fd]] IN
    /\ loop[fd] = "run"
    /\ Disconnects(fd)
    /\ o # Nil
    /\ timers[o] < MaxTimers
    /\ gp' = [gp EXCEPT ![o] = [@ EXCEPT !.conn = Nil]]
    /\ timers' = TimerSet(o)
    /\ loop' = [loop EXCEPT ![fd] = "ended"]
    /\ asked' = {}
    /\ UNCHANGED <<conns, bound, players, log, closing>>

(* The player of the conn is gone from players: disconnect raises.         *)
CloseRaises(fd) ==
    /\ loop[fd] = "run"
    /\ Disconnects(fd)
    /\ players[bound[fd]] = Nil
    /\ loop' = [loop EXCEPT ![fd] = "ended"]
    /\ asked' = {}
    /\ UNCHANGED <<conns, bound, players, gp, log, timers, closing>>

(* A timer fires; it looks at the gateplayer it was started for.           *)
TimeoutBug(o) == gp[o].conn # Nil
Timeout(o) == gp[o].conn = Nil

TimerFires(o) ==
    /\ timers[o] > 0
    /\ timers' = [timers EXCEPT ![o] = @ - 1]
    /\ asked' = IF Timeout(o) THEN {gp[o].p} ELSE {}
    /\ UNCHANGED <<conns, bound, players, loop, closing>>
    /\ Collect(gp, sent, got)

-----------------------------------------------------------------------------
(* Messages from other services *)

(* An agent sends to its player: to the socket if there is one, else to    *)
(* the cache.  What is written to a socket that has ended, or whose conn   *)
(* kick has forgotten, is lost, and so is what cannot be packed: send_by_fd *)
(* raises.                                                                 *)
OfflineBug(p) == FALSE
Offline(p) == gp[players[p]].conn = Nil

WithMessage(o, m) == [gp EXCEPT ![o] = [@ EXCEPT !.cache = Append(gp[o].cache, m)]]

Send(p) ==
    LET o == players[p]
        n == sent[o] + 1
    IN
    /\ o # Nil
    /\ sent[o] < MaxSend
    /\ sent' = [sent EXCEPT ![o] = n]
    /\ IF Offline(p)
       THEN /\ gp' = WithMessage(o, n)
            /\ asked' = IF Len(gp[o].cache) + 1 > CacheMax THEN {p} ELSE {}
            /\ UNCHANGED got
       ELSE /\ got' = IF Writable(gp[o].conn) /\ n \notin Unpackable
                     THEN [got EXCEPT ![o] = Append(@, n)] ELSE got
            /\ asked' = {}
            /\ UNCHANGED gp
    /\ UNCHANGED <<conns, bound, players, timers, loop, closing>>

SendToNobody(p) ==
    /\ players[p] = Nil
    /\ asked' = {}
    /\ UNCHANGED <<conns, bound, players, gp, log, timers, loop, closing>>

(* login has an agent for a player on socket fd.  A socket that was closed *)
(* meanwhile still has its entry in conns.                                 *)
SureAgent(fd, p, a) ==
    /\ fd \in conns
    /\ bound' = [bound EXCEPT ![fd] = p]
    /\ asked' = {}
    /\ UNCHANGED <<conns, timers, loop, closing>>
    /\ \E o \in Objs :
         /\ ~Held(o)
         /\ players' = [players EXCEPT ![p] = o]
         /\ Collect([gp EXCEPT ![o] = [p |-> p, agent |-> a, conn |-> fd, cache |-> <<>>]],
                    sent, got)

SureAgentRefused(fd, p) ==
    /\ fd \notin conns
    /\ asked' = {p}
    /\ UNCHANGED <<conns, bound, players, gp, log, timers, loop, closing>>

(* agentmgr has cleared the player: its socket is forgotten and closed.    *)
Kick(p) ==
    /\ players[p] # Nil
    /\ players' = [players EXCEPT ![p] = Nil]
    /\ conns' = conns \ {gp[players[p]].conn}
    /\ asked' = {}
    /\ UNCHANGED <<bound, timers, loop, closing>>
    /\ Collect(gp, sent, got)

KickNobody(p) ==
    /\ players[p] = Nil
    /\ asked' = {}
    /\ UNCHANGED <<conns, bound, players, gp, log, timers, loop, closing>>

Shutdown ==
    /\ closing' = TRUE
    /\ asked' = {}
    /\ UNCHANGED <<conns, bound, players, gp, log, timers, loop>>

-----------------------------------------------------------------------------
SocketStep(fd) == \/ Connect(fd) \/ ConnectIgnored(fd)
                  \/ LineToLogin(fd) \/ LineToAgent(fd) \/ LineRaises(fd)
                  \/ ReconnectRefused(fd)
                  \/ \E p \in Players : Reconnect(fd, p) \/ ReconnectRaises(fd, p)
                  \/ GoneUnread(fd)
                  \/ CloseUnbound(fd) \/ CloseBound(fd) \/ CloseRaises(fd)

(* On its own the gateway is sent anything another service may send it.  A *)
(* sure_agent names a socket that has been accepted.                       *)
MessageStep == \/ \E p \in Players : \/ Send(p) \/ SendToNobody(p)
                                     \/ Kick(p) \/ KickNobody(p)
               \/ \E fd \in Fds, p \in Players :
                     /\ loop[fd] # "none"
                     /\ \/ \E a \in Agents \cup {Nil} : SureAgent(fd, p, a)
                        \/ SureAgentRefused(fd, p)
               \/ Shutdown

Next == \/ \E fd \in Fds : SocketStep(fd)
        \/ \E o \in Objs : TimerFires(o)
        \/ MessageStep

Spec == Init /\ [][Next]_vars

-----------------------------------------------------------------------------
(* Properties *)

Gateplayer == [p : Players \cup {Nil}, agent : Agents \cup {Nil},
               conn : Fds \cup {Nil}, cache : Seq(1 .. MaxSend)]

(* Types: what is written and cached are messages by their number.         *)
TypeOK ==
    /\ conns \in SUBSET Fds
    /\ bound \in [Fds -> Players \cup {Nil}]
    /\ players \in [Players -> Objs \cup {Nil}]
    /\ gp \in [Objs -> Gateplayer]
    /\ sent \in [Objs -> 0 .. MaxSend]
    /\ got \in [Objs -> Seq(1 .. MaxSend)]
    /\ timers \in [Objs -> 0 .. MaxTimers]
    /\ loop \in [Fds -> {"none", "run", "ended", "raised", "ignored"}]
    /\ closing \in BOOLEAN
    /\ asked \in SUBSET Players

Increasing(s) == \A i, j \in DOMAIN s : i < j => s[i] < s[j]

(* Across any number of disconnects and reconnects a client is written the *)
(* messages of its agent in the order they were sent and none twice, and   *)
(* no message overtakes one that waits in the cache.  The exception is     *)
(* what waits before a message that cannot be packed: every reconnect      *)
(* writes it again (gateway/init.lua:176-182).                             *)
Ahead(cache) == {cache[i] : i \in {n \in DOMAIN cache :
                    /\ \A j \in 1 .. n : ~Jams(cache, j)
                    /\ Jammed(cache)}}
InOrder ==
    \A o \in Objs : LET written == got[o]
                       cache == gp[o].cache
                   IN
        /\ Increasing(cache)
        /\ \A i, j \in DOMAIN written :
              i < j => written[i] < written[j] \/ written[j] \in Ahead(cache)
        /\ \A i \in DOMAIN written, j \in DOMAIN cache :
              written[i] < cache[j] \/ Jammed(cache)

(* send caches only while there is no socket, and reconnect leaves nothing *)
(* behind: a message waits while its client is there only after a flush    *)
(* that raised, over a socket nobody reads any more.                       *)
CacheOnlyOffline ==
    \A p \in Players : LET o == players[p] IN
        o # Nil => (gp[o].conn # Nil =>
            \/ gp[o].cache = <<>>
            \/ Jammed(gp[o].cache) /\ loop[gp[o].conn] # "run")

(* A message is lost only by writing it to a socket that is gone, or by    *)
(* the raise of its own packing over one that is there; neither the cache  *)
(* nor a flush, be it cut short, loses one.                                *)
Elements(s) == {s[i] : i \in DOMAIN s}
Lost(o) == (1 .. sent[o]) \ (Elements(got[o]) \cup Elements(gp[o].cache))
LossOnlyOnDeadSocket ==
    [][\A o \in Objs : \A m \in Lost(o)' \ Lost(o) :
          /\ gp[o].conn # Nil
          /\ ~Writable(gp[o].conn) \/ m \in Unpackable]_vars

(* A gateplayer that is left without a socket and without a timer has its  *)
(* player kicked in that same step: nobody is forgotten offline.           *)
Adrift(o, p) == players[p] = o /\ gp[o].conn = Nil /\ timers[o] = 0
NobodyForgotten ==
    [][\A o \in Objs, p \in Players :
          Adrift(o, p)' /\ ~Adrift(o, p) => p \in asked']_vars

(* disconnect goes by conn.playerid and send by gplayer.conn: the two meet *)
(* in the session of the socket that goes, which is then offline, and so   *)
(* timed.  A session is left on a socket nobody reads only in five ways:   *)
(* it was made over such a socket; its cache could not be flushed; it has  *)
(* no agent, so that a line raised; the socket is another player's by now; *)
(* or the kick of another session over it (gateway/init.lua:92-98,104-124, *)
(* 176-181,208).                                                           *)
Serves(p, fd) == players[p] # Nil /\ gp[players[p]].conn = fd
Deaf(p, fd) == Serves(p, fd) /\ ~Live(fd)
GoneSocketNoticed ==
    [][\A p \in Players, fd \in Fds : Deaf(p, fd)' /\ ~Deaf(p, fd) =>
          \/ players'[p] # players[p]
          \/ gp[players[p]].conn = Nil /\ Jammed(gp[players[p]].cache)
          \/ gp[players[p]].agent = Nil
          \/ bound'[fd] \in Players \ {p}
          \/ \E q \in Players \ {p} : Serves(q, fd) /\ ~Serves(q, fd)']_vars

(* "Gone offline while logging in" (gateway/init.lua:88): sure_agent makes *)
(* a session only for a socket that is still there.                        *)
OfflineLoginRefused ==
    [][\A p \in Players : players'[p] # Nil /\ players'[p] # players[p]
          => loop[gp'[players'[p]].conn] = "run"]_vars
=============================================================================
