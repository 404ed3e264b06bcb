------------------------------ MODULE Records -------------------------------
(***************************************************************************)
(* The services that keep their records in MySQL: one service of the kind  *)
(* of login, smartlive, smartmanagement or unattended, its handlers, the   *)
(* agents that call them for a client, the timers and the parking map of   *)
(* unattended, and the connection they share: skynet.db.mysql over         *)
(* skynet/socketchannel.lua.                                               *)
(*                                                                         *)
(* One step is one message of the service: a request, a timer, or an event *)
(* of a socket, with every coroutine that it wakes up.  Channels are named *)
(* by the coroutine that called mysql.connect, Boot for the service's      *)
(* init.  A query is named by the coroutine that waits for its answer.     *)
(* Authentication is part of the connect that succeeds or fails.           *)
(***************************************************************************)
EXTENDS Integers, Sequences, FiniteSets

CONSTANTS Requests,  \* coroutines that run one handler each
          Kind,      \* "login", "set", "get", "recent" or "visit" for each
          Job,       \* the coroutine of refresh_car_traffic
          Boot,      \* the channel that s.init opened
          MaxFd,     \* bound: sockets opened
          Starts,    \* what the service is when the run begins
          Nil

Callers == Requests \cup {Job}
Channels == Requests \cup {Boot}
Fds == 1..MaxFd

ASSUME RecordsAssumption ==
    /\ Kind \in [Requests -> {"login", "set", "get", "recent", "visit"}]
    /\ IsFiniteSet(Requests)
    /\ Job \notin Requests /\ Boot \notin Callers
    /\ Nil \notin Callers \cup Channels
    /\ MaxFd \in Nat \ {0}

(* unattended, which has the job, connects before it sets its timers.      *)
ASSUME StartsAssumption ==
    \A s \in Starts :
        /\ s.db \in {Boot, Nil}
        /\ Job \in s.callers => s.db = Boot
        /\ s.left \in [breaks : Nat, sensors : Nat]

VARIABLES
    db,       \* the channel of the service's connection, Nil before
    chan,     \* the socketchannel objects
    link,     \* the sockets and what is under way on them
    pc,       \* where each coroutine stands
    ran,      \* what the server did with each request's query, each time
    reply,    \* what each handler answered
    told,     \* what the agent told its client of it
    fivemin,  \* fivemin_in and fivemin_out
    tiles,    \* handler1.tiles
    left      \* bounds: broken connections and sensor messages to come

vars == <<db, chan, link, pc, ran, reply, told, fivemin, tiles, left>>

Elements(s) == {s[i] : i \in DOMAIN s}

(* sock is 0 for false, leader the coroutine that sits in try_connect,     *)
(* joined those in __connecting, reqs those in __request and __thread.     *)
NewChannel == [sock |-> 0, leader |-> Nil, joined |-> <<>>, reqs |-> <<>>]

(* todo are queries the server has not run, done answers not yet read.     *)
NoLink == [state |-> "none", todo |-> <<>>, done |-> <<>>]

Init ==
    \E s \in Starts :
        /\ db = s.db
        /\ chan = [ch \in Channels |->
                     IF ch = s.db THEN [NewChannel EXCEPT !.sock = 1] ELSE NewChannel]
        /\ link = [fd \in Fds |->
                     IF fd = 1 /\ s.db # Nil THEN [NoLink EXCEPT !.state = "up"] ELSE NoLink]
        /\ pc = [c \in Callers |-> IF c \in s.callers THEN "idle" ELSE "off"]
        /\ ran = [r \in Requests |-> <<>>]
        /\ reply = [c \in Callers |-> "none"]
        /\ told = [r \in Requests |-> "nothing"]
        /\ fivemin = [in |-> 0, out |-> 0]
        /\ tiles = s.tiles
        /\ left = s.left

-----------------------------------------------------------------------------
(* The connection.                                                         *)

(* channel:request of each of cs, once its channel has a socket: the query *)
(* is written, and lost when the connection is broken already.             *)
Write(ch, fd, cs) ==
    /\ link' = [link EXCEPT ![fd].state = IF @ = "none" THEN "up" ELSE @,
                            ![fd].todo = IF link[fd].state = "down" THEN @ ELSE @ \o cs]
    /\ chan' = [chan EXCEPT ![ch] = [sock |-> fd, leader |-> Nil, joined |-> <<>>,
                                     reqs |-> @.reqs \o cs]]
    /\ pc' = [c \in Callers |-> IF c \in Elements(cs) THEN "wait" ELSE pc[c]]

(* block_connect when another coroutine is connecting, and when none is.   *)
Join(c, ch) ==
    /\ chan' = [chan EXCEPT ![ch].joined = Append(@, c)]
    /\ pc' = [pc EXCEPT ![c] = "join"]
    /\ UNCHANGED link

Lead(c, ch) ==
    /\ chan' = [chan EXCEPT ![ch].leader = c]
    /\ pc' = [pc EXCEPT ![c] = "connect"]
    /\ UNCHANGED link

(* db:query.                                                               *)
Query(c, ch) ==
    \/ chan[ch].sock # 0 /\ Write(ch, chan[ch].sock, <<c>>)
    \/ chan[ch].sock = 0 /\ chan[ch].leader # Nil /\ Join(c, ch)
    \/ chan[ch].sock = 0 /\ chan[ch].leader = Nil /\ Lead(c, ch)

(* Coroutines that raise: a handler answers nothing, the daily job ends.   *)
Raise(cs) == /\ pc' = [c \in Callers |-> IF c \in cs THEN "done" ELSE pc[c]]
             /\ reply' = [c \in Callers |-> IF c \in cs THEN "none" ELSE reply[c]]

(* A handler, up to where its query is under way.  mysql.connect yields    *)
(* before db is set, so every first login has a channel of its own.        *)
Handle(r) ==
    /\ pc[r] = "idle"
    /\ IF db = Nil THEN Lead(r, r) ELSE Query(r, db)
    /\ UNCHANGED <<db, ran, reply, told, fivemin, tiles, left>>

(* string.format raises at an argument that is no number.                  *)
BadArgument(r) ==
    /\ pc[r] = "idle" /\ Kind[r] # "login" /\ db # Nil
    /\ Raise({r})
    /\ UNCHANGED <<db, chan, link, ran, told, fivemin, tiles, left>>

(* The daily timer.  The traffic counters it resets are never counted up.  *)
RefreshCarTraffic ==
    /\ pc[Job] = "idle"
    /\ Query(Job, db)
    /\ UNCHANGED <<db, ran, reply, told, fivemin, tiles, left>>

(* connect_once is through: db is set if it was mysql.connect that called, *)
(* and the queries of all that have waited are written.                    *)
Connecting(ch) == <<chan[ch].leader>> \o chan[ch].joined

ConnectedBug(ch) ==
    /\ chan[ch].leader # Nil
    /\ \E fd \in Fds :
          /\ link[fd].state = "none" /\ \A n \in 1..(fd - 1) : link[n].state # "none"
          /\ Write(ch, fd, <<chan[ch].leader>>)
    /\ db' = IF ch = chan[ch].leader THEN ch ELSE db
    /\ UNCHANGED <<ran, reply, told, fivemin, tiles, left>>

Connected(ch) ==
    /\ chan[ch].leader # Nil
    /\ \E fd \in Fds :
          /\ link[fd].state = "none" /\ \A n \in 1..(fd - 1) : link[n].state # "none"
          /\ Write(ch, fd, Connecting(ch))
    /\ db' = IF ch = chan[ch].leader THEN ch ELSE db
    /\ UNCHANGED <<ran, reply, told, fivemin, tiles, left>>

(* connect_once has failed: the leader and all that have waited raise.     *)
ConnectFails(ch) ==
    /\ chan[ch].leader # Nil
    /\ Raise(Elements(Connecting(ch)))
    /\ chan' = [chan EXCEPT ![ch] = [@ EXCEPT !.leader = Nil, !.joined = <<>>]]
    /\ UNCHANGED <<db, link, ran, told, fivemin, tiles, left>>

Outcome(ok) == IF ok THEN "done" ELSE "refused"

(* The server carries out a query or refuses it, also when nobody is there *)
(* any more to read its answer.                                            *)
ServerRuns(fd) ==
    /\ link[fd].todo # <<>>
    /\ LET q == Head(link[fd].todo)
       IN \E ok \in BOOLEAN :
             /\ ran' = IF q = Job THEN ran ELSE [ran EXCEPT ![q] = Append(@, Outcome(ok))]
             /\ link' = [link EXCEPT
                  ![fd].todo = Tail(@),
                  ![fd].done = IF link[fd].state = "up" THEN Append(@, [query |-> q, ok |-> ok])
                                                        ELSE @]
    /\ UNCHANGED <<db, chan, pc, reply, told, fivemin, tiles, left>>

-----------------------------------------------------------------------------
(* What a handler does with its answer.  login and the get handlers raise  *)
(* when they index a row that is not there; smartlive and smartmanagement  *)
(* answer "false" to a query that was refused, and unattended false.       *)
Selected(r, ok) == /\ Kind[r] \in {"login", "get"}
                   /\ \E answer \in {"none", IF ok THEN "data" ELSE "false"} :
                         /\ Kind[r] = "login" => answer # "false"
                         /\ reply' = [reply EXCEPT ![r] = answer]
                   /\ pc' = [pc EXCEPT ![r] = "done"]
                   /\ UNCHANGED fivemin

(* get_ten_recent_access_records does not look at err: a refused query has *)
(* no first row, and the answer is an empty list, which is data.           *)
Recent(r, ok) == /\ Kind[r] = "recent"
                 /\ \E answer \in {"data"} \cup (IF ok THEN {"none"} ELSE {}) :
                       reply' = [reply EXCEPT ![r] = answer]
                 /\ pc' = [pc EXCEPT ![r] = "done"]
                 /\ UNCHANGED fivemin

Inserted(r, ok) == /\ Kind[r] = "set"
                   /\ reply' = [reply EXCEPT ![r] = IF ok THEN "true" ELSE "false"]
                   /\ pc' = [pc EXCEPT ![r] = "done"]
                   /\ UNCHANGED fivemin

(* set_unattended_visit_record: false and nil are one to the agent.        *)
Visited(r, ok) ==
    /\ Kind[r] = "visit"
    /\ reply' = [reply EXCEPT ![r] = IF ok THEN "true" ELSE "none"]
    /\ pc' = [pc EXCEPT ![r] = "done"]
    /\ IF ok THEN \E way \in DOMAIN fivemin : fivemin' = [fivemin EXCEPT ![way] = @ + 1]
             ELSE UNCHANGED fivemin

(* refresh_car_traffic sets its timer again, unless its insert failed.     *)
CarRecorded(c, ok) == /\ c = Job
                      /\ reply' = [reply EXCEPT ![c] = IF ok THEN "true" ELSE "false"]
                      /\ pc' = [pc EXCEPT ![c] = IF ok THEN "idle" ELSE "done"]
                      /\ UNCHANGED fivemin

Resume(c, ok) == \/ CarRecorded(c, ok)
                 \/ /\ c # Job
                    /\ Selected(c, ok) \/ Recent(c, ok) \/ Inserted(c, ok) \/ Visited(c, ok)

(* dispatch_by_order: the next answer is for the first who waits.          *)
Dispatch(ch) ==
    LET fd == chan[ch].sock
    IN /\ fd # 0
       /\ link[fd].done # <<>> /\ chan[ch].reqs # <<>>
       /\ Resume(Head(chan[ch].reqs), Head(link[fd].done).ok)
       /\ link' = [link EXCEPT ![fd].done = Tail(@)]
       /\ chan' = [chan EXCEPT ![ch].reqs = Tail(@)]
       /\ UNCHANGED <<db, ran, told, tiles, left>>

(* The agent hears the answer of its call: nil and false are failures, of  *)
(* which only the get handlers of unattended tell the client.  A visit is  *)
(* answered with the boolean true: str_pack of the gateway raises on it,   *)
(* and the client is told nothing.                                         *)
ForwardBug(r) ==
    /\ pc[r] = "done" /\ Kind[r] # "login"
    /\ pc' = [pc EXCEPT ![r] = "told"]
    /\ told' = [told EXCEPT ![r] = IF reply[r] = "none" THEN "false" ELSE reply[r]]
    /\ UNCHANGED <<db, chan, link, ran, reply, fivemin, tiles, left>>

Forward(r) ==
    /\ pc[r] = "done" /\ Kind[r] # "login"
    /\ pc' = [pc EXCEPT ![r] = "told"]
    /\ \/ reply[r] # "none" /\ Kind[r] # "visit" /\ told' = [told EXCEPT ![r] = reply[r]]
       \/ (reply[r] = "none" \/ Kind[r] = "visit") /\ UNCHANGED told
       \/ /\ reply[r] = "none" /\ Kind[r] \in {"get", "recent"}
          /\ told' = [told EXCEPT ![r] = "failed"]
    /\ UNCHANGED <<db, chan, link, ran, reply, fivemin, tiles, left>>

(* The network or the server breaks a connection; the service hears of it  *)
(* later, and answers on their way may be lost.                            *)
Break(fd) ==
    /\ left.breaks > 0
    /\ link[fd].state = "up"
    /\ link' = [link EXCEPT ![fd].state = "down"]
    /\ left' = [left EXCEPT !.breaks = @ - 1]
    /\ UNCHANGED <<db, chan, pc, ran, reply, told, fivemin, tiles>>

(* The close event: the dispatch thread stops and wakes up all that wait.  *)
ClosedBug(ch) ==
    LET fd == chan[ch].sock
    IN /\ fd # 0
       /\ link[fd].state = "down"
       /\ chan' = [chan EXCEPT ![ch].sock = 0]
       /\ link' = [link EXCEPT ![fd].state = "closed", ![fd].done = <<>>]
       /\ UNCHANGED <<db, pc, reply, ran, told, fivemin, tiles, left>>

Closed(ch) ==
    LET fd == chan[ch].sock
    IN /\ fd # 0
       /\ link[fd].state = "down"
       /\ chan' = [chan EXCEPT ![ch].sock = 0, ![ch].reqs = <<>>]
       /\ link' = [link EXCEPT ![fd].state = "closed", ![fd].done = <<>>]
       /\ Raise(Elements(chan[ch].reqs))
       /\ UNCHANGED <<db, ran, told, fivemin, tiles, left>>

-----------------------------------------------------------------------------
(* The five minute timer of unattended: no query, so it never ends.        *)
RefreshFootTraffic ==
    /\ pc[Job] # "off"
    /\ fivemin' = [in |-> 0, out |-> 0]
    /\ UNCHANGED <<db, chan, link, pc, ran, reply, told, tiles, left>>

(* A sensor reports on place j of row i: the map is changed, and then the  *)
(* handler always raises, at parking_car[floor][i][j].                     *)
SetParkinglotRecord ==
    /\ left.sensors > 0
    /\ \E i \in DOMAIN tiles : \E j \in DOMAIN tiles[i] : \E value \in {0, 1} :
          tiles' = [tiles EXCEPT ![i][j] = value]
    /\ left' = [left EXCEPT !.sensors = @ - 1]
    /\ UNCHANGED <<db, chan, link, pc, ran, reply, told, fivemin>>

Next ==
    \/ \E r \in Requests : Handle(r) \/ BadArgument(r) \/ Forward(r)
    \/ RefreshCarTraffic
    \/ \E ch \in Channels : Connected(ch) \/ ConnectFails(ch) \/ Dispatch(ch) \/ Closed(ch)
    \/ \E fd \in Fds : ServerRuns(fd) \/ Break(fd)
    \/ RefreshFootTraffic
    \/ SetParkinglotRecord

(* A connect ends, the server answers on a connection that stands, events  *)
(* are handled and the daily timer comes round.                            *)
Spec ==
    /\ Init /\ [][Next]_vars
    /\ \A ch \in Channels : /\ WF_vars(Connected(ch) \/ ConnectFails(ch))
                            /\ WF_vars(Dispatch(ch) \/ Closed(ch))
    /\ \A fd \in Fds : WF_vars(link[fd].state = "up" /\ ServerRuns(fd))
    /\ WF_vars(RefreshCarTraffic)

-----------------------------------------------------------------------------
(* What ran has of a query that the server took up once.                   *)
Carried == <<"done">>
Refused == <<"refused">>

Answers == [query : Callers, ok : BOOLEAN]
SocketChannels == [sock : Fds \cup {0}, leader : Callers \cup {Nil},
                   joined : Seq(Callers), reqs : Seq(Callers)]
Links == [state : {"none", "up", "down", "closed"},
          todo : Seq(Callers), done : Seq(Answers)]

TypeOK ==
    /\ db \in Channels \cup {Nil}
    /\ chan \in [Channels -> SocketChannels]
    /\ link \in [Fds -> Links]
    /\ pc \in [Callers -> {"off", "idle", "connect", "join", "wait", "done", "told"}]
    /\ ran \in [Requests -> {<<>>, Carried, Refused}]
    /\ reply \in [Callers -> {"none", "true", "false", "data"}]
    /\ told \in [Requests -> {"nothing", "failed", "true", "false", "data"}]
    /\ fivemin \in [{"in", "out"} -> Nat]
    /\ left \in [breaks : Nat, sensors : Nat]

(* Answers carry no session in socketchannel.lua's dispatch_by_order: the  *)
(* coroutines that wait are those whose answers and queries are on the     *)
(* channel's socket, in that order, and no more than those of a broken     *)
(* connection.                                                             *)
InStep ==
    \A ch \in {c \in Channels : chan[c].sock # 0} :
        LET on == link[chan[ch].sock]
            asked == [i \in DOMAIN on.done |-> on.done[i].query] \o on.todo
        IN IF on.state = "up"
           THEN chan[ch].reqs = asked
           ELSE /\ Len(on.done) <= Len(chan[ch].reqs)
                /\ \A i \in DOMAIN on.done : chan[ch].reqs[i] = on.done[i].query

(* What is said of a query is what became of it.                           *)
BorneOut(r, said) ==
    /\ said = "true" => ran[r] = Carried
    /\ said = "false" => ran[r] = Refused
    /\ said = "data" => \/ ran[r] = Carried
                        \/ Kind[r] = "recent" /\ ran[r] = Refused

(* A handler answers of its own query, and so does the agent: "true" or    *)
(* data when the server has carried it out, once, "false" when it refused  *)
(* it (res.err of smartlive), also for requests that shared or lost a      *)
(* connection.  Only for the recent access records may the data be the     *)
(* empty list of a refused query (unattended/init.lua:79-92), yet never of *)
(* a lost one.  fivemin_in and fivemin_out of unattended count stored      *)
(* visits only.                                                            *)
AnswersMatch ==
    /\ \A r \in Requests : \A said \in {reply[r], told[r]} : BorneOut(r, said)
    /\ fivemin.in + fivemin.out
           <= Cardinality({r \in Requests : Kind[r] = "visit" /\ ran[r] = Carried})

(* Every handler ends, those that wait for a connection another coroutine  *)
(* opens included: block_connect wakes up all, wakeup_all too.  The daily  *)
(* job of unattended is set again, unless it raises or its insert fails.   *)
Answered ==
    /\ \A r \in Requests : pc[r] \in {"connect", "join", "wait"} ~> pc[r] \in {"done", "told"}
    /\ pc[Job] \in {"connect", "join", "wait"} ~>
          \/ pc[Job] = "idle"
          \/ pc[Job] = "done" /\ reply[Job] # "true"
=============================================================================
