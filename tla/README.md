# A verification project for the ue4_background server

The server is a set of skynet services (Lua actors on the skynet C runtime)
behind a TCP gateway: players log in, get an agent service of their own, and
through it enter a ball scene, and read and write the records of a smart
community: its environment, its equipment, its visitors and its parking lot.
This directory holds TLA+ models of the services, TLC configurations that check
them on small instances and TLAPS proofs about them. All line numbers refer to
the files under `src/project/`.

## 1. The system

### How services run

A skynet service is a mailbox and a Lua state.  Messages are taken from the
mailbox in order; each is handled by a coroutine of its own, and one coroutine
runs until it *yields* in `skynet.call` (or `s.call`), `skynet.sleep`, a socket
read or the end of its handler.  Between two yields nothing else runs in the
service; across a yield everything may have changed.  `lualib/service.lua`
dispatches a message to the function `s.resp[cmd]` under `xpcall`: a handler that
raises (or an unknown command) answers its caller with nothing, so the caller
reads `nil`; a call to a service that does not exist raises in the caller.
`s.call(node, ...)` is `skynet.call` on the own node and `cluster.call`
elsewhere.

This is the unit of atomicity of every model here: **an action is one
uninterrupted stretch of a coroutine**, from the message that starts or resumes
it to its next yield.  Two models justify or refine that unit: `Mailbox` has the
threads and queues of the C runtime, and shows that a service handles one message
at a time; `Records` has a MySQL connection, whose coroutines are woken by the
dispatch thread of a socket channel.

### Components

| component | source | state | operations | talks to |
|---|---|---|---|---|
| agentmgr | `service/agentmgr/init.lua` | `players`: playerid -> mgrplayer (status LOGIN, GAME, LOGOUT, node, agent, gate) | reqlogin, reqkick, shutdown | nodemgr, agents, gateways |
| gateway | `service/gateway/init.lua` | `conns` (fd -> conn), `players` (playerid -> gateplayer with agent, conn, key, msgcache), `closing`, one receive loop per socket | connect, data, close, reconnect, send, send_by_fd, sure_agent, kick, shutdown, the 30 s timer | login, agents, agentmgr |
| login | `service/login/init.lua` | the database connection | client login | mysql, agentmgr, gateway |
| agent | `service/agent/*.lua` | the gate, the data of the player, the scene it is in | client, kick, send, exit, enter, leave, shift, queries | gateway, scene, unattended, smartlive, smartmanagement |
| nodemgr | `service/nodemgr/init.lua` | - | newservice | skynet launcher |
| admin | `service/admin/init.lua` | - | stop | gateways, agentmgr |
| scene | `service/scene/init.lua` | balls, foods, counters | enter, leave, shift, the 0.2 s frame | agents |
| unattended | `service/unattended/init.lua` | traffic counters, parking map, database | record and query handlers, daily and 5-minute timers | mysql |
| smartlive, smartmanagement | `service/smartlive/init.lua`, `service/smartmanagement/init.lua` | database connection | about sixty insert and select handlers | mysql |
| socket channel and MySQL client | `skynet/lualib/skynet/socketchannel.lua`, `skynet/lualib/skynet/db/mysql.lua` | the socket, the coroutines that wait for it or for an answer, the dispatch thread | connect, query, an answer, a close | the MySQL server |
| path finding and parking | `lualib/astar.lua`, `lualib/parkinglothandler.lua`, `lualib/middleclass.lua` | open and closed lists, map | findPath, lot handling | - |
| service framework | `lualib/service.lua` | handler table | dispatch, call, send, start | skynet |
| message queues, handles and workers | `skynet/skynet-src/skynet_mq.c`, `skynet_server.c`, `skynet_handle.c`, `skynet_start.c` | a queue per service, the global queue, contexts with reference counts, the handle table | send, launch, retire, dispatch, sleep, quit | - |
| rest of the skynet runtime | `skynet/skynet-src`, `skynet/lualib` | timer wheel, sockets, coroutines | vendored actor runtime | - |

### The life of a session

1. A socket is accepted (`connect`), its receive loop is forked.
2. The first `login` line goes to a login service, which queries the password
   and calls agentmgr `reqlogin`; agentmgr enters the player in LOGIN, has
   nodemgr start an agent (the agent's `init` sleeps two seconds), stores it and
   moves to GAME.
3. login calls the gateway's `sure_agent`, which binds fd, player and agent.
4. Lines of a bound fd go to the agent; answers come back through `send`.
5. When the socket closes, `disconnect` clears `gplayer.conn`, answers are
   cached in `msgcache`, and a 30 s timer will call `reqkick` unless the client
   has come back with `reconnect`.
6. `reqkick` stores LOGOUT, calls the agent's `kick` (which leaves the scene and
   sleeps two seconds), sends `exit` to the agent and `kick` to the gateway, and
   clears the entry.

### What is hard in it

* Three tables (agentmgr's, the gateway's, the agents themselves) describe the
  same session and are updated by messages that cross each other.
* Handlers hold table entries in locals across calls.
* Timers capture objects that may have been replaced when they fire.
* Calls can fail half way (no agent, node down, a handler that raises), and the
  tables are then left as they are.
* Shutdown counts down a table that logins still fill.
* The answers of a database carry no request number: who is meant follows from
  their order, across lost and reopened connections.
* Worker threads, the socket thread and the timer thread send, launch, retire and
  free services under fine locks, with counts instead of owners.

## 2. What makes each component correct

* **agentmgr** - table and objects agree; a coroutine that resumes after a call
  still holds the entry it left; no agent serves two entries or none; an entry
  moves LOGIN, GAME, LOGOUT, gone, and is never overwritten; a login and a kick
  come to their end, and each entry under way has a coroutine that will end it; a
  shutdown returns.
* **gateway** - a client is written its messages in order and once across
  reconnects; nothing is cached while it is there; only a dead socket loses a
  message; a session without a socket is timed, or its player is kicked; a socket
  that goes is noticed by the session on it. The code keeps these up to the messages
  that cannot be packed and the sockets of two players, and the properties say how far.
* **login** - an answer reaches the coroutine that asked, and each login ends.
* **together** - the agent of a session was started for its player; the gateway's
  session and agentmgr's entry stay on the same agent, and no agent runs on without a
  session, but for the one message that a kick can overtake; a client that goes away is
  removed everywhere.
* **scene, agent** - a ball is in a scene exactly as long as its agent thinks so; a
  player whose enters do not overlap is in one scene at most and leaves it with its
  agent; food_count is the number of foods.
* **database services** - a query's answer goes to the coroutine that asked, every
  handler ends, and an answer says what the server did (one handler answers a refused
  query with an empty list).
* **unattended** - the visitor counters count stored visits only; the daily job goes
  on.
* **path finding** - a way is found when there is one, is connected, and no shorter
  one exists, whatever the sensors have reported.
* **message queues** - a queue with messages is in the global queue or in the hands
  of one thread, and in at most one place; nothing freed is used, a service retired
  while it is launched excepted; messages are handled in order, one at a time; the threads end with the last service.

## 3. Modules

| module | what it is |
|---|---|
| `AgentMgr` | the agentmgr service with its environment |
| `PlayerLifecycle` | the abstract specification: what agentmgr promises about a player |
| `MCAgentMgr` | small sets and symmetry for TLC |
| `AgentMgrProofs` | theorems about AgentMgr, proved with TLAPS |
| `Gateway` | one gateway service: sockets, sessions, cache, timers |
| `MCGateway` | small sets and symmetry for TLC |
| `GatewayProofs` | theorems about Gateway, proved with TLAPS |
| `Session` | AgentMgr and Gateway composed with the login service through mailboxes |
| `MCSession` | small sets and symmetry for TLC |
| `SessionProofs` | theorems about Session: its parts, and the way of a login |
| `SessionInvariants` | theorems about Session: sessions, entries and agents belong together |
| `Scene` | the scenes and the agents' calls of them |
| `SceneHistory` | Scene with a history of which enters of an agent overlapped |
| `MCScene` | small sets and symmetry for TLC |
| `SceneProofs` | theorems about Scene and SceneHistory, proved with TLAPS |
| `Inbox` | the abstract specification: what the runtime promises a service |
| `Mailbox` | the C runtime's queues, contexts, handle table and threads |
| `MCMailbox` | small sets and starting situations for TLC |
| `MailboxProofs` | theorems about Mailbox, proved with TLAPS |
| `MailboxRefinement` | the proof that Mailbox implements Inbox |
| `Records` | a service with a MySQL connection: handlers, timers, the connection |
| `AStar` | findPath and its map handler as operators, and shortest paths as a reference |
| `ParkingLot` | Records with AStar: the map and the paths on it |
| `MCRecords` | small sets and starting situations for TLC |
| `RecordsProofs` | theorems about Records, proved with TLAPS |

A definition named `...Bug` is a deliberately wrong form of the definition that
follows it. Nothing uses it; put in the place of the right one it must break the
property it is paired with in `PROJECT.json`.

### AgentMgr

| variable | code |
|---|---|
| `players`, `obj` | the table `players` and the mgrplayer objects in it (`agentmgr/init.lua:10-23`); an object is named by the coroutine that made it, so a local that outlives a table entry can be told from the entry |
| `pc`, `tgt`, `cnt` | where each handler coroutine stands, the `mplayer` it holds in a local across a call, the local `count` of shutdown |
| `ret` | the answer a finished coroutine has sent |
| `forked` | the reqkicks that shutdown runs with `skynet.fork` |
| `agent` | the agent services: free, up, kicked (has answered kick), exiting, dead |

`reqlogin` (25-56) is split at its call of nodemgr into `ReqLogin` and
`LaunchReturns`, `LaunchFails` or `LaunchRaises`; its early returns are
`ReqLoginRefused` and `ReqLoginReplace`. The last one is line 37: `pagent` is read
from `mplayer.agnet`, is nil, and `s.call(pnode, nil, "kick")` raises before the
multiple assignment stores LOGOUT, so the entry is unchanged and the caller gets
nothing. `reqkick` (58-80) is split at its call of the agent into `ReqKick` (or
`ReqKickNoAgent`) and `KickReturns` or `KickRaises`. `shutdown` (92-111) forks the
batch and polls: `Shutdown`, `ShutdownSleeps`, `ShutdownReturns`.

### Gateway

`conns`, `players` and `closing` are the globals of `gateway/init.lua`; `bound` is
`conn.playerid`, `gp` the gateplayer objects (player, agent, conn, msgcache),
`timers` the 30 s timers by the gateplayer their closure captured, `loop` each socket
with its receive loop: `run`, `raised` (an error ended the loop, the socket is still
open) or `ended`. `sent`, `got` and `asked` are history: the messages
agents have sent, those written to a socket, and the reqkicks of the last step.
No handler changes anything after a yield, so a handler is one action.

`str_pack` (32-34) raises on a message with an element that is neither string nor
number, and an agent sends such a message: the answer to a stored visit is `{true}`
(agent/unattended.lua:42). `Unpackable` is the set of those messages. `Send` loses one
on a socket that is there, and caches one like any other while there is none.
`Reconnect` flushes a cache that can be packed; with one that cannot `ReconnectRaises`
sets the conn, writes what comes before the message, ends the receive loop and leaves
the cache as it was, so that a later reconnect writes that part again (the conn has to be
taken from the session first, which another socket of the player does when it goes). The properties
name what this takes away, and nothing more.
Objects nobody refers to any more are collected (`Collect`), which keeps the
state finite and the names few.

### Session

`M` and `G` are instances of AgentMgr and Gateway. Their environment actions are
tied to two mailboxes, `toMgr` and `toGate`, and to the login coroutines `lg`:

    client line -> LoginLine -> LoginPassed -> [toMgr] MgrTakes (reqlogin)
        -> Launched -> MgrAnswers -> [toGate] GateTakesSure -> session
    timer or refused sure_agent -> [toMgr] MgrTakes (reqkick)
        -> AgentKicked -> Kicked -> [toGate] GateTakesKick

`caller` says which login coroutine waits for a coroutine of agentmgr; `owner`
is history: the player an agent was started for. Agents' messages to clients
are left out here (`MaxSend` is 0); Gateway checks that path.

**Delays.** A kick can overtake `sure_agent`: agentmgr answers login, is asked to kick
the player, and its `kick` reaches the gateway before login's `sure_agent`, which then
binds an agent that exits. An agent sleeps two seconds before it answers `kick`, but
nothing in the code makes an answer travel faster than that, and the session left
behind is not removed by its timer either, since reqkick refuses a player that
agentmgr no longer has. `SessionsStayBacked` and `AgentsStayHeld` are checked and proved
with no assumption on delays: a session and an entry lose each other in the step that
takes such an overtaken `sure_agent` (`Overtaken`) and in no other. `Prompt` is the
assumption that a wait of two seconds and more ends only when no message is on its way. It
is made in `session_leave`, whose question is what becomes of a player when messages do
arrive in time, and in `session_offline_login`, whose violation does not depend on it.

### Scene

| variable | code |
|---|---|
| `id`, `status`, `sname` | an agent's `s.id`, how far its kick and exit have come, `s.sname` (`agent/scene.lua`, `agent/init.lua`) |
| `task`, `mailbox` | the calls of scenes: who waits for which answer, and in which order they arrive |
| `balls`, `foods`, `food_count`, `food_maxid` | the tables and counters of each scene (`scene/init.lua`); a ball is named by the agent it was made for |
| `view` | history: the lists the client of an agent has built from the messages of a scene |

An agent's handler is split at its call: `Enter` and `Entered`, `Shift` and
`Shifted`, `Kick` and `Left` (then two seconds, `KickAnswered`, `Exit`). A scene
never yields in a handler, so serving a call is one action, and so is a frame:
`food_update`, `move_update` and `eat_update` run under one `pcall`. Positions,
speeds and sizes are abstracted to the choice of the foods that are eaten, the
empty choice included, which is also what a frame does when `move_update` raises
on a speed that is no number. `Start` lets a player's next agent begin when the
one before has exited: agentmgr sends `exit` before it clears the entry and a
start sleeps two seconds: a message that is sent before the sleep is taken to arrive
during it, as with `Prompt` in Session. `main.lua`
has the lines that start the scene services commented out (38-42); the model
is of the deployment in which they run.

`SceneHistory` adds `raced`, a history variable: the agents that were asked to enter
while another enter was under way or after their kick had begun, or were kicked
during an enter. It restricts no step of Scene. What `scene_two` shows can happen to
a player happens to those agents only, which is `SoundBalls`; and a scene refuses an
enter ("进入失败") only if its agent, or the agent of the ball in the way, is one of them,
which is `EntersGranted`. The runs of Scene use `HSpec`, the steps of Scene with this
history beside them.

### Mailbox and Inbox

| variable | code |
|---|---|
| `slot` | the handle table: is the service's handle registered (`skynet_handle.c`) |
| `ctx` | `struct skynet_context`: allocated or freed, `ref`, `init` |
| `mq` | `struct message_queue`: allocated or freed, its messages, `in_global`, `release` |
| `globalq` | `struct global_queue` |
| `disp` | a worker in `thread_worker` and `skynet_context_message_dispatch`: where it stands, its queue `q`, its context `c`, the queue `nq` it popped to go on with, how many messages of how many, the message |
| `op` | a call of `skynet_context_new`, `skynet_handle_retire` or `skynet_mq_release` |
| `snd` | a call of `skynet_context_push`, between grab, push and release |
| `deleting` | a call of `delete_context` by the thread that gave up the last reference |
| `quit`, `left` | `monitor.quit`; the bound on messages |

A thread has these calls on one stack: the innermost goes on. A step is a critical
section or an atomic operation; what a handler does is a choice of sending,
retiring, launching and returning. `Inbox` is the promise to a service: its
messages wait in order, one is handled at a time, only when it has been
initialised, and after it is closed they are dropped. `Promise` is the refinement.

`skynet_context_new` uses the context after it has given up its reference: it writes
`ctx->init` (`skynet_server.c:167`, `SetInit`), logs the launch (170, `LogLaunch`), and
`cmd_launch` reads the handle (496, `ReturnHandle`). Each is a step, and TLC reaches each
with the context freed. `NoUseAfterFree` says that this takes the retirement of the new
service in between, and that no other use is of anything freed.

`Launch` registers the handle and creates the queue in one step, where the code has two:
before init runs only an abort, which retires all handles, knows the new one, and it does not
touch the queue. What is logged, the overload warning, the growth of a ring and of the
slot table, names, the monitor and the harbor are not part of the model.

### Records, AStar and ParkingLot

`Records` is one service of the kind of login, smartlive, smartmanagement or
unattended. `db` is the service's connection, `chan` the socketchannel objects,
`link` the TCP connections with the queries the server has not run (`todo`) and the
answers not yet read (`done`), `pc` where each coroutine stands, `reply` what its
handler answered, `told` what the agent that called it told its client, `ran` what the
server did with its query, each time.

    Handle -> [no db: mysql.connect] -> Lead -> Connected -> wait -> Dispatch -> Resume
           -> [socket gone] -> Lead or Join ---^
           -> [socket there] -> wait

`Handle` ends where the query is written or the coroutine waits for a connection;
`Forward` is the agent's half: nil and false are failures, which only the get
handlers of unattended tell the client; anything else is passed on, but for the `true`
of a visit, on which the gateway's `str_pack` raises: its client is told nothing.
`Connected` writes the queries of all that have waited, in order; `Dispatch` gives
the next answer to the coroutine at the head of `__thread`; `Closed` raises in all
that wait. A step is one message of the service with every coroutine it wakes up,
since `skynet.wakeup` resumes them before the next message. `sock_err`, when a
write fails because the socket is known to be gone, has the effect of a lost write
followed by `Closed`. Authentication is part of a connect that succeeds or fails.

A get handler of smartlive and smartmanagement and a set handler are the same
sequence each; the tables and columns they name are abstracted to whether the
server carries the statement out. So are the get handlers of unattended, except
`get_ten_recent_access_records` (69-94): it never looks at `err`, finds no first row in the
answer to a refused query, and returns an encoded empty list (`Recent`). `smartlive`, `smartmanagement` and `unattended`
connect in `s.init`, before `main.lua` gives them a name, so only login serves
requests without a connection; their own `if not db` is never taken.

`AStar` has `findPath` as an operator from a map and two places to the set of its
results: `pairs` may visit the open nodes in any order, and equal scores are
common. The reference is the breadth-first distance. `ParkingLot` checks it on
every map that `set_parkinglot_record` leads to. That handler changes the map and
then always raises (`parking_car[floor][i]` is never set, unattended:202-205), so
it answers nothing.

## 4. Runs

| run | instance | shows |
|---|---|---|
| agentmgr_safety | 3 players, 4 coroutines, 3 agents, batches of 2, all failures | EntriesMatch, LocalsCurrent, OneAgentPerPlayer, GameIsServed, StatusOrder, NobodyStranded, BatchSuffices, refinement of PlayerLifecycle |
| agentmgr_live | 2 players, 3 coroutines, no failures | EntriesProgress, ShutdownEnds |
| gateway_safety | 1 player, 4 sockets, 2 sessions, 2 messages each of which the second cannot be packed, 2 timers each | InOrder, CacheOnlyOffline, LossOnlyOnDeadSocket, NobodyForgotten |
| session_safety | 1 player, 3 sockets, 2 logins, 2 coroutines of agentmgr, one shutdown, any delays | SessionsStayBacked, AgentsStayHeld, OfflineIsTimed |
| session_pair | 2 players, 2 sockets, 2 logins, any delays | NoCrossTalk, GoneSocketNoticed |
| session_live | 1 player, 2 sockets, 2 logins, any delays | LoginsEnd |
| session_leave | 1 player, 2 sockets, 2 logins, prompt | OfflineLeaves |
| session_offline_login | 1 player, 2 sockets | violated: see Findings |
| scene_safety | 2 players, 2 agents, 2 scenes, 2 calls at a time, 2 foods | KnownBall, ActsOnOwnBall, Synced, FoodCounted, SoundBalls, EntersGranted |
| scene_two | 1 player, 2 agents, 2 scenes | OneScene violated: see Findings |
| mailbox | 2 workers, the socket thread, 3 services, 4 starting situations | InOnePlace, NothingForgotten, RefCounted, NoUseAfterFree, refinement of Inbox, Delivered, Stops |
| records | 2 first logins, or 2 sets and a get, or 2 visits and the daily job, or a visit and a reader of the access records, 1 or 2 broken connections; a map of 9 tiles with 2 sensor messages | InStep, AnswersMatch, Answered, PathsShortest |

session_safety and scene_safety also check `TypeOK`; that of Session contains those of
AgentMgr and Gateway. The types of Mailbox and Records are proved and not run, and those
of AgentMgr with failures too: the runs are spent on what the types do not say.
`NobodyStranded` is run with every failure and exempts the entry whose own launch or node
fails, in that step, so that the failures of others are part of what it says;
`GoneSocketNoticed` is run on two players, who alone can share a socket.

### Bounds

* Two coroutines that act on one entry are enough for each race of agentmgr
  (login against kick, kick against kick, fork against kick); four leave room for
  a shutdown and two kicks meanwhile. Three players and a batch of two (`KickNum` is 1
  where admin passes 3) let a batch end before the table does, with a player who stays.
* Three sockets are a login, a reconnect and one more after it, in Session. In Gateway
  there are four: two logins of the player, the second of which replaces the session, a
  reconnect whose flush raises, and, when the socket of the first login goes and takes the
  conn from the session once more, a reconnect that writes again what the one before has. Two timers on one
  gateplayer are the stale one and the current one; two gateplayers are a session
  and the one that replaces it while a timer still holds the first. In the runs of
  Session one timer of a gateplayer runs at a time, so a stale timer of an earlier
  disconnect is met in gateway_safety only.
* `CacheMax` is 1 where the code has 500: the limit is crossed after one message
  is within it. `MaxSend` of 2 puts a message that can be packed in the cache and behind it
  one that cannot, or writes one and loses one. The Session runs have one player or no
  shutdown, and there `KickNum` is 0.
* `Session` has so few coroutines of agentmgr that all may be waiting; a message
  then stays in the mailbox, where skynet would start a coroutine. This removes
  behaviours, it adds none. Sockets are used once, and requests are bounded, so a
  run may come to a state where nothing is left to do: the deadlock check is off
  in the runs of Session only.
* Two calls of scenes at a time are an enter and a leave, or two enters; two agents
  are two players' or one player's, one after the other. `FoodMax` is 0 where the
  code has 50 and `MaxFood` one more than the most that can be there at once.
* gateway_safety has one player, so that it can have messages and two timers. That two
  players log in over one socket is left to session_pair, where nothing is sent: which
  session names a socket does not depend on messages, but for a flush that raises, which
  Session does not reach (`MaxSend` is 0 and nothing is unpackable); the theorem about
  Gateway covers it. Without the exceptions for shared sockets `GoneSocketNoticed` is
  violated there. The theorems hold for any number.
* Two calls at a time are also all that an overlap takes, and two agents are one whose
  enters overlap and one that finds its ball, or one that leaves nothing behind and its
  successor.
* `Mailbox` starts in one of four situations: one service and messages enough to
  handle some in a row; one that launches another; two of which one may launch a
  third while the other retires it; two that send each other messages. With two workers
  one holds a queue while the other finds the global queue empty, or dispatches the
  same service; the third thread sends from outside. `Share` is what a worker's weight
  makes of the length of a queue: one worker takes one message, the other as many as
  there are.
* `Records`: two coroutines that wait for one connection are a leader and one that
  joins; two broken connections let a request meet a third socket. A map of nine
  tiles has ways round a wall and places without a way. The scenarios share no
  state but the connection, so they are starting situations of one run. The
  parking map alone has no requests: no query depends on it.
* The deadlock check is off in Mailbox, where the threads end, and in Records,
  where the requests are bounded.
* Symmetry is used only in runs without liveness properties.

### Fairness

The skynet scheduler resumes every coroutine whose answer has come, and the timer
wheel fires every timer: `WF` on each resumption, answer and timer. Clients, admin
and failures are never fair. A launch is `SF` in AgentMgr because the few handles
of the instance may all be taken when the others are looked at; skynet has
2^24. `ShutdownEnds` assumes that no more players log in: the shutdown looks at the
table every two seconds, and while players leave and enter it may see too many each time.
`OfflineLeaves` assumes that clients eventually stop trying to log in,
because under `Prompt` a client that never stops would keep every wait from
ending. In Mailbox a thread goes on until it waits (the operating system schedules
it), and the timer thread comes round; a handler need do nothing but return. In
Records a connect ends, a server answers while its connection stands, events of
sockets are handled, and the daily timer comes round: the code has no timeout of
its own on a query, so a server that never answers, on a connection that never
closes, would leave a handler waiting for ever. Gateway and Scene are checked for safety only;
what must happen after a disconnect is checked where agentmgr takes part, in
Session.

## 5. Findings

`session_offline_login` (gateway/init.lua:88). `sure_agent` means to refuse a
client that "登陆过程中已经下线" - went offline while logging in - by looking for
`conns[fd]`. But `disconnect` never removes `conns[fd]`; only `kick` does. In the
counterexample a client connects, sends login and closes its socket;
disconnect returns at line 113 because no player is bound; `sure_agent` then finds
the entry and binds a socket that is gone. The session has a conn, so nothing is
cached and no timer runs: the player stays in GAME until agentmgr is told to
kick it, and a new login of that player runs into the replace branch that raises.

`scene_two` (agent/scene.lua:57). enter answers a player that is in a scene "已在场景"
(already in a scene), but it stores `s.sname` only after the scene has answered.
Two enter lines of one client both find it nil and both succeed, in two scenes.
The agent remembers one; the ball in the other is never removed, and the later
agents of the player are refused in that scene for ever. An enter that the kick
overtakes leaves such a ball too, and so does one that is handled in the two seconds
between the leave of a kick and the exit. There is no fourth way: `SoundBalls`, checked
in `scene_safety` and proved as `BallsSound`; and without one of the three no enter is
refused by a scene (`EntersGranted`).

Read off the code and built into the models as it is: the replace branch of `reqlogin`
raises (agentmgr:37); a failed launch ends in GAME without an agent (agentmgr:52-55),
whose reqkick then raises after storing LOGOUT, which with a raising launch and nodes that
go down is the only way to an entry that nobody ends (`NobodyStranded`); a kick may
overtake the `sure_agent` of the login before it (agentmgr:55), which is the only way in
which sessions and entries part (`SessionsStayBacked`, `AgentsStayHeld`); a timer of an
earlier disconnect may end a later one before its 30 s (gateway:118); a message that
cannot be packed is lost, and in a cache makes every flush raise (gateway:33,179), so that
the player's new socket is deaf and its end goes unnoticed (`InOrder`, `CacheOnlyOffline`, `LossOnlyOnDeadSocket`); a socket on which two logins
succeed serves two players (gateway:93), and disconnect knows only the last; two first
logins open two connections, one of which is never used again (login:35); a refused query
for the recent access records is answered with an empty list (unattended:77-92), the only
answer that the server does not bear out (`AnswersMatch`); one failed insert ends the daily
job of unattended (unattended:59-61), whose comment says that it writes once a day
("一日刷新一次车流数据并写入数据库", unattended:51); a context may be written to, logged and returned
after it is freed (skynet_server.c:167-170,496), if its service is retired while it starts,
and not otherwise (`NoUseAfterFree`).

Met while reading, below the level of the models: `get_garbage_record` of the agent
calls `get_humantemp_record` (agent/smartlive.lua:185); `get_fire_control_record`
calls `get_ten_police_service_records` (agent/smartmanagement.lua:322);
`set_theft_against_record` inserts into `rescue_platform_record`;
`get_ten_police_service_records` selects from `property_guarantee_record`
(smartmanagement:607); three statements read `where LIMIT 10`; the visit record's
strings are not quoted (unattended:213), so that a visit whose direction is the
word in is refused by the server, which leaves `fivemin_in` at 0;
`get_subway_info` and `get_bus_info` use variables that do not exist; `car_in` and
`car_out` are never counted up; the services answer "false", a string, which the
agent takes for success and passes on.

## 6. Proofs

Each module of theorems proves an invariant `Inv` (`Whole` in a session) by three
facts: `Init` implies it, every step keeps it (one lemma for each action), and it
implies the properties. TLC has checked each such invariant on the instance of the
run before it was proved.

### AgentMgr

`AgentMgrProofs` proves, for every set of players, gates, agents and coroutines,
with all failures, from the assumptions `NilAssumption`, `KickNumAssumption`,
`PlayersAssumption` and `FailureAssumption`:

| theorem | statement |
|---|---|
| TypeCorrect | `Spec => []TypeOK` |
| EntriesMatchAlways | `Spec => []EntriesMatch` |
| LocalsStayCurrent | `Spec => []LocalsCurrent` |
| OneAgent | `Spec => []OneAgentPerPlayer` |
| GameServed | `Spec => []GameIsServed` |
| NobodyIsStranded | `Spec => NobodyStranded` |
| StatusOrdered | `Spec => StatusOrder` |
| BatchesSuffice | `Spec => BatchSuffices` |
| Refinement | `Spec => LifecycleSpec` |

The invariants are not inductive one by one. `LocalsCurrent` says that the local
of a resumed coroutine is the entry it left, which needs `EntriesMatch` (a live
object is the entry of its player) and that no other coroutine waits on it;
`OneAgentPerPlayer` needs both to know which object a new agent is stored in and
that a cleared entry had a kicked agent. The inductive invariant is their
conjunction with `TypeOK` and a few facts about coroutines that do not wait
(`Coherent`); one lemma per action shows that it is preserved. StatusOrder and
the refinement are then step lemmas over that invariant: each action either
leaves a player's status and agent alone or makes one move of the abstract
specification.

`NobodyIsStranded` is a progress argument without time: each entry in LOGIN or LOGOUT
has a coroutine that waits for nodemgr or for the agent, and that coroutine, when it
resumes, moves the entry on (`Tended`); no step takes this away unless the launch of the
very entry fails or raises, or the node of its agent is down. It needs `LocalsCurrent` (the
coroutine that resumes holds the entry, so no entry loses its coroutine to another's) and
a lemma for each kind of step saying which entries it may disturb.

`BatchesSuffice` (`Spec => BatchSuffices`, in `AgentMgrProofs`) counts: without
entries in LOGIN every player of the batch is in LOGOUT when the shutdown begins to
wait, so those who stay are within the table less a batch of `KickNum + 1`. It needs
that the table is finite, which `PlayersAssumption` says.

### Gateway

`GatewayProofs` proves, for every set of players, sockets and gateplayers and
for all bounds, from `NilAssumption` and `BoundsAssumption`:

| theorem | statement |
|---|---|
| TypeCorrect | `Spec => []TypeOK` |
| OrderKept | `Spec => []InOrder` |
| CachedOnlyOffline | `Spec => []CacheOnlyOffline` |
| OnlyDeadSocketsLose | `Spec => LossOnlyOnDeadSocket` |
| NobodyIsForgotten | `Spec => NobodyForgotten` |
| GoneSocketsNoticed | `Spec => GoneSocketNoticed` |

Its inductive invariant `Inv` is the conjunction of

* `TypeOK`;
* `Owned`: the gateplayer under a player's name is that player's, so that send,
  kick and the timer act on the session they were called for;
* `Collected`: a gateplayer that neither the table nor a timer holds is blank, so
  that sure_agent starts its session with an empty cache;
* `Ordered(q)` for each gateplayer: messages wait in order; each that was written is
  larger than those before it, or waits ahead of one that cannot be packed; those that were
  written are smaller than those that wait, unless one of these cannot be packed; none is larger
  than `sent`; and what waits while the session has a conn waits behind a flush that
  raised, over a socket whose loop has ended. `InOrder` alone is not inductive: a
  reconnect writes the cache behind `got`, which keeps the order only if the cache was
  behind it already, and send appends a number that is new only if all the others
  are at most `sent`. Each step does one of seven things to a gateplayer (`StepOf`): it
  keeps, empties, resumes or cuts its cache, caches, writes or misses a message.

The first two action properties are then step lemmas over `Inv`: each action either
leaves the count of lost messages (or the sessions adrift) alone or is the one
the property allows. `GoneSocketsNoticed` needs one more invariant, `Named`: a socket
that some session names in its conn has a `conn.playerid`. The two are set by different
handlers (`sure_agent`, `process_reconnect`); disconnect and kick clear the session's half
only, and the socket's half is never cleared. Where `Named` holds, a close finds the session
of the player of its conn, and what is left are the five ways the property names: a
session made over a socket that is gone, a flush that raised, a session without agent whose
line raised, a socket that is another player's by now, and the kick of another session
over it.

### Session

`SessionProofs` and `SessionInvariants` prove, for every set of players, sockets,
gateplayers, agents and coroutines, from `SessionAssumption` (Nil names nothing else,
the players are finitely many, the bounds are numbers):

| theorem | statement |
|---|---|
| Parts | `Spec => []Base /\ MP!Spec /\ GP!Spec` |
| LifecycleKept | `Spec => MP!LifecycleSpec` |
| EntriesInOrder, BatchesSuffice | `Spec => MP!StatusOrder`, `Spec => MP!BatchSuffices` |
| NobodyIsForgotten, GoneSocketsNoticed | `Spec => GP!NobodyForgotten`, `Spec => GoneSocketNoticed` |
| NobodyIsStranded | `Spec => MP!NobodyStranded` |
| TypeCorrect | `Spec => []TypeOK` |
| NoCrossedLines | `Spec => []NoCrossTalk` |
| OfflineTimed | `Spec => []OfflineIsTimed` |
| SessionsKeepEntries | `Spec => SessionsStayBacked` |
| EntriesKeepSessions | `Spec => AgentsStayHeld` |

The proof is compositional. `MP` and `GP` are the proof modules of agentmgr and the
gateway over the session's variables: each step of a session is a step of
AgentMgr and one of Gateway, or leaves the part alone, so their theorems are cited
and not proved again. What a session adds is who sends what. The invariant of
`SessionProofs` is `Base`: those of the parts, and `Wires`,

* `Begun`: a login that is under way has a player and a socket that has connected;
* `OnePlace`: a login waits in one place, for a message of one mailbox or for one
  coroutine of agentmgr;
* `Sent` and `TasksServe`: what it waits for is its own. A `reqlogin` or a launch names
  its player; an answer or a `sure_agent` names an agent that was started for its
  player and has not gone.

`Wires` is what makes the arguments that login and the gateway keep in locals across
calls safe, and it needs the invariants of agentmgr: a coroutine that resumes with an
agent still has the entry of the login it serves (`LocalsCurrent`).

`SessionInvariants` adds `Whole`: a session has an agent of its own player that is in
use (`Owners`, hence NoCrossTalk); a player whose socket is gone has a timer, a
reqkick in the mailbox or an entry in LOGOUT (`AllTimed`); a player in GAME has an agent,
which was started for the player (`GameServed`, `ServedOwned`); and a kick on its way to the
gateway is for an agent that has served: neither the session nor a `sure_agent` ahead of it
has the agent of a later entry (`KicksOld`). No delays are assumed.

The last fact is why a kick never ends the wrong session, and it is what the two action
properties take beside the agents: a launched agent goes from the answer to the message
to the session, or the refused `sure_agent` leaves a reqkick in its place, and the session
of a cleared entry has its kick in the mailbox. A player's session and entry thus stay
together in every step (`PairStays`) but the one that takes a `sure_agent` whose agent the
entry no longer has.

### Scene

`SceneProofs` proves `TypeOK`, `KnownBall`, `ActsOnOwnBall`, `Synced` and `FoodCounted`
(theorems TypeCorrect, SceneKnown, OwnBallOnly, MembersSynced, FoodsCounted) for every
set of players, agents, scenes and calls, from `NilAssumption` and `FoodAssumption`.
`s.sname` and the balls of a scene agree because of the order of the calls in the
mailbox of the scene, which `Inv` makes explicit: an agent that is gone sends no more,
so its calls are ahead of those of the next agent of its player (`Earlier`); the enters
that an agent has sent to the scene it leaves are ahead of the leave (`LeftLast`); an
enter that was granted and not yet answered is the only one for its ball (`Granted`,
`OneGrant`, `GrantedLast`). `FoodCounted` needs that the numbers of foods in the table
are at most `food_maxid` (`Foods`), so that a new food adds one; `Synced` is inductive
given who is a member. That a client may be in two scenes at once (`scene_two`) is no
contradiction: the invariants speak of the scene the agent knows.

`BallsSound` (`HSpec => []SoundBalls`) says when there is no other. Its invariant `HInv`
is `Inv` and, for each agent whose enters never overlapped: there is one enter at most
under way (`OneEnter`), and while there is the agent is up and in no scene (`EnterUp`);
each of its balls is where `s.sname` says, or where the enter under way was granted
(`BallHeld`); and its leave goes to the scene of `s.sname`, whose ball is gone when the
answer has come (`LeavesHere`). So two balls of one agent would be two granted enters,
or one and a scene it is in; two balls of two agents are excluded because only one agent
of a player serves. A step that neither starts an enter nor a leave, nor takes the
answer of one to an agent that serves, is `Calm` and keeps all four.

`EntersAreGranted` (`HSpec => []EntersGranted`) follows from the same invariant: a ball in
the way of such an enter would be of an agent that serves, so of the one that asks; this
agent is in no scene, so the ball is what an enter of its own was granted; and its only
enter is the one that still waits. `HSpec` is Scene with its
history conjoined, so what is proved of `Spec` holds of the runs.

### Mailbox

`MailboxProofs` proves `TypeOK`, `InOnePlace`, `NothingForgotten`, `RefCounted` and
`NoUseAfterFree` (TypeCorrect, OneOwner, NoneForgotten, ReferencesCounted,
NothingFreedUsed), and `MailboxRefinement` proves `Spec => Promise` (KeepsPromise), for
every set of services, workers and other threads, any shares of the workers and any
starting situations, from `ThreadsAssumption`, `StartsAssumption` and `NilAssumption`.
Services and threads are finitely many: a handle has 24 bits. The inductive invariant
has, beside three of the properties,

* `Shape`: what a worker has in its locals follows from where it stands;
* `Queues`: how a queue follows its context: alive while that is, marked for release
  when it is deleted, freed only after that and empty, and a queue with messages is
  flagged as in the global queue or marked;
* `Opened`: a service in the handle table has its `init` set or is still in the hands
  of the thread that launches it, so no message is handled before it is.

`NoUseAfterFree` follows: who holds a reference or a queue holds one that is counted or
flagged, and only a context with no references is freed; a context that is used without a
reference has the one of the handle table, as long as its service is not retired. References are counted with
the cardinality of a set of hands, so each step that takes or gives one back is an
application of the theorems about adding and removing an element. In the refinement a
`push` is a send, `pop` begins a handling, the end of a handler ends it, closing and
launching are themselves, and every other step leaves the waiting messages and the busy
services as they were. That a service handles one message at a time is `InOnePlace`:
its queue is in the hands of one worker.

### Records

`RecordsProofs` proves `TypeOK`, `InStep` and `AnswersMatch` (TypeCorrect,
AnswersInStep, AnswersAreTrue) for any requests and broken connections, from
`RecordsAssumption` and `StartsAssumption`. Requests are finitely many in a run,
as the visits are counted. `InStep` pairs the coroutines that wait on
a channel with the answers and queries of its socket, place by place; it is kept
because two channels have no socket in common (`OneSocket`), one that is connecting has
none and waits for no answer (`Connections`), a socket number that has not been used
has nothing under way (`Unopened`), and a coroutine waits in one place once
(`Waiting`, `OneLeader`, `OneJoined`, `OneWaits`). `AnswersMatch` adds the way of a
query: before it is sent there is no trace of it (`Unasked`), it is under way once
(`OneQuery`), what the server has answered is what it did and stays so (`Done`), what
the handler has said is borne out by it (`Said`), and a visit is counted when its handler answers
"true" (`Visits`).

### Only model-checked

* Liveness: EntriesProgress, ShutdownEnds, LoginsEnd, OfflineLeaves, Delivered, Stops
  and Answered. Fairness and ENABLED are out of the prover's reach.
* `PathsShortest`: `findPath` and the reference distance are recursive operators, and
  what they compute is an induction over the map, which the provers cannot do.
* The two violated properties, which are findings.

Every other property of the runs is stated by a theorem, for all values of the
constants.

## 7. Not modelled

The components listed as `not_modelled` in `PROJECT.json`: startup, the class
library, protobuf and json, the timer wheel, the Lua scheduler and the socket
server, which are vendored or run once before there is a client. Most of the
repository's lines are vendored (jemalloc, Lua, lpeg, cjson, pbc); they are no part
of the server's own logic.

Within the modelled ones: text of messages, logging, the reconnect key (a reconnect
either has the right one or is refused), the password (the query has either
outcome), the cluster transport (a call to another node is a call that may raise),
the SQL of the statements, and `skynet.abort` at the end of stop.

## 8. Plan

1. Done: **AgentMgr**, **Gateway**, **Session**, **Scene**, **Mailbox** with **Inbox**,
   **Records**, **AStar** and **ParkingLot**, modelled and checked; and the proofs of all
   safety properties but `PathsShortest`.
2. Done: what the findings and the raising branches leave true, stated as properties of
   their own and proved: `NobodyStranded`, `GoneSocketNoticed`, `SessionsStayBacked`,
   `AgentsStayHeld`, `SoundBalls`, `EntersGranted`, and the gateway's properties up to the
   messages that cannot be packed.
3. To model, if they come to matter: the coin counter of the agent's `work`, the loop
   in which admin repeats shutdown, the names of services.
