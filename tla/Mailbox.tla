------------------------------ MODULE Mailbox -------------------------------
(***************************************************************************)
(* The C core of skynet that carries every message of this program: the    *)
(* message queues (skynet_mq.c), the contexts of services and the handle   *)
(* table (skynet_server.c, skynet_handle.c), and the worker threads that   *)
(* share one global queue of message queues (skynet_start.c).              *)
(*                                                                         *)
(* A step is what a thread does under one lock, or one atomic operation.   *)
(* Each thread has up to three calls on its stack: a worker dispatches     *)
(* (disp), what it runs may launch or retire a service or drop a queue     *)
(* (op), and that or anything else may send a message (snd).  A thread     *)
(* that gives up the last reference to a context first deletes it          *)
(* (deleting).  The timer and socket threads only send.                    *)
(*                                                                         *)
(* A service is named by its handle, which is never used twice, and so     *)
(* names its context and its message_queue too.  The ring a message_queue  *)
(* keeps is the sequence of its messages.                                  *)
(***************************************************************************)
EXTENDS Integers, Sequences, FiniteSets

CONSTANTS
    Services, \* handles: 24 bits of a number
    Starts,   \* where to begin: the services that have been launched, in
              \* order, those that are gone, and how many messages to send
    Workers,  \* worker threads
    Others,   \* the timer thread and the socket thread
    Share,    \* of each worker: 0 for the weight -1, else 2^weight
    Nil

Threads == Workers \cup Others

ASSUME ThreadsAssumption ==
    /\ Workers \cap Others = {}
    /\ Nil \notin Services \cup Threads
    /\ IsFiniteSet(Services \cup Threads)
    /\ Share \in [Workers -> Nat]

ASSUME StartsAssumption ==
    \A start \in Starts :
        /\ start.launched \in Seq(Services \ start.gone)
        /\ start.gone \subseteq Services
        /\ start.msgs \in Nat
        /\ \A i, j \in DOMAIN start.launched :
               start.launched[i] = start.launched[j] => i = j

(* A message is named by how many were left to send, a report of a drop by *)
(* 0, and carries its source.                                              *)
Ids == {0} \cup UNION {1..start.msgs : start \in Starts}
Messages == [id : Ids, from : Services \cup {Nil}]

ASSUME NilAssumption == Nil \notin Messages

VARIABLES
    slot,     \* is the service in the handle table?
    ctx,      \* skynet_context: is it allocated, its ref and its init
    mq,       \* message_queue: is it allocated, its messages and flags
    globalq,  \* the global queue
    disp,     \* skynet_context_message_dispatch and the loop around it
    op,       \* skynet_context_new, skynet_handle_retire, skynet_mq_release
    snd,      \* skynet_context_push
    deleting, \* the context whose last reference the thread gave up
    quit,     \* monitor.quit
    left      \* bound: messages still to send, reports of drops apart

vars == <<slot, ctx, mq, globalq, disp, op, snd, deleting, quit, left>>
data == <<slot, ctx, mq, globalq>>
rest == <<quit, left>>

NoCtx == [state |-> "none", ref |-> 0, init |-> FALSE]
NoMq == [state |-> "none", msgs |-> <<>>, in_global |-> 0, release |-> 0]
NewMq == [NoMq EXCEPT !.state = "live", !.in_global = 1]
NoOp == [pc |-> "idle", s |-> Nil]
NoSnd == [pc |-> "idle", to |-> Nil, msg |-> Nil]

(* The init function of a Lua service sends it its first message: those    *)
(* that have been launched begin with it.                                  *)
InitFrom(start) ==
    LET Is(s) == \E i \in DOMAIN start.launched : start.launched[i] = s IN
    /\ slot = [s \in Services |-> Is(s)]
    /\ ctx = [s \in Services |->
                 IF Is(s) THEN [state |-> "live", ref |-> 1, init |-> TRUE]
                 ELSE IF s \in start.gone
                 THEN [state |-> "freed", ref |-> 0, init |-> TRUE] ELSE NoCtx]
    /\ mq = [s \in Services |->
                 IF Is(s) THEN [NewMq EXCEPT !.msgs = <<[id |-> 0, from |-> s]>>]
                 ELSE IF s \in start.gone
                 THEN [NoMq EXCEPT !.state = "freed", !.release = 1] ELSE NoMq]
    /\ globalq = start.launched
    /\ left = start.msgs

Init ==
    /\ \E start \in Starts : InitFrom(start)
    /\ disp = [w \in Workers |-> [pc |-> "loop", q |-> Nil, c |-> Nil, nq |-> Nil,
                                  i |-> 0, n |-> 0, msg |-> Nil]]
    /\ op = [t \in Threads |-> NoOp]
    /\ snd = [t \in Threads |-> NoSnd]
    /\ deleting = [t \in Threads |-> Nil]
    /\ quit = FALSE

-----------------------------------------------------------------------------
(* Which of its calls a thread is in: the innermost one runs.              *)

Sending(t) == deleting[t] = Nil /\ snd[t].pc # "idle"
Operating(t) == deleting[t] = Nil /\ snd[t].pc = "idle" /\ op[t].pc # "idle"
Calling(t) == deleting[t] = Nil /\ snd[t].pc = "idle" /\ op[t].pc = "idle"
Dispatching(w) == w \in Workers /\ Calling(w)
InHandler(t) == Dispatching(t) /\ disp[t].pc = "handle"
InInit(t) == Operating(t) /\ op[t].pc = "init"

(* skynet_globalmq_push of s and skynet_globalmq_pop, under Q's lock.      *)
PushGlobal(s) == globalq' = Append(globalq, s)
FirstGlobal == IF globalq = <<>> THEN Nil ELSE Head(globalq)
PopGlobal == globalq' = IF globalq = <<>> THEN <<>> ELSE Tail(globalq)

(* ref of the context of s goes down; who takes it to zero deletes it.     *)
ReleaseBug(t, s) ==
    /\ ctx' = [ctx EXCEPT ![s].ref = @ - 1]
    /\ deleting' = [deleting EXCEPT ![t] = IF ctx[s].ref <= 2 THEN s ELSE Nil]

Release(t, s) ==
    /\ ctx' = [ctx EXCEPT ![s].ref = @ - 1]
    /\ deleting' = [deleting EXCEPT ![t] = IF ctx[s].ref = 1 THEN s ELSE Nil]

(* delete_context: the queue is marked, and if nobody else is to see it    *)
(* again it is put in the global queue for a worker to drop.               *)
DeleteContext(t) ==
    /\ deleting[t] # Nil
    /\ LET s == deleting[t] IN
       /\ mq' = [mq EXCEPT ![s].release = 1]
       /\ ctx' = [ctx EXCEPT ![s].state = "freed"]
       /\ IF mq[s].in_global = 1 THEN UNCHANGED globalq ELSE PushGlobal(s)
    /\ deleting' = [deleting EXCEPT ![t] = Nil]
    /\ UNCHANGED <<slot, disp, op, snd, rest>>

-----------------------------------------------------------------------------
(* skynet_context_push *)

(* skynet_handle_grab finds the context and takes a reference to it.       *)
GrabToSendBug(t, s, m) ==
    /\ slot[s]
    /\ UNCHANGED ctx
    /\ snd' = [snd EXCEPT ![t] = [pc |-> "push", to |-> s, msg |-> m]]

GrabToSend(t, s, m) ==
    /\ slot[s]
    /\ ctx' = [ctx EXCEPT ![s].ref = @ + 1]
    /\ snd' = [snd EXCEPT ![t] = [pc |-> "push", to |-> s, msg |-> m]]

(* A handler, the init function of a service, or the timer or socket       *)
(* thread sends a message.  To a service that is gone it sends nothing.    *)
Send(t, s) ==
    /\ InHandler(t) \/ InInit(t) \/ (t \in Others /\ Calling(t))
    /\ left > 0
    /\ left' = left - 1
    /\ GrabToSend(t, s, [id |-> left,
                         from |-> IF InInit(t) THEN op[t].s
                                  ELSE IF t \in Workers THEN disp[t].c ELSE Nil])
    /\ UNCHANGED <<slot, mq, globalq, disp, op, deleting, quit>>

(* skynet_mq_push                                                          *)
MqPushBug(t) ==
    /\ Sending(t)
    /\ snd[t].pc = "push"
    /\ LET s == snd[t].to IN
       /\ mq' = [mq EXCEPT ![s].msgs = Append(@, snd[t].msg)]
       /\ IF mq[s].in_global = 0 THEN PushGlobal(s) ELSE UNCHANGED globalq
    /\ snd' = [snd EXCEPT ![t].pc = "release"]
    /\ UNCHANGED <<slot, ctx, disp, op, deleting, rest>>

MqPush(t) ==
    /\ Sending(t)
    /\ snd[t].pc = "push"
    /\ LET s == snd[t].to IN
       /\ mq' = [mq EXCEPT ![s].msgs = Append(@, snd[t].msg), ![s].in_global = 1]
       /\ IF mq[s].in_global = 0 THEN PushGlobal(s) ELSE UNCHANGED globalq
    /\ snd' = [snd EXCEPT ![t].pc = "release"]
    /\ UNCHANGED <<slot, ctx, disp, op, deleting, rest>>

Sent(t) ==
    /\ Sending(t)
    /\ snd[t].pc = "release"
    /\ Release(t, snd[t].to)
    /\ snd' = [snd EXCEPT ![t] = NoSnd]
    /\ UNCHANGED <<slot, mq, globalq, disp, op, rest>>

-----------------------------------------------------------------------------
(* skynet_handle_retire and skynet_context_new *)

(* s leaves the table; the reference the table had is released after.      *)
Retire(t, s) ==
    /\ InHandler(t)
    /\ slot[s]
    /\ slot' = [slot EXCEPT ![s] = FALSE]
    /\ op' = [op EXCEPT ![t] = [pc |-> "retire", s |-> s]]
    /\ UNCHANGED <<ctx, mq, globalq, disp, snd, deleting, rest>>

Retired(t) ==
    /\ Operating(t)
    /\ op[t].pc = "retire"
    /\ Release(t, op[t].s)
    /\ op' = [op EXCEPT ![t] = NoOp]
    /\ UNCHANGED <<slot, mq, globalq, disp, snd, rest>>

(* A new context, with a reference for the table and one for the caller,   *)
(* and its queue, which in_global keeps out of the global queue.  The code *)
(* registers the handle and then creates the queue: one step here, for     *)
(* until init runs only an abort, which retires all handles, comes upon    *)
(* this one, and that does not touch the queue.                            *)
Launch(t, s) ==
    /\ InHandler(t)
    /\ ctx[s].state = "none"
    /\ slot' = [slot EXCEPT ![s] = TRUE]
    /\ ctx' = [ctx EXCEPT ![s] = [state |-> "live", ref |-> 2, init |-> FALSE]]
    /\ mq' = [mq EXCEPT ![s] = NewMq]
    /\ op' = [op EXCEPT ![t] = [pc |-> "init", s |-> s]]
    /\ UNCHANGED <<globalq, disp, snd, deleting, rest>>

(* The service's init function succeeds.  The context may be gone by now.  *)
InitOk(t) ==
    /\ Operating(t)
    /\ op[t].pc = "init"
    /\ Release(t, op[t].s)
    /\ op' = [op EXCEPT ![t].pc = IF ctx[op[t].s].ref = 1 THEN "publish" ELSE "ready"]
    /\ UNCHANGED <<slot, mq, globalq, disp, snd, rest>>

(* If the context was there after the release, its init is set, without a  *)
(* reference: a context freed meanwhile is written to.                     *)
SetInit(t) ==
    /\ Operating(t)
    /\ op[t].pc = "ready"
    /\ ctx' = [ctx EXCEPT ![op[t].s].init = TRUE]
    /\ op' = [op EXCEPT ![t].pc = "announce"]
    /\ UNCHANGED <<slot, mq, globalq, disp, snd, deleting, rest>>

(* The queue goes to the workers.  A context that was there is logged and  *)
(* returned, still without a reference.                                    *)
Publish(t) ==
    /\ Operating(t)
    /\ op[t].pc \in {"publish", "announce"}
    /\ PushGlobal(op[t].s)
    /\ op' = [op EXCEPT ![t] = IF op[t].pc = "announce" THEN [@ EXCEPT !.pc = "log"]
                              ELSE NoOp]
    /\ UNCHANGED <<slot, ctx, mq, disp, snd, deleting, rest>>

(* skynet_error reads the handle of the context, and then the caller of    *)
(* skynet_context_new does.                                                *)
LogLaunch(t) ==
    /\ Operating(t)
    /\ op[t].pc = "log"
    /\ op' = [op EXCEPT ![t].pc = "return"]
    /\ UNCHANGED <<data, disp, snd, deleting, rest>>

ReturnHandle(t) ==
    /\ Operating(t)
    /\ op[t].pc = "return"
    /\ op' = [op EXCEPT ![t] = NoOp]
    /\ UNCHANGED <<data, disp, snd, deleting, rest>>

(* It fails: the caller's reference goes, then the handle, then the queue. *)
InitFailed(t) ==
    /\ Operating(t)
    /\ op[t].pc = "init"
    /\ Release(t, op[t].s)
    /\ op' = [op EXCEPT ![t].pc = "undo"]
    /\ UNCHANGED <<slot, mq, globalq, disp, snd, rest>>

UndoRegister(t) ==
    /\ Operating(t)
    /\ op[t].pc = "undo"
    /\ slot' = [slot EXCEPT ![op[t].s] = FALSE]
    /\ op' = [op EXCEPT ![t].pc = IF slot[op[t].s] THEN "undone" ELSE "mqrelease"]
    /\ UNCHANGED <<ctx, mq, globalq, disp, snd, deleting, rest>>

Undone(t) ==
    /\ Operating(t)
    /\ op[t].pc = "undone"
    /\ Release(t, op[t].s)
    /\ op' = [op EXCEPT ![t].pc = "mqrelease"]
    /\ UNCHANGED <<slot, mq, globalq, disp, snd, rest>>

-----------------------------------------------------------------------------
(* skynet_mq_release *)

(* A queue that is not marked goes back: someone still has its context.    *)
MqReleaseBug(t) ==
    /\ Operating(t)
    /\ op[t].pc = "mqrelease"
    /\ op' = [op EXCEPT ![t] = IF mq[op[t].s].release = 1
                              THEN [@ EXCEPT !.pc = "drop"] ELSE NoOp]
    /\ UNCHANGED <<data, disp, snd, deleting, rest>>

MqRelease(t) ==
    /\ Operating(t)
    /\ op[t].pc = "mqrelease"
    /\ IF mq[op[t].s].release = 1
       THEN /\ op' = [op EXCEPT ![t].pc = "drop"]
            /\ UNCHANGED globalq
       ELSE /\ op' = [op EXCEPT ![t] = NoOp]
            /\ PushGlobal(op[t].s)
    /\ UNCHANGED <<slot, ctx, mq, disp, snd, deleting, rest>>

(* _drop_queue: each message is reported to its source, then the queue is  *)
(* freed.                                                                  *)
DropMessage(t) ==
    /\ Operating(t)
    /\ op[t].pc = "drop"
    /\ LET s == op[t].s IN
       /\ mq[s].msgs # <<>>
       /\ mq' = [mq EXCEPT ![s].msgs = Tail(@)]
       /\ LET from == Head(mq[s].msgs).from IN
          \/ /\ from # Nil
             /\ GrabToSend(t, from, [id |-> 0, from |-> s])
          \/ /\ from # Nil => ~slot[from]
             /\ UNCHANGED <<ctx, snd>>
    /\ UNCHANGED <<slot, globalq, disp, op, deleting, rest>>

FreeQueue(t) ==
    /\ Operating(t)
    /\ op[t].pc = "drop"
    /\ mq[op[t].s].msgs = <<>>
    /\ mq' = [mq EXCEPT ![op[t].s].state = "freed", ![op[t].s].in_global = 0]
    /\ op' = [op EXCEPT ![t] = NoOp]
    /\ UNCHANGED <<slot, ctx, globalq, disp, snd, deleting, rest>>

-----------------------------------------------------------------------------
(* thread_worker and skynet_context_message_dispatch *)

(* The worker's loop tests quit.                                           *)
Loop(w) ==
    /\ Dispatching(w)
    /\ disp[w].pc = "loop"
    /\ disp' = [disp EXCEPT ![w].pc = IF quit THEN "exit"
                                      ELSE IF disp[w].q = Nil THEN "fetch" ELSE "take"]
    /\ UNCHANGED <<data, op, snd, deleting, rest>>

(* The worker has no queue: it takes one, to dispatch from at once, or to  *)
(* return with.                                                            *)
Fetch(w) ==
    /\ Dispatching(w)
    /\ disp[w].pc \in {"fetch", "next"}
    /\ PopGlobal
    /\ disp' = [disp EXCEPT ![w].q = FirstGlobal,
                            ![w].pc = IF globalq = <<>> THEN "sleep"
                                      ELSE IF @ = "fetch" THEN "take" ELSE "loop"]
    /\ UNCHANGED <<slot, ctx, mq, op, snd, deleting, rest>>

(* skynet_handle_grab of the queue's service.  If that is gone, the queue  *)
(* is given to skynet_mq_release.                                          *)
Take(w) ==
    /\ Dispatching(w)
    /\ disp[w].pc = "take"
    /\ LET s == disp[w].q IN
       \/ /\ slot[s]
          /\ ctx' = [ctx EXCEPT ![s].ref = @ + 1]
          /\ disp' = [disp EXCEPT ![w].pc = "pop", ![w].c = s, ![w].i = 0, ![w].n = 1]
          /\ UNCHANGED op
       \/ /\ ~slot[s]
          /\ op' = [op EXCEPT ![w] = [pc |-> "mqrelease", s |-> s]]
          /\ disp' = [disp EXCEPT ![w].pc = "next", ![w].q = Nil]
          /\ UNCHANGED ctx
    /\ UNCHANGED <<slot, mq, globalq, snd, deleting, rest>>

(* skynet_mq_pop.  An empty queue is left for the next sender to schedule. *)
MqPop(w) ==
    /\ Dispatching(w)
    /\ disp[w].pc = "pop"
    /\ LET s == disp[w].q IN
       \/ /\ mq[s].msgs = <<>>
          /\ mq' = [mq EXCEPT ![s].in_global = 0]
          /\ disp' = [disp EXCEPT ![w].pc = "empty", ![w].q = Nil]
       \/ /\ mq[s].msgs # <<>>
          /\ mq' = [mq EXCEPT ![s].msgs = Tail(@)]
          /\ disp' = [disp EXCEPT ![w].msg = Head(mq[s].msgs),
                                  ![w].pc = IF disp[w].i = 0 /\ Share[w] > 0
                                            THEN "length" ELSE "handle"]
    /\ UNCHANGED <<slot, ctx, globalq, op, snd, deleting, rest>>

(* skynet_mq_length: how many messages a worker of this weight handles.    *)
MqLength(w) ==
    /\ Dispatching(w)
    /\ disp[w].pc = "length"
    /\ disp' = [disp EXCEPT ![w].pc = "handle",
                            ![w].n = Len(mq[disp[w].q].msgs) \div Share[w]]
    /\ UNCHANGED <<data, op, snd, deleting, rest>>

(* The handler returns.                                                    *)
Handled(w) ==
    /\ InHandler(w)
    /\ disp' = [disp EXCEPT ![w].pc = IF disp[w].i + 1 < disp[w].n THEN "pop" ELSE "yield",
                            ![w].i = @ + 1, ![w].msg = Nil]
    /\ UNCHANGED <<data, op, snd, deleting, rest>>

(* The next queue if there is one; then this one goes to the end.          *)
Yield(w) ==
    /\ Dispatching(w)
    /\ disp[w].pc = "yield"
    /\ PopGlobal
    /\ disp' = [disp EXCEPT ![w].nq = FirstGlobal,
                            ![w].pc = IF globalq = <<>> THEN "done" ELSE "back"]
    /\ UNCHANGED <<slot, ctx, mq, op, snd, deleting, rest>>

PushBackBug(w) ==
    /\ Dispatching(w)
    /\ disp[w].pc = "back"
    /\ disp' = [disp EXCEPT ![w].pc = "done", ![w].q = disp[w].nq, ![w].nq = Nil]
    /\ UNCHANGED <<slot, ctx, mq, globalq, op, snd, deleting, rest>>

PushBack(w) ==
    /\ Dispatching(w)
    /\ disp[w].pc = "back"
    /\ PushGlobal(disp[w].q)
    /\ disp' = [disp EXCEPT ![w].pc = "done", ![w].q = disp[w].nq, ![w].nq = Nil]
    /\ UNCHANGED <<slot, ctx, mq, op, snd, deleting, rest>>

(* skynet_context_release, and back to the loop or to globalmq_pop.        *)
Finish(w) ==
    /\ Dispatching(w)
    /\ disp[w].pc \in {"done", "empty"}
    /\ Release(w, disp[w].c)
    /\ disp' = [disp EXCEPT ![w].c = Nil, ![w].i = 0, ![w].n = 0,
                            ![w].pc = IF @ = "done" THEN "loop" ELSE "next"]
    /\ UNCHANGED <<slot, mq, globalq, op, snd, rest>>

(* With the mutex locked the worker waits, unless it is to quit.           *)
SleepBug(w) ==
    /\ Dispatching(w)
    /\ disp[w].pc = "sleep"
    /\ disp' = [disp EXCEPT ![w].pc = "wait"]
    /\ UNCHANGED <<data, op, snd, deleting, rest>>

Sleep(w) ==
    /\ Dispatching(w)
    /\ disp[w].pc = "sleep"
    /\ disp' = [disp EXCEPT ![w].pc = IF quit THEN "loop" ELSE "wait"]
    /\ UNCHANGED <<data, op, snd, deleting, rest>>

-----------------------------------------------------------------------------
(* thread_timer *)

NoContexts == \A s \in Services : ctx[s].state # "live"

(* Every 2.5 ms, if a worker sleeps, one is woken.  The socket thread      *)
(* wakes one only if all sleep, and the system may wake one for no reason: *)
(* the same step.                                                          *)
WakeUp == /\ ~quit
          /\ \E w \in Workers :
                /\ disp[w].pc = "wait"
                /\ disp' = [disp EXCEPT ![w].pc = "loop"]
          /\ UNCHANGED <<data, op, snd, deleting, rest>>

(* When no context is left the workers are told to quit.                   *)
Quit ==
    /\ ~quit
    /\ NoContexts
    /\ quit' = TRUE
    /\ disp' = [w \in Workers |-> IF disp[w].pc = "wait"
                                  THEN [disp[w] EXCEPT !.pc = "loop"] ELSE disp[w]]
    /\ UNCHANGED <<data, op, snd, deleting, left>>

-----------------------------------------------------------------------------
Running(t) == DeleteContext(t) \/ MqPush(t) \/ Sent(t)

Operation(t) ==
    \/ Retired(t) \/ InitOk(t) \/ InitFailed(t) \/ SetInit(t) \/ Publish(t)
    \/ LogLaunch(t) \/ ReturnHandle(t)
    \/ UndoRegister(t) \/ Undone(t) \/ MqRelease(t) \/ DropMessage(t) \/ FreeQueue(t)

Dispatch(w) ==
    \/ Loop(w) \/ Fetch(w) \/ Take(w) \/ MqPop(w) \/ MqLength(w) \/ Handled(w)
    \/ Yield(w) \/ PushBack(w) \/ Finish(w) \/ Sleep(w)

Request(t) == \E s \in Services : Send(t, s) \/ Retire(t, s) \/ Launch(t, s)

Next == \/ \E t \in Threads : Running(t) \/ Operation(t) \/ Request(t)
        \/ \E w \in Workers : Dispatch(w)
        \/ WakeUp \/ Quit

(* A thread goes on, and the timer thread comes round; that a handler does *)
(* anything but return is up to it.                                        *)
Fairness == /\ \A w \in Workers : WF_vars(Running(w) \/ Operation(w) \/ Dispatch(w))
            /\ \A t \in Others : WF_vars(Running(t))
            /\ WF_vars(WakeUp)
            /\ WF_vars(Quit)

Spec == Init /\ [][Next]_vars /\ Fairness

-----------------------------------------------------------------------------
(* Properties *)

Contexts == [state : {"none", "live", "freed"}, ref : Nat, init : BOOLEAN]
MessageQueues == [state : {"none", "live", "freed"}, msgs : Seq(Messages),
                  in_global : {0, 1}, release : {0, 1}]
Dispatches == [pc : {"loop", "fetch", "take", "pop", "length", "handle", "yield",
                     "back", "done", "empty", "next", "sleep", "wait", "exit"},
               q : Services \cup {Nil}, c : Services \cup {Nil},
               nq : Services \cup {Nil}, i : Nat, n : Nat, msg : Messages \cup {Nil}]
Operations == [pc : {"idle", "retire", "init", "ready", "publish", "announce", "log",
                     "return", "undo", "undone", "mqrelease", "drop"}, s : Services \cup {Nil}]
Sends == [pc : {"idle", "push", "release"}, to : Services \cup {Nil},
          msg : Messages \cup {Nil}]

(* Every variable has its type.                                            *)
TypeOK ==
    /\ slot \in [Services -> BOOLEAN]
    /\ ctx \in [Services -> Contexts]
    /\ mq \in [Services -> MessageQueues]
    /\ globalq \in Seq(Services)
    /\ disp \in [Workers -> Dispatches]
    /\ op \in [Threads -> Operations]
    /\ snd \in [Threads -> Sends]
    /\ deleting \in [Threads -> Services \cup {Nil}]
    /\ quit \in BOOLEAN
    /\ left \in Ids

(* The operations of a thread that have a message_queue to themselves,     *)
(* those that have a reference to a context, and those that use a context  *)
(* they have none to.                                                      *)
OwnsQueue(t) == op[t].pc \notin {"idle", "retire", "log", "return"}
OwnsRef(t) == op[t].pc \in {"init", "retire", "undone"}
Unreferenced(t) == op[t].pc \in {"ready", "log", "return"}

(* Where a thread may hold a message_queue: a worker in q or nq, a thread  *)
(* that launches its service or drops it in op.                            *)
Hands == ({"q", "nq"} \X Workers) \cup ({"op"} \X Threads)
Held(h) == CASE h[1] = "q" -> disp[h[2]].q
             [] h[1] = "nq" -> disp[h[2]].nq
             [] h[1] = "op" -> IF OwnsQueue(h[2]) THEN op[h[2]].s ELSE Nil

InGlobal(s) == \E i \in DOMAIN globalq : globalq[i] = s
InHand(s) == \E h \in Hands : Held(h) = s
Flagged(s) == /\ mq[s].state = "live"
              /\ mq[s].in_global = 1 \/ mq[s].release = 1

(* "0 means mq is not in global mq; 1 means mq is in global mq, or the     *)
(* message is dispatching" (skynet_mq.c:14), as the code keeps it: a queue *)
(* is in one place if it is flagged or marked for release, else in none.   *)
InOnePlace ==
    /\ \A i, j \in DOMAIN globalq : globalq[i] = globalq[j] => i = j
    /\ \A g, h \in Hands : Held(g) # Nil /\ Held(g) = Held(h) => g = h
    /\ \A s \in Services : /\ ~(InGlobal(s) /\ InHand(s))
                           /\ InGlobal(s) \/ InHand(s) <=> Flagged(s)

(* A queue that no worker will come across has no message.                 *)
NothingForgotten ==
    \A s \in Services : mq[s].msgs # <<>> => InGlobal(s) \/ InHand(s)

(* Where a reference to a context may be: in the handle table, or with a   *)
(* thread that launches or retires its service, sends to it or runs it.    *)
Refs == ({"table"} \X Services) \cup ({"op", "snd"} \X Threads) \cup ({"disp"} \X Workers)
RefOf(h) == CASE h[1] = "table" -> IF slot[h[2]] THEN h[2] ELSE Nil
              [] h[1] = "op" -> IF OwnsRef(h[2]) THEN op[h[2]].s ELSE Nil
              [] h[1] = "snd" -> snd[h[2]].to
              [] h[1] = "disp" -> disp[h[2]].c
Holders(s) == {h \in Refs : RefOf(h) = s}

(* ref counts the references that exist: a context is not deleted while    *)
(* one is left, nor kept when none is, and deleted by one thread only.     *)
RefCounted ==
    /\ \A s \in Services : ctx[s].ref = Cardinality(Holders(s))
    /\ \A t, u \in Threads : deleting[t] # Nil /\ deleting[t] = deleting[u] => t = u
    /\ \A s \in Services : ctx[s].state = "live" /\ ctx[s].ref = 0
                          <=> \E t \in Threads : deleting[t] = s

(* No thread uses a context or a queue that has been freed, but for three  *)
(* uses of a launched context whose reference was given up before them:    *)
(* skynet_context_new sets init (skynet_server.c:167) and logs (170), and  *)
(* cmd_launch reads the handle (496).  They meet a freed context only if   *)
(* the new service was retired in between.                                 *)
NoUseAfterFree ==
    /\ \A t \in Threads :
           /\ snd[t].to # Nil => /\ ctx[snd[t].to].state = "live"
                                /\ mq[snd[t].to].state = "live"
           /\ OwnsRef(t) => ctx[op[t].s].state = "live"
           /\ Unreferenced(t) => ctx[op[t].s].state = "live" \/ ~slot[op[t].s]
           /\ OwnsQueue(t) => mq[op[t].s].state = "live"
           /\ deleting[t] # Nil => /\ ctx[deleting[t]].state = "live"
                                  /\ mq[deleting[t]].state = "live"
    /\ \A w \in Workers :
           /\ disp[w].c # Nil => ctx[disp[w].c].state = "live"
           /\ \A s \in {disp[w].q, disp[w].nq} \ {Nil} : mq[s].state = "live"
    /\ \A i \in DOMAIN globalq : mq[globalq[i]].state = "live"

(* The threads keep the promise of Inbox: each service handles its         *)
(* messages in order, one at a time, each once, only after its init and    *)
(* never after its context is deleted (skynet_server.c:263 asserts init).  *)
Busy(s) == {w \in Workers : disp[w].c = s /\ disp[w].msg # Nil}
inbox == [s \in Services |-> mq[s].msgs]
busy == [s \in Services |-> IF Busy(s) = {} THEN Nil
                            ELSE disp[CHOOSE w \in Busy(s) : TRUE].msg]
phase == [s \in Services |-> IF mq[s].release = 1 THEN "closed"
                             ELSE IF mq[s].state = "none" THEN "none"
                             ELSE IF ctx[s].init THEN "open" ELSE "starting"]
I == INSTANCE Inbox WITH inbox <- inbox, busy <- busy, phase <- phase
Promise == I!Spec

(* What waits in a queue is handled or dropped, or the system stops.       *)
Delivered ==
    \A s \in Services : (mq[s].msgs # <<>>) ~> (mq[s].msgs = <<>> \/ quit)

(* When the last service is gone all workers end, and no wake-up is lost.  *)
Stops == NoContexts ~> \A w \in Workers : disp[w].pc = "exit"
=============================================================================
