------------------------- MODULE MailboxRefinement --------------------------
(***************************************************************************)
(* Mailbox implements Inbox, for any services, threads and shares: each    *)
(* step of a thread is one of Inbox or leaves what Inbox sees as it was.   *)
(***************************************************************************)
EXTENDS MailboxProofs

USE DEF Contexts, MessageQueues, Dispatches, Operations, Sends

(* A service is handled by one worker, for that one holds its queue: what  *)
(* busy has is the message of this worker.                                 *)
LEMMA OneBusy ==
    ASSUME Inv, NEW s \in Services, NEW w \in Busy(s)
    PROVE  /\ disp[w].q = s
           /\ Busy(s) = {w}
           /\ busy[s] = disp[w].msg
<1>1. ASSUME NEW v \in Busy(s)
      PROVE  v \in Workers /\ disp[v].q = s /\ disp[v].msg # Nil
  BY DEF Busy, Inv, Shape, DispShape
<1>2. ASSUME NEW v \in Busy(s) PROVE v = w
  <2>1. /\ <<"q", v>> \in Hands /\ <<"q", w>> \in Hands
        /\ Held(<<"q", v>>) = s /\ Held(<<"q", w>>) = s
    BY <1>1 DEF Hands, Held
  <2>2. <<"q", v>> = <<"q", w>>
    BY <2>1, ThreadsAssumption DEF Inv, InOnePlace
  <2> QED
    BY <2>2
<1>3. Busy(s) = {w}
  BY <1>2
<1>4. busy[s] = disp[CHOOSE v \in Busy(s) : TRUE].msg
  BY <1>3 DEF busy
<1>5. (CHOOSE v \in Busy(s) : TRUE) = w
  BY <1>3
<1> QED
  BY <1>1, <1>3, <1>4, <1>5

(* What Inbox sees of a service no worker handles.                         *)
LEMMA NotBusy ==
    ASSUME NEW s \in Services
    PROVE  /\ (\A w \in Workers : disp[w].c = s => disp[w].msg = Nil) => busy[s] = Nil
           /\ (\A w \in Workers : disp'[w].c = s => disp'[w].msg = Nil) => busy'[s] = Nil
<1>1. (\A w \in Workers : disp[w].c = s => disp[w].msg = Nil) => Busy(s) = {}
  BY DEF Busy
<1>2. (\A w \in Workers : disp'[w].c = s => disp'[w].msg = Nil) => Busy(s)' = {}
  BY DEF Busy
<1> QED
  BY <1>1, <1>2 DEF busy

(* Steps that change none of the messages that wait.                       *)
LEMMA InboxKept ==
    ASSUME \A s \in Services : mq'[s].msgs = mq[s].msgs
    PROVE  inbox' = inbox
BY DEF inbox

(* Steps that change none of those that are handled.                       *)
LEMMA BusyKept ==
    ASSUME \A w \in Workers : /\ disp'[w].msg = disp[w].msg
                              /\ disp[w].msg # Nil => disp'[w].c = disp[w].c
    PROVE  busy' = busy
<1>1. ASSUME NEW s \in Services PROVE busy'[s] = busy[s]
  <2>1. Busy(s)' = Busy(s)
    BY DEF Busy
  <2>2. CASE Busy(s) = {}
    BY <2>1, <2>2 DEF busy
  <2>3. CASE Busy(s) # {}
    <3> DEFINE w == CHOOSE v \in Busy(s) : TRUE
    <3>1. w \in Busy(s) /\ w \in Workers
      BY <2>3 DEF Busy
    <3>2. busy[s] = disp[w].msg /\ busy'[s] = disp'[w].msg
      BY <2>1, <2>3 DEF busy
    <3> QED
      BY <3>1, <3>2
  <2> QED
    BY <2>2, <2>3
<1>2. busy = [s \in Services |-> busy[s]] /\ busy' = [s \in Services |-> busy'[s]]
  BY DEF busy
<1> QED
  BY <1>1, <1>2

(* Steps that open and close no service.                                   *)
LEMMA PhaseKept ==
    ASSUME \A s \in Services :
               /\ mq'[s].release = mq[s].release
               /\ mq[s].release = 1 \/ /\ mq'[s].state = mq[s].state
                                       /\ ctx'[s].init = ctx[s].init
    PROVE  phase' = phase
<1>1. ASSUME NEW s \in Services PROVE phase'[s] = phase[s]
  BY DEF phase
<1>2. phase = [s \in Services |-> phase[s]] /\ phase' = [s \in Services |-> phase'[s]]
  BY DEF phase
<1> QED
  BY <1>1, <1>2

-----------------------------------------------------------------------------
(* What one step of Mailbox is to Inbox.                                   *)
Seen == I!Next \/ UNCHANGED <<inbox, busy, phase>>

(* The beginning.                                                          *)
LEMMA InitSeen == Init => I!Init
<1> SUFFICES ASSUME Init PROVE I!Init
  OBVIOUS
<1>1. PICK start \in Starts : InitFrom(start)
  BY DEF Init
<1> DEFINE Is(s) == \E i \in DOMAIN start.launched : start.launched[i] = s
<1>2. busy = [s \in Services |-> Nil]
  BY DEF Init, busy, Busy
<1>3. ASSUME NEW s \in Services
      PROVE  /\ phase[s] \in {"none", "open", "closed"}
             /\ phase[s] # "open" => inbox[s] = <<>>
  <2>1. /\ NoMq.state = "none" /\ NoMq.msgs = <<>> /\ NoMq.release = 0
    BY DEF NoMq
  <2>2. /\ NewMq.state = "live" /\ NewMq.release = 0
    BY <2>1 DEF NewMq, NoMq
  <2>3. CASE Is(s)
    <3> DEFINE q == [NewMq EXCEPT !.msgs = <<[id |-> 0, from |-> s]>>]
    <3>1. mq[s] = q /\ ctx[s].init
      BY <1>1, <2>3 DEF InitFrom
    <3>2. q.state = "live" /\ q.release = 0
      BY <2>2 DEF NewMq, NoMq
    <3> HIDE DEF q
    <3> QED
      BY <3>1, <3>2 DEF phase
  <2>4. CASE ~Is(s) /\ s \in start.gone
    <3> DEFINE q == [NoMq EXCEPT !.state = "freed", !.release = 1]
    <3>1. mq[s] = q
      BY <1>1, <2>4 DEF InitFrom
    <3>2. q.release = 1 /\ q.msgs = <<>>
      BY <2>1 DEF NoMq
    <3> HIDE DEF q
    <3> QED
      BY <3>1, <3>2 DEF phase, inbox
  <2>5. CASE ~Is(s) /\ s \notin start.gone
    <3>1. mq[s] = NoMq
      BY <1>1, <2>5 DEF InitFrom
    <3> QED
      BY <2>1, <3>1 DEF phase, inbox
  <2> QED
    BY <2>3, <2>4, <2>5
<1>4. phase = [s \in Services |-> phase[s]]
  BY DEF phase
<1>5. phase \in [Services -> {"none", "open", "closed"}]
  BY <1>3, <1>4
<1> QED
  BY <1>2, <1>3, <1>5 DEF I!Init

(* Steps that touch neither queues nor contexts, but to count references,  *)
(* nor what a worker handles.                                              *)
LEMMA Unseen ==
    ASSUME \A s \in Services :
               /\ mq'[s].msgs = mq[s].msgs /\ mq'[s].release = mq[s].release
               /\ mq[s].release = 1 \/ mq'[s].state = mq[s].state
               /\ ctx'[s].init = ctx[s].init,
           \A w \in Workers : /\ disp'[w].msg = disp[w].msg
                              /\ disp[w].msg # Nil => disp'[w].c = disp[w].c
    PROVE  Seen
<1>1. inbox' = inbox
  BY InboxKept
<1>2. busy' = busy
  BY BusyKept
<1>3. phase' = phase
  BY PhaseKept
<1> QED
  BY <1>1, <1>2, <1>3 DEF Seen

(* The queue of a message that is sent is one its service will get: the    *)
(* sender has a reference to the context.                                  *)
LEMMA MqPushSeen ==
    ASSUME Inv, NEW t \in Threads, MqPush(t)
    PROVE  Seen
<1> DEFINE s == snd[t].to
           m == snd[t].msg
<1>1. Live(s) /\ s \in Services /\ m \in Messages
  BY MayUse DEF MqPush, Live, Inv, Shape
<1>2. /\ mq' = [mq EXCEPT ![s].msgs = Append(@, m), ![s].in_global = 1]
      /\ UNCHANGED <<ctx, disp>>
      /\ mq \in [Services -> MessageQueues]
  BY DEF MqPush, Inv, TypeOK
<1> HIDE DEF s, m
<1>3. /\ mq'[s].msgs = Append(mq[s].msgs, m)
      /\ \A x \in Services : mq'[x].release = mq[x].release /\ mq'[x].state = mq[x].state
      /\ \A x \in Services \ {s} : mq'[x] = mq[x]
  BY <1>1, <1>2
<1>4. phase[s] \in {"starting", "open"}
  BY <1>1 DEF phase, Live
<1>5. inbox' = [inbox EXCEPT ![s] = Append(@, m)]
  BY <1>1, <1>3 DEF inbox
<1>6. busy' = busy /\ phase' = phase
  BY <1>2, <1>3, BusyKept, PhaseKept
<1>7. I!Send(s, m)
  BY <1>4, <1>5, <1>6 DEF I!Send
<1> QED
  BY <1>1, <1>7 DEF Seen, I!Next

(* A service is deleted when no worker has its context.                    *)
LEMMA DeleteContextSeen ==
    ASSUME Inv, NEW t \in Threads, DeleteContext(t)
    PROVE  Seen
<1> DEFINE s == deleting[t]
<1>1. Live(s) /\ s \in Services /\ s # Nil /\ ctx[s].ref = 0
  BY MayUse DEF DeleteContext, Live
<1>2. /\ mq' = [mq EXCEPT ![s].release = 1]
      /\ ctx' = [ctx EXCEPT ![s].state = "freed"]
      /\ UNCHANGED disp
      /\ mq \in [Services -> MessageQueues] /\ ctx \in [Services -> Contexts]
  BY DEF DeleteContext, Inv, TypeOK
<1> HIDE DEF s
<1>3. /\ mq'[s].release = 1
      /\ \A x \in Services : mq'[x].msgs = mq[x].msgs /\ ctx'[x].init = ctx[x].init
      /\ \A x \in Services \ {s} : mq'[x] = mq[x]
  BY <1>1, <1>2
<1>4. phase[s] \in {"starting", "open"}
  BY <1>1 DEF phase, Live
<1>5. busy[s] = Nil
  <2>1. \A w \in Workers : disp[w].c # s
    BY <1>1, MayUse
  <2> QED
    BY <1>1, <2>1, NotBusy
<1>6. phase' = [phase EXCEPT ![s] = "closed"]
  BY <1>1, <1>3 DEF phase
<1>7. inbox' = inbox /\ busy' = busy
  BY <1>2, <1>3, InboxKept, BusyKept
<1>8. I!Close(s)
  BY <1>4, <1>5, <1>6, <1>7 DEF I!Close
<1> QED
  BY <1>1, <1>8 DEF Seen, I!Next

(* A launched service is open when its init is set, unless it has been     *)
(* deleted by then.                                                        *)
LEMMA SetInitSeen ==
    ASSUME Inv, NEW t \in Threads, SetInit(t)
    PROVE  Seen
<1> DEFINE s == op[t].s
<1>1. s \in Services /\ Flagged(s)
  BY MayUse DEF SetInit, OwnsQueue
<1>2. /\ UNCHANGED <<mq, disp>>
      /\ ctx' = [ctx EXCEPT ![s].init = TRUE]
      /\ ctx \in [Services -> Contexts]
  BY DEF SetInit, Inv, TypeOK
<1> HIDE DEF s
<1>3. ctx'[s].init /\ \A x \in Services \ {s} : ctx'[x] = ctx[x]
  BY <1>1, <1>2
<1>4. inbox' = inbox /\ busy' = busy
  BY <1>2, InboxKept, BusyKept
<1>5. CASE mq[s].release = 1 \/ ctx[s].init
  <2>1. phase' = phase
    BY <1>2, <1>3, <1>5, PhaseKept
  <2> QED
    BY <1>4, <2>1 DEF Seen
<1>6. CASE mq[s].release # 1 /\ ~ctx[s].init
  <2>1. phase[s] = "starting"
    BY <1>1, <1>6 DEF phase, Flagged
  <2>2. phase' = [phase EXCEPT ![s] = "open"]
    BY <1>1, <1>2, <1>3, <1>6 DEF phase, Flagged
  <2>3. I!Open(s)
    BY <1>4, <2>1, <2>2 DEF I!Open
  <2> QED
    BY <1>1, <2>3 DEF Seen, I!Next
<1> QED
  BY <1>5, <1>6

(* A service that is launched starts.                                      *)
LEMMA LaunchSeen ==
    ASSUME Inv, NEW t \in Threads, NEW s \in Services, Launch(t, s)
    PROVE  Seen
<1>1. /\ ctx[s].state = "none" /\ mq[s] = NoMq
      /\ mq' = [mq EXCEPT ![s] = NewMq]
      /\ ctx' = [ctx EXCEPT ![s] = [state |-> "live", ref |-> 2, init |-> FALSE]]
      /\ UNCHANGED disp
      /\ mq \in [Services -> MessageQueues] /\ ctx \in [Services -> Contexts]
  BY DEF Launch, Inv, TypeOK, Queues, Follows
<1>2. /\ NoMq.state = "none" /\ NoMq.msgs = <<>> /\ NoMq.release = 0
      /\ NewMq.state = "live" /\ NewMq.msgs = <<>> /\ NewMq.release = 0
  BY DEF NewMq, NoMq
<1>3. /\ mq'[s] = NewMq /\ ~ctx'[s].init
      /\ \A x \in Services \ {s} : mq'[x] = mq[x] /\ ctx'[x] = ctx[x]
  BY <1>1
<1>4. phase[s] = "none"
  BY <1>1, <1>2 DEF phase
<1>5. phase' = [phase EXCEPT ![s] = "starting"]
  <2>1. phase'[s] = "starting"
    BY <1>2, <1>3 DEF phase
  <2>2. \A x \in Services \ {s} : phase'[x] = phase[x]
    BY <1>3 DEF phase
  <2>3. phase = [x \in Services |-> phase[x]] /\ phase' = [x \in Services |-> phase'[x]]
    BY DEF phase
  <2> QED
    BY <2>1, <2>2, <2>3
<1>6. inbox' = inbox /\ busy' = busy
  BY <1>1, <1>2, <1>3, InboxKept, BusyKept
<1>7. I!Start(s)
  BY <1>4, <1>5, <1>6 DEF I!Start
<1> QED
  BY <1>7 DEF Seen, I!Next

(* A queue that is dropped is a closed service's.                          *)
LEMMA DropMessageSeen ==
    ASSUME Inv, NEW t \in Threads, DropMessage(t)
    PROVE  Seen
<1> DEFINE s == op[t].s
<1>1. s \in Services /\ mq[s].release = 1 /\ mq[s].msgs # <<>>
  <2>1. op[t].pc = "drop" /\ mq[s].msgs # <<>>
    BY DEF DropMessage
  <2> QED
    BY <2>1, MayUse DEF Inv, Queues
<1>2. /\ mq' = [mq EXCEPT ![s].msgs = Tail(@)]
      /\ UNCHANGED disp
      /\ mq \in [Services -> MessageQueues] /\ ctx \in [Services -> Contexts]
  BY DEF DropMessage, Inv, TypeOK
<1>3. \A x \in Services : ctx'[x].init = ctx[x].init
  <2>1. \/ \E y : ctx' = [ctx EXCEPT ![y].ref = @ + 1]
        \/ ctx' = ctx
    BY DEF DropMessage, GrabToSend
  <2>2. ASSUME NEW y, ctx' = [ctx EXCEPT ![y].ref = @ + 1], NEW x \in Services
        PROVE  ctx'[x].init = ctx[x].init
    <3>1. ctx[x] \in Contexts
      BY <1>2
    <3>2. x = y => ctx'[x] = [ctx[x] EXCEPT !.ref = @ + 1]
      BY <1>2, <2>2
    <3>3. x # y => ctx'[x] = ctx[x]
      BY <1>2, <2>2
    <3> QED
      BY <3>1, <3>2, <3>3
  <2> QED
    BY <2>1, <2>2
<1> HIDE DEF s
<1>4. /\ mq'[s].msgs = Tail(mq[s].msgs)
      /\ \A x \in Services : mq'[x].release = mq[x].release /\ mq'[x].state = mq[x].state
      /\ \A x \in Services \ {s} : mq'[x] = mq[x]
  BY <1>1, <1>2
<1>5. phase[s] = "closed" /\ inbox[s] # <<>>
  BY <1>1 DEF phase, inbox
<1>6. inbox' = [inbox EXCEPT ![s] = Tail(@)]
  BY <1>1, <1>4 DEF inbox
<1>7. busy' = busy /\ phase' = phase
  BY <1>2, <1>3, <1>4, BusyKept, PhaseKept
<1>8. I!Drop(s)
  BY <1>5, <1>6, <1>7 DEF I!Drop
<1> QED
  BY <1>1, <1>8 DEF Seen, I!Next

(* A worker takes a message: the service is open and no other worker has   *)
(* one of its messages.                                                    *)
LEMMA MqPopSeen ==
    ASSUME Inv, NEW w \in Workers, MqPop(w)
    PROVE  Seen
<1>1. /\ disp[w] \in Dispatches /\ DispShape(disp[w], w) /\ disp[w].pc = "pop"
      /\ disp \in [Workers -> Dispatches]
      /\ ctx' = ctx
      /\ mq \in [Services -> MessageQueues]
  BY DEF MqPop, Inv, TypeOK, Shape
<1>2. PICK s \in Services : s # Nil /\ disp[w].q = s /\ disp[w].c = s /\ disp[w].msg = Nil
  BY <1>1 DEF DispShape
<1> DEFINE ms == mq[s].msgs
<1>3. Live(s) /\ ms \in Seq(Messages) /\ ctx[s].init
  BY SMTT(30), <1>1, <1>2, MayUse DEF Inv, Opened
<1>4. CASE ms = <<>>
  <2>1. /\ mq' = [mq EXCEPT ![s].in_global = 0]
        /\ disp' = [disp EXCEPT ![w].pc = "empty", ![w].q = Nil]
    BY <1>2, <1>4 DEF MqPop
  <2>2. \A x \in Services : /\ mq'[x].msgs = mq[x].msgs /\ mq'[x].release = mq[x].release
                            /\ mq'[x].state = mq[x].state /\ ctx'[x].init = ctx[x].init
    BY <1>1, <1>2, <2>1
  <2>3. \A v \in Workers : disp'[v].msg = disp[v].msg /\ disp'[v].c = disp[v].c
    BY <1>1, <2>1
  <2> QED
    BY <2>2, <2>3, Unseen
<1>5. CASE ms # <<>>
  <2>1. /\ mq' = [mq EXCEPT ![s].msgs = Tail(@)]
        /\ disp' = [disp EXCEPT ![w].msg = Head(ms),
                                ![w].pc = IF disp[w].i = 0 /\ Share[w] > 0
                                          THEN "length" ELSE "handle"]
    BY <1>2, <1>5 DEF MqPop
  <2>2. Head(ms) # Nil
    BY <1>3, <1>5, HeadTailProperties, NilAssumption
  <2>3. /\ mq'[s].msgs = Tail(mq[s].msgs)
        /\ \A x \in Services : mq'[x].release = mq[x].release /\ mq'[x].state = mq[x].state
        /\ \A x \in Services \ {s} : mq'[x] = mq[x]
    BY <1>1, <1>2, <2>1
  <2>4. /\ disp'[w].msg = Head(ms) /\ disp'[w].c = s
        /\ \A v \in Workers \ {w} : disp'[v] = disp[v]
    BY <1>1, <1>2, <2>1
  <2>5. Busy(s) = {}
    <3> SUFFICES ASSUME NEW v \in Busy(s) PROVE FALSE
      OBVIOUS
    <3>1. v \in Workers /\ disp[v].q = s /\ disp[v].msg # Nil
      BY <1>2, OneBusy DEF Busy
    <3>2. /\ <<"q", v>> \in Hands /\ <<"q", w>> \in Hands
          /\ Held(<<"q", v>>) = s /\ Held(<<"q", w>>) = s
      BY <1>2, <3>1 DEF Hands, Held
    <3>3. <<"q", v>> = <<"q", w>>
      BY <1>2, <3>2 DEF Inv, InOnePlace
    <3> QED
      BY <1>2, <3>1, <3>3
  <2> HIDE DEF ms
  <2>6. phase[s] = "open" /\ busy[s] = Nil /\ inbox[s] = ms /\ ms # <<>>
    BY <1>2, <1>3, <1>5, <2>5 DEF phase, Live, busy, inbox, ms
  <2>7. inbox' = [inbox EXCEPT ![s] = Tail(@)]
    BY <1>2, <2>3 DEF inbox
  <2>8. busy' = [busy EXCEPT ![s] = Head(inbox[s])]
    <3>1. Busy(s)' = {w}
      BY <1>2, <2>2, <2>4, <2>5 DEF Busy
    <3>2. busy'[s] = Head(inbox[s])
      <4>1. busy'[s] = disp'[CHOOSE v \in Busy(s)' : TRUE].msg
        BY <1>2, <3>1 DEF busy
      <4>2. (CHOOSE v \in Busy(s)' : TRUE) = w
        BY <3>1
      <4> QED
        BY <2>4, <2>6, <4>1, <4>2
    <3>3. ASSUME NEW x \in Services \ {s} PROVE busy'[x] = busy[x]
      <4>1. Busy(x)' = Busy(x)
        BY <1>2, <2>4 DEF Busy
      <4>2. w \notin Busy(x)
        BY <1>2 DEF Busy
      <4>3. CASE Busy(x) = {}
        BY <4>1, <4>3 DEF busy
      <4>4. CASE Busy(x) # {}
        <5> DEFINE u == CHOOSE v \in Busy(x) : TRUE
        <5>1. u \in Busy(x) /\ u \in Workers /\ u # w
          BY <4>2, <4>4 DEF Busy
        <5>2. busy[x] = disp[u].msg /\ busy'[x] = disp'[u].msg
          BY <4>1, <4>4 DEF busy
        <5> HIDE DEF u
        <5> QED
          BY <2>4, <5>1, <5>2
      <4> QED
        BY <4>3, <4>4
    <3>4. busy = [x \in Services |-> busy[x]] /\ busy' = [x \in Services |-> busy'[x]]
      BY DEF busy
    <3> QED
      BY <3>2, <3>3, <3>4
  <2>9. phase' = phase
    BY <1>1, <2>3, PhaseKept
  <2>10. I!Handle(s)
    BY <2>6, <2>7, <2>8, <2>9 DEF I!Handle
  <2> QED
    BY <1>2, <2>10 DEF Seen, I!Next
<1> QED
  BY <1>4, <1>5

(* The worker is done with it.                                             *)
LEMMA HandledSeen ==
    ASSUME Inv, NEW w \in Workers, Handled(w)
    PROVE  Seen
<1>1. /\ disp[w] \in Dispatches /\ DispShape(disp[w], w) /\ disp[w].pc = "handle"
      /\ disp \in [Workers -> Dispatches]
      /\ disp' = [disp EXCEPT ![w].pc = IF disp[w].i + 1 < disp[w].n THEN "pop" ELSE "yield",
                              ![w].i = @ + 1, ![w].msg = Nil]
      /\ ctx' = ctx /\ mq' = mq
  BY DEF Handled, InHandler, data, Inv, TypeOK, Shape
<1>2. PICK s \in Services : s # Nil /\ disp[w].c = s /\ disp[w].msg # Nil
  BY <1>1 DEF DispShape
<1>3. /\ disp'[w].msg = Nil /\ disp'[w].c = s
      /\ \A v \in Workers \ {w} : disp'[v] = disp[v]
  BY <1>1, <1>2
<1>4. w \in Busy(s)
  BY <1>2 DEF Busy
<1>5. Busy(s) = {w} /\ busy[s] = disp[w].msg
  BY <1>2, <1>4, OneBusy
<1>6. busy' = [busy EXCEPT ![s] = Nil]
  <2>1. busy'[s] = Nil
    <3>1. Busy(s)' = {}
      BY <1>3, <1>5 DEF Busy
    <3> QED
      BY <1>2, <3>1 DEF busy
  <2>2. ASSUME NEW x \in Services \ {s} PROVE busy'[x] = busy[x]
    <3>1. Busy(x)' = Busy(x)
      BY <1>2, <1>3 DEF Busy
    <3>2. w \notin Busy(x)
      BY <1>2 DEF Busy
    <3>3. CASE Busy(x) = {}
      BY <3>1, <3>3 DEF busy
    <3>4. CASE Busy(x) # {}
      <4> DEFINE u == CHOOSE v \in Busy(x) : TRUE
      <4>1. u \in Busy(x) /\ u \in Workers /\ u # w
        BY <3>2, <3>4 DEF Busy
      <4>2. busy[x] = disp[u].msg /\ busy'[x] = disp'[u].msg
        BY <3>1, <3>4 DEF busy
      <4> HIDE DEF u
      <4> QED
        BY <1>3, <4>1, <4>2
    <3> QED
      BY <3>3, <3>4
  <2>3. busy = [x \in Services |-> busy[x]] /\ busy' = [x \in Services |-> busy'[x]]
    BY DEF busy
  <2> QED
    BY <2>1, <2>2, <2>3
<1>7. inbox' = inbox /\ phase' = phase
  BY <1>1, InboxKept, PhaseKept
<1>8. I!Done(s)
  BY <1>2, <1>5, <1>6, <1>7 DEF I!Done
<1> QED
  BY <1>2, <1>8 DEF Seen, I!Next

-----------------------------------------------------------------------------
(* Every step of Mailbox is one of Inbox, or none.                         *)
LEMMA NextSeen == Inv /\ [Next]_vars => Seen
<1> SUFFICES ASSUME Inv, [Next]_vars PROVE Seen
  OBVIOUS
<1>1. /\ slot \in [Services -> BOOLEAN] /\ ctx \in [Services -> Contexts]
      /\ mq \in [Services -> MessageQueues] /\ disp \in [Workers -> Dispatches]
      /\ \A w \in Workers : DispShape(disp[w], w)
  BY DEF Inv, TypeOK, Shape
<1>2. ASSUME NEW t \in Threads, NEW s \in Services, Release(t, s) \/ ctx' = ctx,
             mq' = mq, disp' = disp
      PROVE  Seen
  <2>1. \A x \in Services : ctx'[x].init = ctx[x].init
    <3>1. CASE Release(t, s)
      <4>1. ctx' = [ctx EXCEPT ![s].ref = @ - 1]
        BY <3>1 DEF Release
      <4> QED
        BY <1>1, <4>1
    <3> QED
      BY <1>2, <3>1
  <2> QED
    BY <1>2, <2>1, Unseen
<1>3. ASSUME NEW t \in Threads, Sent(t) \/ Retired(t) \/ InitOk(t) \/ InitFailed(t) \/ Undone(t)
      PROVE  Seen
  <2>1. PICK s \in Services : Release(t, s)
    BY <1>3, MayUse DEF Sent, Retired, InitOk, InitFailed, Undone, Live, OwnsRef
  <2> QED
    BY <1>2, <1>3, <2>1 DEF Sent, Retired, InitOk, InitFailed, Undone
<1>4. ASSUME ctx' = ctx, mq' = mq, disp' = disp
      PROVE  Seen
  BY <1>4, Unseen
<1>5. ASSUME NEW t \in Threads, Running(t)
      PROVE  Seen
  BY <1>3, <1>5, DeleteContextSeen, MqPushSeen DEF Running
<1>6. ASSUME NEW t \in Threads, Operation(t)
      PROVE  Seen
  <2>1. CASE Publish(t) \/ LogLaunch(t) \/ ReturnHandle(t) \/ UndoRegister(t) \/ MqRelease(t)
    BY <1>4, <2>1 DEF Publish, LogLaunch, ReturnHandle, UndoRegister, MqRelease, data
  <2>2. CASE FreeQueue(t)
    <3>1. op[t].s \in Services /\ mq[op[t].s].release = 1
      BY <2>2, MayUse DEF FreeQueue, Inv, Queues
    <3>2. \A x \in Services : /\ mq'[x].msgs = mq[x].msgs /\ mq'[x].release = mq[x].release
                              /\ mq[x].release = 1 \/ mq'[x].state = mq[x].state
      BY <1>1, <2>2, <3>1 DEF FreeQueue
    <3> QED
      BY <2>2, <3>2, Unseen DEF FreeQueue
  <2> QED
    BY <1>3, <1>6, <2>1, <2>2, SetInitSeen, DropMessageSeen DEF Operation
<1>7. ASSUME NEW t \in Threads, NEW s \in Services,
             Send(t, s) \/ Retire(t, s) \/ Launch(t, s)
      PROVE  Seen
  <2>1. CASE Send(t, s)
    <3>1. /\ ctx' = [ctx EXCEPT ![s].ref = @ + 1]
          /\ mq' = mq /\ disp' = disp
      BY <2>1 DEF Send, GrabToSend
    <3>2. \A x \in Services : ctx'[x].init = ctx[x].init
      BY <1>1, <3>1
    <3> QED
      BY <3>1, <3>2, Unseen
  <2>2. CASE Retire(t, s)
    BY <1>4, <2>2 DEF Retire
  <2> QED
    BY <1>7, <2>1, <2>2, LaunchSeen
<1>8. ASSUME NEW w \in Workers, Dispatch(w)
      PROVE  Seen
  <2>1. CASE Loop(w) \/ Fetch(w) \/ MqLength(w) \/ Yield(w) \/ PushBack(w) \/ Sleep(w)
    <3>1. ctx' = ctx /\ mq' = mq
      BY <2>1 DEF Loop, Fetch, MqLength, Yield, PushBack, Sleep, data
    <3>2. \A v \in Workers \ {w} : disp'[v] = disp[v]
      BY <1>1, <2>1 DEF Loop, Fetch, MqLength, Yield, PushBack, Sleep
    <3>3. disp'[w].msg = disp[w].msg /\ disp'[w].c = disp[w].c
      <4>1. CASE Loop(w) \/ Sleep(w)
        BY <1>1, <4>1 DEF Loop, Sleep
      <4>2. CASE Fetch(w)
        BY <1>1, <4>2 DEF Fetch
      <4>3. CASE MqLength(w)
        BY <1>1, <4>3 DEF MqLength
      <4>4. CASE Yield(w)
        BY <1>1, <4>4 DEF Yield
      <4>5. CASE PushBack(w)
        BY <1>1, <4>5 DEF PushBack
      <4> QED
        BY <2>1, <4>1, <4>2, <4>3, <4>4, <4>5
    <3>4. \A v \in Workers : disp'[v].msg = disp[v].msg /\ disp'[v].c = disp[v].c
      BY <3>2, <3>3
    <3> QED
      BY <3>1, <3>4, Unseen
  <2>2. CASE Take(w)
    <3>1. disp[w].msg = Nil /\ disp[w].q \in Services
      BY <1>1, <2>2 DEF Take, DispShape
    <3>2. /\ mq' = mq
          /\ \A x \in Services : ctx'[x].init = ctx[x].init
      <4>1. mq' = mq /\ (ctx' = [ctx EXCEPT ![disp[w].q].ref = @ + 1] \/ ctx' = ctx)
        BY <2>2 DEF Take
      <4>2. ASSUME NEW x \in Services, NEW y \in Services, ctx' = [ctx EXCEPT ![y].ref = @ + 1]
            PROVE  ctx'[x].init = ctx[x].init
        BY <1>1, <4>2
      <4> QED
        BY <3>1, <4>1, <4>2
    <3>3. disp'[w].msg = disp[w].msg /\ \A v \in Workers \ {w} : disp'[v] = disp[v]
      <4>1. \/ disp' = [disp EXCEPT ![w].pc = "pop", ![w].c = disp[w].q, ![w].i = 0, ![w].n = 1]
            \/ disp' = [disp EXCEPT ![w].pc = "next", ![w].q = Nil]
        BY <2>2 DEF Take
      <4> QED
        BY <1>1, <4>1
    <3>4. \A v \in Workers : /\ disp'[v].msg = disp[v].msg
                             /\ disp[v].msg # Nil => disp'[v].c = disp[v].c
      BY <3>1, <3>3
    <3> QED
      BY <3>2, <3>4, Unseen
  <2>3. CASE Finish(w)
    <3>1. disp[w].msg = Nil /\ disp[w].c \in Services
      BY <1>1, <2>3 DEF Finish, DispShape
    <3>2. /\ mq' = mq
          /\ \A x \in Services : ctx'[x].init = ctx[x].init
      BY <1>1, <2>3, <3>1 DEF Finish, Release
    <3>3. \A v \in Workers : /\ disp'[v].msg = disp[v].msg
                             /\ disp[v].msg # Nil => disp'[v].c = disp[v].c
      BY <1>1, <2>3, <3>1 DEF Finish
    <3> QED
      BY <3>2, <3>3, Unseen
  <2> QED
    BY <1>8, <2>1, <2>2, <2>3, MqPopSeen, HandledSeen DEF Dispatch
<1>9. CASE WakeUp \/ Quit
  <2>1. ctx' = ctx /\ mq' = mq
    BY <1>9 DEF WakeUp, Quit, data
  <2>2. \A v \in Workers : disp'[v].msg = disp[v].msg /\ disp'[v].c = disp[v].c
    <3>1. CASE WakeUp
      <4>1. PICK w \in Workers : disp' = [disp EXCEPT ![w].pc = "loop"]
        BY <3>1 DEF WakeUp
      <4> QED
        BY <1>1, <4>1
    <3>2. CASE Quit
      BY <1>1, <3>2 DEF Quit
    <3> QED
      BY <1>9, <3>1, <3>2
  <2> QED
    BY <2>1, <2>2, Unseen
<1>10. CASE UNCHANGED vars
  BY <1>4, <1>10 DEF vars
<1> QED
  BY <1>5, <1>6, <1>7, <1>8, <1>9, <1>10 DEF Next, Request

(* The threads of skynet keep the promise of Inbox: each service handles   *)
(* its messages in the order they came, one at a time, each once, only     *)
(* when its init has been set and not after its context is deleted.        *)
THEOREM KeepsPromise == Spec => Promise
<1>1. Inv /\ [Next]_vars => [I!Next]_I!vars
  BY NextSeen DEF Seen, I!vars
<1> QED
  BY Invariant, InitSeen, <1>1, PTL DEF Spec, Promise, I!Spec
=============================================================================
