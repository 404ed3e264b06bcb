--------------------------- MODULE MailboxProofs ----------------------------
(***************************************************************************)
(* Theorems about Mailbox for any services, threads and shares.            *)
(***************************************************************************)
EXTENDS Mailbox, FiniteSetTheorems, SequenceTheorems, TLAPS

(* What a worker has in q, c, nq and msg follows from where it is.         *)
DispShape(d, w) ==
    /\ d.pc \in {"fetch", "next", "empty", "sleep", "wait"} => d.q = Nil
    /\ d.pc \in {"take", "pop", "length", "handle", "yield", "back", "done"} => d.q # Nil
    /\ d.pc \in {"pop", "length", "handle", "yield", "back", "done", "empty"} <=> d.c # Nil
    /\ d.pc \in {"pop", "length", "handle", "yield", "back"} => d.c = d.q
    /\ d.pc = "back" <=> d.nq # Nil
    /\ d.pc \in {"length", "handle"} <=> d.msg # Nil
    /\ d.pc = "length" => Share[w] > 0

Shape ==
    /\ \A w \in Workers : DispShape(disp[w], w)
    /\ \A t \in Threads : /\ op[t].pc = "idle" <=> op[t].s = Nil
                          /\ snd[t].pc = "idle" <=> snd[t].to = Nil
                          /\ snd[t].pc = "push" => snd[t].msg \in Messages

(* How a message_queue follows its context: it is marked when the context  *)
(* is deleted, and freed only after that and empty.                        *)
Follows(c, q) ==
    /\ c.state = "none" => q = NoMq
    /\ c.state = "live" => q.state = "live" /\ q.release = 0
    /\ c.state = "freed" => q.state \in {"live", "freed"} /\ q.release = 1
    /\ c.state # "live" => c.ref = 0
    /\ q.msgs # <<>> => q.state = "live" /\ (q.in_global = 1 \/ q.release = 1)

Queues ==
    /\ \A s \in Services : Follows(ctx[s], mq[s])
    /\ \A t \in Threads : op[t].pc = "drop" => mq[op[t].s].release = 1

(* A service in the table has its init set, or the thread that launched it *)
(* still has its queue; a service that is dispatched has it set.           *)
Opened ==
    /\ \A s \in Services :
           slot[s] /\ ~ctx[s].init
           => \E t \in Threads : op[t].s = s /\ op[t].pc \in {"init", "ready", "undo"}
    /\ \A w \in Workers : disp[w].c # Nil => ctx[disp[w].c].init

(* The inductive invariant.                                                *)
Inv == TypeOK /\ Shape /\ InOnePlace /\ RefCounted /\ Queues /\ Opened

USE DEF Contexts, MessageQueues, Dispatches, Operations, Sends

-----------------------------------------------------------------------------
(* A sequence of queues, a function from hands to queues, and the set of   *)
(* the queues that are to be in one of the two, once.                      *)
In(q, s) == \E i \in DOMAIN q : q[i] = s

OnePlace(q, f, F) ==
    /\ \A i, j \in DOMAIN q : q[i] = q[j] => i = j
    /\ \A g, h \in Hands : f[g] # Nil /\ f[g] = f[h] => g = h
    /\ \A s \in Services : /\ ~(In(q, s) /\ \E h \in Hands : f[h] = s)
                           /\ In(q, s) \/ (\E h \in Hands : f[h] = s) <=> s \in F

(* What Append puts in a sequence.                                         *)
LEMMA InAppend ==
    ASSUME NEW q \in Seq(Services), NEW s \in Services
    PROVE  /\ \A x : In(Append(q, s), x) <=> In(q, x) \/ x = s
           /\ ~In(q, s) /\ (\A i, j \in DOMAIN q : q[i] = q[j] => i = j)
              => LET r == Append(q, s) IN
                 \A i, j \in DOMAIN r : r[i] = r[j] => i = j
<1> DEFINE r == Append(q, s)
<1>1. /\ Len(q) \in Nat
      /\ DOMAIN q = 1..Len(q)
      /\ DOMAIN r = 1..(Len(q) + 1)
      /\ \A i \in 1..Len(q) : r[i] = q[i]
      /\ r[Len(q) + 1] = s
  BY AppendProperties, LenProperties
<1> HIDE DEF r
<1>2. ASSUME NEW x PROVE In(r, x) <=> In(q, x) \/ x = s
  BY <1>1 DEF In
<1>3. ASSUME ~In(q, s), \A i, j \in DOMAIN q : q[i] = q[j] => i = j,
             NEW i \in DOMAIN r, NEW j \in DOMAIN r, r[i] = r[j]
      PROVE  i = j
  BY <1>1, <1>3 DEF In
<1> QED
  BY <1>2, <1>3 DEF r

(* What Tail takes out of one.                                             *)
LEMMA InTail ==
    ASSUME NEW q \in Seq(Services), q # <<>>
    PROVE  /\ Head(q) \in Services /\ Tail(q) \in Seq(Services)
           /\ In(q, Head(q))
           /\ (\A i, j \in DOMAIN q : q[i] = q[j] => i = j)
              => /\ \A x : In(Tail(q), x) <=> In(q, x) /\ x # Head(q)
                 /\ LET r == Tail(q) IN
                    \A i, j \in DOMAIN r : r[i] = r[j] => i = j
<1> DEFINE r == Tail(q)
           n == Len(q)
<1>1. /\ n \in Nat \ {0}
      /\ DOMAIN q = 1..n
      /\ r \in Seq(Services)
      /\ DOMAIN r = 1..(n - 1)
      /\ \A i \in 1..(n - 1) : r[i] = q[i + 1]
      /\ Head(q) = q[1]
      /\ q[1] \in Services
  BY HeadTailProperties, LenProperties, EmptySeq, ElementOfSeq
<1> HIDE DEF r, n
<1>2. In(q, Head(q))
  BY <1>1 DEF In
<1>3. ASSUME \A i, j \in DOMAIN q : q[i] = q[j] => i = j
      PROVE  /\ \A x : In(r, x) <=> In(q, x) /\ x # Head(q)
             /\ \A i, j \in DOMAIN r : r[i] = r[j] => i = j
  <2>1. ASSUME NEW x, In(r, x) PROVE In(q, x) /\ x # Head(q)
    <3>1. PICK i \in 1..(n - 1) : q[i + 1] = x
      BY <1>1, <2>1 DEF In
    <3>2. i + 1 \in 1..n /\ 1 \in 1..n /\ i + 1 # 1
      BY <1>1
    <3> QED
      BY <1>1, <1>3, <3>1, <3>2 DEF In
  <2>2. ASSUME NEW x, In(q, x), x # Head(q) PROVE In(r, x)
    <3>1. PICK i \in 1..n : q[i] = x
      BY <1>1, <2>2 DEF In
    <3>2. i - 1 \in 1..(n - 1) /\ (i - 1) + 1 = i
      BY <1>1, <2>2, <3>1
    <3> QED
      BY <1>1, <3>1, <3>2 DEF In
  <2>3. ASSUME NEW i \in DOMAIN r, NEW j \in DOMAIN r, r[i] = r[j] PROVE i = j
    <3>1. /\ i \in 1..(n - 1) /\ j \in 1..(n - 1)
          /\ i + 1 \in DOMAIN q /\ j + 1 \in DOMAIN q /\ q[i + 1] = q[j + 1]
      BY <1>1, <2>3
    <3>2. i + 1 = j + 1
      BY <1>3, <3>1
    <3> QED
      BY <1>1, <3>1, <3>2
  <2> QED
    BY <2>1, <2>2, <2>3
<1> QED
  BY <1>1, <1>2, <1>3 DEF r

(* A queue goes out of a hand.                                             *)
LEMMA HandLoses ==
    ASSUME NEW q, NEW f, NEW g, NEW F, OnePlace(q, f, F),
           NEW h \in Hands, NEW s \in Services, f[h] = s, g[h] = Nil,
           \A k \in Hands \ {h} : g[k] = f[k]
    PROVE  OnePlace(q, g, F \ {s})
BY ThreadsAssumption DEF OnePlace

(* It comes into one.                                                      *)
LEMMA HandGains ==
    ASSUME NEW q, NEW f, NEW g, NEW F, OnePlace(q, f, F),
           NEW h \in Hands, NEW s \in Services, f[h] = Nil, g[h] = s, s \notin F,
           \A k \in Hands \ {h} : g[k] = f[k]
    PROVE  OnePlace(q, g, F \cup {s})
BY ThreadsAssumption DEF OnePlace

(* It goes from one hand to another.                                       *)
LEMMA HandMoves ==
    ASSUME NEW q, NEW f, NEW g, NEW F, OnePlace(q, f, F),
           NEW h \in Hands, NEW k \in Hands, h # k,
           NEW s \in Services, f[h] = s, f[k] = Nil, g[h] = Nil, g[k] = s,
           \A j \in Hands \ {h, k} : g[j] = f[j]
    PROVE  OnePlace(q, g, F)
BY ThreadsAssumption DEF OnePlace

(* It goes to the end of the sequence.                                     *)
LEMMA SeqGains ==
    ASSUME NEW q \in Seq(Services), NEW f, NEW F, OnePlace(q, f, F),
           NEW s \in Services, s \notin F
    PROVE  OnePlace(Append(q, s), f, F \cup {s})
BY InAppend DEF OnePlace

(* The first one goes.                                                     *)
LEMMA SeqLoses ==
    ASSUME NEW q \in Seq(Services), q # <<>>, NEW f, NEW F, OnePlace(q, f, F)
    PROVE  OnePlace(Tail(q), f, F \ {Head(q)})
BY InTail DEF OnePlace

-----------------------------------------------------------------------------
(* How many references to a context a function on Refs has.                *)
Holding(f, s) == {h \in Refs : f[h] = s}
CountOf(f, s) == Cardinality(Holding(f, s))

(* There are finitely many.                                                *)
LEMMA CountType ==
    ASSUME NEW f, NEW s
    PROVE  /\ IsFiniteSet(Holding(f, s))
           /\ CountOf(f, s) \in Nat
           /\ CountOf(f, s) = 0 <=> Holding(f, s) = {}
<1>1. IsFiniteSet(Services) /\ IsFiniteSet(Threads) /\ IsFiniteSet(Workers)
  BY ThreadsAssumption, FS_Subset DEF Threads
<1>2. IsFiniteSet({"table"} \X Services) /\ IsFiniteSet({"disp"} \X Workers)
  BY <1>1, FS_Product, FS_Singleton
<1>3. IsFiniteSet({"op"} \cup {"snd"})
  BY FS_Singleton, FS_Union
<1>4. {"op", "snd"} = {"op"} \cup {"snd"}
  OBVIOUS
<1>5. IsFiniteSet({"op", "snd"} \X Threads)
  BY <1>1, <1>3, <1>4, FS_Product
<1>6. IsFiniteSet(Refs)
  BY <1>2, <1>5, FS_Union DEF Refs
<1>7. IsFiniteSet(Holding(f, s))
  BY <1>6, FS_Subset DEF Holding
<1> QED
  BY <1>7, FS_CardinalityType, FS_EmptySet DEF CountOf

(* One reference more.                                                     *)
LEMMA CountGains ==
    ASSUME NEW f, NEW g, NEW h \in Refs, NEW s \in Services, f[h] = Nil, g[h] = s,
           \A k \in Refs \ {h} : g[k] = f[k]
    PROVE  /\ CountOf(g, s) = CountOf(f, s) + 1
           /\ \A x \in Services \ {s} : CountOf(g, x) = CountOf(f, x)
<1>1. Holding(g, s) = Holding(f, s) \cup {h} /\ h \notin Holding(f, s)
  BY ThreadsAssumption DEF Holding
<1>2. IsFiniteSet(Holding(f, s))
  BY CountType
<1>3. CountOf(g, s) = CountOf(f, s) + 1
  BY <1>1, <1>2, FS_AddElement DEF CountOf
<1>4. ASSUME NEW x \in Services \ {s} PROVE Holding(g, x) = Holding(f, x)
  BY ThreadsAssumption DEF Holding
<1> QED
  BY <1>3, <1>4 DEF CountOf

(* One less.                                                               *)
LEMMA CountLoses ==
    ASSUME NEW f, NEW g, NEW h \in Refs, NEW s \in Services, f[h] = s, g[h] = Nil,
           \A k \in Refs \ {h} : g[k] = f[k]
    PROVE  /\ CountOf(g, s) = CountOf(f, s) - 1
           /\ CountOf(f, s) > 0
           /\ \A x \in Services \ {s} : CountOf(g, x) = CountOf(f, x)
<1>1. /\ CountOf(f, s) = CountOf(g, s) + 1
      /\ \A x \in Services \ {s} : CountOf(f, x) = CountOf(g, x)
  BY CountGains
<1> QED
  BY <1>1, CountType

(* As many, one of them elsewhere.                                         *)
LEMMA CountMoves ==
    ASSUME NEW f, NEW g, NEW h \in Refs, NEW k \in Refs, h # k,
           NEW s \in Services, f[h] = s, f[k] = Nil, g[h] = Nil, g[k] = s,
           \A j \in Refs \ {h, k} : g[j] = f[j]
    PROVE  \A x \in Services : CountOf(g, x) = CountOf(f, x)
<1> DEFINE e == [j \in Refs |-> IF j = h THEN Nil ELSE f[j]]
<1>1. /\ e[h] = Nil /\ e[k] = Nil
      /\ \A j \in Refs \ {h} : e[j] = f[j]
      /\ \A j \in Refs \ {k} : g[j] = e[j]
  OBVIOUS
<1> HIDE DEF e
<1>2. /\ CountOf(e, s) = CountOf(f, s) - 1
      /\ \A x \in Services \ {s} : CountOf(e, x) = CountOf(f, x)
  BY <1>1, CountLoses
<1>3. /\ CountOf(g, s) = CountOf(e, s) + 1
      /\ \A x \in Services \ {s} : CountOf(g, x) = CountOf(e, x)
  BY <1>1, CountGains
<1> QED
  BY <1>2, <1>3, CountType

(* All where they were.                                                    *)
LEMMA CountKeeps ==
    ASSUME NEW f, NEW g, \A k \in Refs : g[k] = f[k]
    PROVE  \A x \in Services : CountOf(g, x) = CountOf(f, x)
<1>1. ASSUME NEW x \in Services PROVE Holding(g, x) = Holding(f, x)
  BY DEF Holding
<1> QED
  BY <1>1 DEF CountOf

-----------------------------------------------------------------------------
(* Held, RefOf and Flagged as values, to compare them before and after a   *)
(* step.                                                                   *)
QueueOf(o) == IF o.pc \notin {"idle", "retire", "log", "return"} THEN o.s ELSE Nil
ContextOf(o) == IF o.pc \in {"init", "retire", "undone"} THEN o.s ELSE Nil

HeldIn(d, o) == [h \in Hands |-> CASE h[1] = "q" -> d[h[2]].q
                                   [] h[1] = "nq" -> d[h[2]].nq
                                   [] h[1] = "op" -> QueueOf(o[h[2]])]

RefIn(l, o, n, d) ==
    [h \in Refs |-> CASE h[1] = "table" -> IF l[h[2]] THEN h[2] ELSE Nil
                      [] h[1] = "op" -> ContextOf(o[h[2]])
                      [] h[1] = "snd" -> n[h[2]].to
                      [] h[1] = "disp" -> d[h[2]].c]

FlaggedIn(m) == {s \in Services : /\ m[s].state = "live"
                                  /\ m[s].in_global = 1 \/ m[s].release = 1}

(* The values, hand by hand.                                               *)
LEMMA HeldInIs ==
    ASSUME NEW d, NEW o
    PROVE  /\ \A w \in Workers : /\ <<"q", w>> \in Hands /\ <<"nq", w>> \in Hands
                                 /\ HeldIn(d, o)[<<"q", w>>] = d[w].q
                                 /\ HeldIn(d, o)[<<"nq", w>>] = d[w].nq
           /\ \A t \in Threads : /\ <<"op", t>> \in Hands
                                 /\ HeldIn(d, o)[<<"op", t>>] = QueueOf(o[t])
           /\ \A h \in Hands : \/ \E w \in Workers : h \in {<<"q", w>>, <<"nq", w>>}
                               \/ \E t \in Threads : h = <<"op", t>>
BY DEF HeldIn, Hands

(* The values, one kind of reference after the other.                      *)
LEMMA RefInIs ==
    ASSUME NEW l, NEW o, NEW n, NEW d
    PROVE  /\ \A s \in Services : /\ <<"table", s>> \in Refs
                                  /\ RefIn(l, o, n, d)[<<"table", s>>] = IF l[s] THEN s ELSE Nil
           /\ \A t \in Threads : /\ <<"op", t>> \in Refs /\ <<"snd", t>> \in Refs
                                 /\ RefIn(l, o, n, d)[<<"op", t>>] = ContextOf(o[t])
                                 /\ RefIn(l, o, n, d)[<<"snd", t>>] = n[t].to
           /\ \A w \in Workers : /\ <<"disp", w>> \in Refs
                                 /\ RefIn(l, o, n, d)[<<"disp", w>>] = d[w].c
           /\ \A h \in Refs : \/ \E s \in Services : h = <<"table", s>>
                              \/ \E t \in Threads : h \in {<<"op", t>>, <<"snd", t>>}
                              \/ \E w \in Workers : h = <<"disp", w>>
BY DEF RefIn, Refs

(* InOnePlace in these terms.                                              *)
LEMMA InOnePlaceIs ==
    /\ InOnePlace <=> OnePlace(globalq, HeldIn(disp, op), FlaggedIn(mq))
    /\ InOnePlace' <=> OnePlace(globalq', HeldIn(disp', op'), FlaggedIn(mq'))
<1>1. /\ \A h \in Hands : HeldIn(disp, op)[h] = Held(h)
      /\ \A h \in Hands : HeldIn(disp', op')[h] = Held(h)'
  BY DEF HeldIn, Held, QueueOf, OwnsQueue
<1>2. /\ \A s \in Services : s \in FlaggedIn(mq) <=> Flagged(s)
      /\ \A s \in Services : s \in FlaggedIn(mq') <=> Flagged(s)'
  BY DEF FlaggedIn, Flagged
<1>3. InOnePlace <=> OnePlace(globalq, HeldIn(disp, op), FlaggedIn(mq))
  BY <1>1, <1>2 DEF InOnePlace, OnePlace, InGlobal, In, InHand
<1>4. InOnePlace' <=> OnePlace(globalq', HeldIn(disp', op'), FlaggedIn(mq'))
  BY <1>1, <1>2 DEF InOnePlace, OnePlace, InGlobal, In, InHand
<1> QED
  BY <1>3, <1>4

(* The references that RefCounted counts in these terms.                   *)
LEMMA HoldersAre ==
    ASSUME NEW s
    PROVE  /\ Cardinality(Holders(s)) = CountOf(RefIn(slot, op, snd, disp), s)
           /\ Cardinality(Holders(s)') = CountOf(RefIn(slot', op', snd', disp'), s)
<1>1. /\ \A h \in Refs : RefIn(slot, op, snd, disp)[h] = RefOf(h)
      /\ \A h \in Refs : RefIn(slot', op', snd', disp')[h] = RefOf(h)'
  BY DEF RefIn, RefOf, ContextOf, OwnsRef
<1>2. Holders(s) = Holding(RefIn(slot, op, snd, disp), s)
  BY <1>1 DEF Holders, Holding
<1>3. Holders(s)' = Holding(RefIn(slot', op', snd', disp'), s)
  BY <1>1 DEF Holders, Holding
<1> QED
  BY <1>2, <1>3 DEF CountOf

(* Who has a reference to a context may use it, its queue too; who holds a *)
(* queue may use that.                                                     *)
Live(s) == /\ s \in Services
           /\ ctx[s].state = "live"
           /\ mq[s].state = "live" /\ mq[s].release = 0

(* Whatever is held is live, and what is queued is flagged.                *)
LEMMA HoldersLive ==
    ASSUME Inv
    PROVE  /\ \A h \in Refs : RefOf(h) # Nil => Live(RefOf(h)) /\ ctx[RefOf(h)].ref > 0
           /\ \A h \in Hands : Held(h) # Nil => Held(h) \in Services /\ Flagged(Held(h))
           /\ \A i \in DOMAIN globalq : globalq[i] \in Services /\ Flagged(globalq[i])
           /\ \A t \in Threads : deleting[t] # Nil
                                 => Live(deleting[t]) /\ ctx[deleting[t]].ref = 0
<1>1. ASSUME NEW h \in Refs, RefOf(h) # Nil
      PROVE  Live(RefOf(h)) /\ ctx[RefOf(h)].ref > 0
  <2>1. RefOf(h) \in Services
    BY <1>1 DEF RefOf, Refs, Inv, TypeOK
  <2>2. h \in Holders(RefOf(h))
    BY DEF Holders
  <2>3. Cardinality(Holders(RefOf(h))) # 0 /\ Cardinality(Holders(RefOf(h))) \in Nat
    <3> DEFINE s == RefOf(h)
               f == RefIn(slot, op, snd, disp)
    <3>1. f[h] = s
      BY DEF RefIn, RefOf, ContextOf, OwnsRef
    <3>2. Holding(f, s) # {}
      BY <3>1 DEF Holding
    <3> QED
      BY <3>2, HoldersAre, CountType
  <2>4. ctx[RefOf(h)].ref > 0
    BY <2>1, <2>3 DEF Inv, RefCounted
  <2> QED
    BY <2>1, <2>4 DEF Inv, Queues, Follows, TypeOK, Live
<1>2. ASSUME NEW h \in Hands, Held(h) # Nil
      PROVE  Held(h) \in Services /\ Flagged(Held(h))
  <2>1. Held(h) \in Services
    BY <1>2 DEF Held, Hands, Inv, TypeOK
  <2> QED
    BY <2>1 DEF Inv, InOnePlace, InHand
<1>3. ASSUME NEW i \in DOMAIN globalq
      PROVE  globalq[i] \in Services /\ Flagged(globalq[i])
  <2>1. globalq[i] \in Services
    BY ElementOfSeq, LenProperties DEF Inv, TypeOK
  <2> QED
    BY <2>1 DEF Inv, InOnePlace, InGlobal
<1>4. ASSUME NEW t \in Threads, deleting[t] # Nil
      PROVE  Live(deleting[t]) /\ ctx[deleting[t]].ref = 0
  BY <1>4 DEF Inv, TypeOK, RefCounted, Queues, Follows, Live
<1> QED
  BY <1>1, <1>2, <1>3, <1>4

(* The same, place by place.                                               *)
LEMMA MayUse ==
    ASSUME Inv
    PROVE  /\ \A s \in Services : slot[s] => Live(s) /\ ctx[s].ref > 0
           /\ \A t \in Threads :
                  /\ snd[t].pc # "idle" => Live(snd[t].to) /\ ctx[snd[t].to].ref > 0
                  /\ OwnsRef(t) => Live(op[t].s) /\ ctx[op[t].s].ref > 0
                  /\ op[t].pc # "idle" => op[t].s \in Services
                  /\ OwnsQueue(t) => op[t].s \in Services /\ Flagged(op[t].s)
                  /\ deleting[t] # Nil => Live(deleting[t]) /\ ctx[deleting[t]].ref = 0
           /\ \A w \in Workers :
                  /\ disp[w].c # Nil => Live(disp[w].c) /\ ctx[disp[w].c].ref > 0
                  /\ disp[w].q # Nil => disp[w].q \in Services /\ Flagged(disp[w].q)
                  /\ disp[w].nq # Nil => disp[w].nq \in Services /\ Flagged(disp[w].nq)
<1>1. \A s \in Services : slot[s] => RefOf(<<"table", s>>) = s /\ <<"table", s>> \in Refs
  BY DEF RefOf, Refs
<1>2. ASSUME NEW t \in Threads
      PROVE  /\ <<"snd", t>> \in Refs /\ RefOf(<<"snd", t>>) = snd[t].to
             /\ <<"op", t>> \in Refs /\ <<"op", t>> \in Hands
             /\ OwnsRef(t) => RefOf(<<"op", t>>) = op[t].s
             /\ OwnsQueue(t) => Held(<<"op", t>>) = op[t].s
             /\ op[t].pc # "idle" => op[t].s # Nil /\ op[t].s \in Services
             /\ snd[t].pc # "idle" => snd[t].to # Nil
             /\ OwnsRef(t) \/ OwnsQueue(t) => op[t].pc # "idle"
  BY DEF RefOf, Refs, Held, Hands, Inv, Shape, TypeOK, OwnsRef, OwnsQueue
<1>3. ASSUME NEW w \in Workers
      PROVE  /\ <<"disp", w>> \in Refs /\ RefOf(<<"disp", w>>) = disp[w].c
             /\ <<"q", w>> \in Hands /\ Held(<<"q", w>>) = disp[w].q
             /\ <<"nq", w>> \in Hands /\ Held(<<"nq", w>>) = disp[w].nq
  BY DEF RefOf, Refs, Held, Hands
<1>4. Nil \notin Services
  BY ThreadsAssumption
<1>5. /\ \A h \in Refs : RefOf(h) # Nil => Live(RefOf(h)) /\ ctx[RefOf(h)].ref > 0
      /\ \A h \in Hands : Held(h) # Nil => Held(h) \in Services /\ Flagged(Held(h))
      /\ \A t \in Threads : deleting[t] # Nil
                            => Live(deleting[t]) /\ ctx[deleting[t]].ref = 0
  BY HoldersLive
<1> HIDE DEF Inv
<1>6. ASSUME NEW t \in Threads
      PROVE  /\ snd[t].pc # "idle" => Live(snd[t].to) /\ ctx[snd[t].to].ref > 0
             /\ OwnsRef(t) => Live(op[t].s) /\ ctx[op[t].s].ref > 0
             /\ op[t].pc # "idle" => op[t].s \in Services
             /\ OwnsQueue(t) => op[t].s \in Services /\ Flagged(op[t].s)
             /\ deleting[t] # Nil => Live(deleting[t]) /\ ctx[deleting[t]].ref = 0
  BY <1>2, <1>5
<1>7. ASSUME NEW w \in Workers
      PROVE  /\ disp[w].c # Nil => Live(disp[w].c) /\ ctx[disp[w].c].ref > 0
             /\ disp[w].q # Nil => disp[w].q \in Services /\ Flagged(disp[w].q)
             /\ disp[w].nq # Nil => disp[w].nq \in Services /\ Flagged(disp[w].nq)
  BY <1>3, <1>5
<1>8. ASSUME NEW s \in Services, slot[s] PROVE Live(s) /\ ctx[s].ref > 0
  BY <1>1, <1>4, <1>5, <1>8
<1> QED
  BY <1>6, <1>7, <1>8

-----------------------------------------------------------------------------
(* Steps that leave each queue where it is.                                *)
LEMMA PlacesKept ==
    ASSUME InOnePlace, globalq' = globalq,
           \A w \in Workers : disp'[w].q = disp[w].q /\ disp'[w].nq = disp[w].nq,
           \A t \in Threads : QueueOf(op'[t]) = QueueOf(op[t]),
           FlaggedIn(mq') = FlaggedIn(mq)
    PROVE  InOnePlace'
<1> DEFINE f == HeldIn(disp, op)
           g == HeldIn(disp', op')
<1>1. \A h \in Hands : g[h] = f[h]
  <2>1. \A w \in Workers : g[<<"q", w>>] = f[<<"q", w>>] /\ g[<<"nq", w>>] = f[<<"nq", w>>]
    BY DEF HeldIn, Hands
  <2>2. \A t \in Threads : g[<<"op", t>>] = f[<<"op", t>>]
    BY DEF HeldIn, Hands
  <2>3. \A h \in Hands : \/ \E w \in Workers : h \in {<<"q", w>>, <<"nq", w>>}
                         \/ \E t \in Threads : h = <<"op", t>>
    BY DEF HeldIn, Hands
  <2> HIDE DEF f, g
  <2> QED
    BY <2>1, <2>2, <2>3
<1>2. OnePlace(globalq, f, FlaggedIn(mq))
  BY InOnePlaceIs
<1> HIDE DEF f, g
<1>3. OnePlace(globalq, g, FlaggedIn(mq))
  BY <1>1, <1>2 DEF OnePlace
<1> QED
  BY <1>3, InOnePlaceIs DEF g

(* Steps that leave each reference where it is.                            *)
LEMMA CountsKept ==
    ASSUME RefCounted, deleting' = deleting,
           \A s \in Services : /\ ctx'[s].ref = ctx[s].ref /\ ctx'[s].state = ctx[s].state
                               /\ slot'[s] = slot[s],
           \A t \in Threads : ContextOf(op'[t]) = ContextOf(op[t]) /\ snd'[t].to = snd[t].to,
           \A w \in Workers : disp'[w].c = disp[w].c
    PROVE  RefCounted'
<1> DEFINE f == RefIn(slot, op, snd, disp)
           g == RefIn(slot', op', snd', disp')
<1>1. \A h \in Refs : g[h] = f[h]
  <2>1. \A s \in Services : g[<<"table", s>>] = f[<<"table", s>>]
    BY DEF RefIn, Refs
  <2>2. \A t \in Threads : g[<<"op", t>>] = f[<<"op", t>>] /\ g[<<"snd", t>>] = f[<<"snd", t>>]
    BY DEF RefIn, Refs
  <2>3. \A w \in Workers : g[<<"disp", w>>] = f[<<"disp", w>>]
    BY DEF RefIn, Refs
  <2>4. \A h \in Refs : \/ \E s \in Services : h = <<"table", s>>
                        \/ \E t \in Threads : h \in {<<"op", t>>, <<"snd", t>>}
                        \/ \E w \in Workers : h = <<"disp", w>>
    BY DEF RefIn, Refs
  <2> HIDE DEF f, g
  <2> QED
    BY <2>1, <2>2, <2>3, <2>4
<1>2. \A s \in Services : CountOf(g, s) = CountOf(f, s)
  BY <1>1, CountKeeps
<1>3. \A s \in Services : Cardinality(Holders(s)') = Cardinality(Holders(s))
  BY <1>2, HoldersAre
<1> QED
  BY <1>3 DEF RefCounted

(* The table gives its reference to a thread.                              *)
LEMMA CountsMoved ==
    ASSUME RefCounted, deleting' = deleting, ctx' = ctx,
           NEW t \in Threads, NEW s \in Services, slot[s], ~slot'[s],
           ContextOf(op[t]) = Nil, ContextOf(op'[t]) = s,
           \A x \in Services \ {s} : slot'[x] = slot[x],
           \A u \in Threads \ {t} : op'[u] = op[u],
           snd' = snd, disp' = disp
    PROVE  RefCounted'
<1> DEFINE f == RefIn(slot, op, snd, disp)
           g == RefIn(slot', op', snd', disp')
           h == <<"table", s>>
           k == <<"op", t>>
<1>1. /\ h \in Refs /\ k \in Refs /\ h # k
      /\ f[h] = s /\ f[k] = Nil /\ g[h] = Nil /\ g[k] = s
      /\ \A j \in Refs \ {h, k} : g[j] = f[j]
  <2>1. h \in Refs /\ k \in Refs /\ h # k /\ f[h] = s /\ f[k] = Nil /\ g[h] = Nil /\ g[k] = s
    BY DEF RefIn, Refs
  <2>2. \A x \in Services \ {s} : g[<<"table", x>>] = f[<<"table", x>>]
    BY DEF RefIn, Refs
  <2>3. \A u \in Threads : g[<<"snd", u>>] = f[<<"snd", u>>]
    BY DEF RefIn, Refs
  <2>4. \A u \in Threads \ {t} : g[<<"op", u>>] = f[<<"op", u>>]
    BY DEF RefIn, Refs
  <2>5. \A w \in Workers : g[<<"disp", w>>] = f[<<"disp", w>>]
    BY DEF RefIn, Refs
  <2>6. \A j \in Refs : \/ \E x \in Services : j = <<"table", x>>
                        \/ \E u \in Threads : j \in {<<"op", u>>, <<"snd", u>>}
                        \/ \E w \in Workers : j = <<"disp", w>>
    BY DEF RefIn, Refs
  <2> HIDE DEF f, g
  <2> QED
    BY <2>1, <2>2, <2>3, <2>4, <2>5, <2>6
<1> HIDE DEF f, g, h, k
<1>2. \A x \in Services : CountOf(g, x) = CountOf(f, x)
  BY <1>1, CountMoves
<1>3. \A x \in Services : Cardinality(Holders(x)') = Cardinality(Holders(x))
  BY <1>2, HoldersAre DEF f, g
<1> QED
  BY <1>3 DEF RefCounted

(* A thread takes a reference to a context that is in the table.           *)
LEMMA CountsGrabbed ==
    ASSUME Inv, deleting' = deleting, NEW s \in Services, slot[s],
           ctx' = [ctx EXCEPT ![s].ref = @ + 1],
           NEW h \in Refs,
           RefIn(slot, op, snd, disp)[h] = Nil,
           RefIn(slot', op', snd', disp')[h] = s,
           \A k \in Refs \ {h} :
               RefIn(slot', op', snd', disp')[k] = RefIn(slot, op, snd, disp)[k]
    PROVE  RefCounted'
<1> DEFINE f == RefIn(slot, op, snd, disp)
           g == RefIn(slot', op', snd', disp')
<1>1. /\ CountOf(g, s) = CountOf(f, s) + 1
      /\ \A x \in Services \ {s} : CountOf(g, x) = CountOf(f, x)
  <2> HIDE DEF f, g
  <2>1. f[h] = Nil /\ g[h] = s /\ \A k \in Refs \ {h} : g[k] = f[k]
    BY DEF f, g
  <2> QED
    BY <2>1, CountGains
<1> HIDE DEF f, g
<1>2. /\ Cardinality(Holders(s)') = Cardinality(Holders(s)) + 1
      /\ \A x \in Services \ {s} : Cardinality(Holders(x)') = Cardinality(Holders(x))
  BY <1>1, HoldersAre DEF f, g
<1>3. /\ ctx[s].ref \in Nat /\ ctx[s].ref > 0
      /\ ctx'[s].ref = ctx[s].ref + 1 /\ ctx'[s].state = ctx[s].state
      /\ \A x \in Services \ {s} : ctx'[x] = ctx[x]
  BY MayUse DEF Inv, TypeOK
<1>4. RefCounted /\ \A t \in Threads : deleting[t] # s
  BY <1>3, MayUse, ThreadsAssumption DEF Inv
<1>5. \A x \in Services : ctx'[x].ref = Cardinality(Holders(x)')
  BY <1>2, <1>3, <1>4 DEF RefCounted
<1>6. \A x \in Services : ctx'[x].state = "live" /\ ctx'[x].ref = 0
                          <=> \E t \in Threads : deleting'[t] = x
  BY <1>3, <1>4 DEF RefCounted
<1> QED
  BY <1>4, <1>5, <1>6 DEF RefCounted

(* A thread gives one up, and deletes the context if it was the last.      *)
LEMMA CountsReleased ==
    ASSUME Inv, NEW t \in Threads, NEW s \in Services, deleting[t] = Nil, Release(t, s),
           NEW h \in Refs,
           RefIn(slot, op, snd, disp)[h] = s,
           RefIn(slot', op', snd', disp')[h] = Nil,
           \A k \in Refs \ {h} :
               RefIn(slot', op', snd', disp')[k] = RefIn(slot, op, snd, disp)[k]
    PROVE  RefCounted'
<1> DEFINE f == RefIn(slot, op, snd, disp)
           g == RefIn(slot', op', snd', disp')
<1>1. /\ CountOf(g, s) = CountOf(f, s) - 1 /\ CountOf(f, s) > 0
      /\ \A x \in Services \ {s} : CountOf(g, x) = CountOf(f, x)
  <2> HIDE DEF f, g
  <2>1. f[h] = s /\ g[h] = Nil /\ \A k \in Refs \ {h} : g[k] = f[k]
    BY DEF f, g
  <2> QED
    BY <2>1, CountLoses
<1> HIDE DEF f, g
<1>2. /\ Cardinality(Holders(s)') = Cardinality(Holders(s)) - 1
      /\ Cardinality(Holders(s)) > 0
      /\ \A x \in Services \ {s} : Cardinality(Holders(x)') = Cardinality(Holders(x))
  BY <1>1, HoldersAre DEF f, g
<1>3. ctx[s].ref \in Nat /\ ctx[s].ref > 0 /\ ctx[s].state = "live"
  BY <1>2 DEF Inv, RefCounted, Queues, Follows, TypeOK
<1>4. /\ ctx'[s].ref = ctx[s].ref - 1 /\ ctx'[s].state = "live"
      /\ \A x \in Services \ {s} : ctx'[x] = ctx[x]
  BY <1>3 DEF Release, Inv, TypeOK
<1>5. /\ deleting'[t] = IF ctx[s].ref = 1 THEN s ELSE Nil
      /\ \A u \in Threads \ {t} : deleting'[u] = deleting[u]
  BY DEF Release, Inv, TypeOK
<1>6. RefCounted /\ \A u \in Threads : deleting[u] # s
  BY <1>3, MayUse, ThreadsAssumption DEF Inv
<1>7. \A x \in Services : ctx'[x].ref = Cardinality(Holders(x)')
  BY <1>2, <1>4, <1>6 DEF RefCounted
<1>8. \A u, v \in Threads : deleting'[u] # Nil /\ deleting'[u] = deleting'[v] => u = v
  BY <1>5, <1>6 DEF RefCounted
<1>9. \A x \in Services : ctx'[x].state = "live" /\ ctx'[x].ref = 0
                          <=> \E u \in Threads : deleting'[u] = x
  <2>1. ctx'[s].state = "live" /\ ctx'[s].ref = 0 <=> \E u \in Threads : deleting'[u] = s
    BY <1>3, <1>4, <1>5, <1>6, ThreadsAssumption
  <2>2. ASSUME NEW x \in Services \ {s}
        PROVE  (\E u \in Threads : deleting'[u] = x) <=> \E u \in Threads : deleting[u] = x
    BY <1>5, ThreadsAssumption
  <2>3. ASSUME NEW x \in Services \ {s}
        PROVE  ctx'[x].state = "live" /\ ctx'[x].ref = 0
               <=> \E u \in Threads : deleting'[u] = x
    BY <2>2, <1>4, <1>6 DEF RefCounted
  <2> QED
    BY <2>1, <2>3
<1> QED
  BY <1>7, <1>8, <1>9 DEF RefCounted

(* What a released context becomes.                                        *)
LEMMA ReleaseIs ==
    ASSUME Inv, NEW t \in Threads, NEW s \in Services, Release(t, s), ctx[s].ref > 0
    PROVE  /\ ctx' \in [Services -> Contexts]
           /\ deleting' \in [Threads -> Services \cup {Nil}]
           /\ \A x \in Services : /\ ctx'[x].state = ctx[x].state
                                  /\ ctx'[x].init = ctx[x].init
                                  /\ ctx[x].ref = 0 => ctx'[x].ref = 0
<1>1. /\ ctx \in [Services -> Contexts]
      /\ deleting \in [Threads -> Services \cup {Nil}]
  BY DEF Inv, TypeOK
<1>2. /\ ctx' = [ctx EXCEPT ![s].ref = @ - 1]
      /\ deleting' = [deleting EXCEPT ![t] = IF ctx[s].ref = 1 THEN s ELSE Nil]
  BY DEF Release
<1>3. ctx[s].ref \in Nat /\ ctx[s].ref - 1 \in Nat
  BY <1>1
<1>4. ctx' \in [Services -> Contexts]
  BY <1>1, <1>2, <1>3
<1>5. deleting' \in [Threads -> Services \cup {Nil}]
  BY <1>1, <1>2
<1>6. ASSUME NEW x \in Services
      PROVE  /\ ctx'[x].state = ctx[x].state
             /\ ctx'[x].init = ctx[x].init
             /\ ctx[x].ref = 0 => ctx'[x].ref = 0
  BY <1>1, <1>2
<1> QED
  BY <1>4, <1>5, <1>6

(* Steps after which a service in the table, not yet open, is still being  *)
(* launched.                                                               *)
LEMMA OpenedKept ==
    ASSUME Opened,
           \A s \in Services : /\ slot'[s] => slot[s]
                               /\ ctx[s].init => ctx'[s].init,
           \A t \in Threads : op[t].pc \in {"init", "ready", "undo"}
                              => op'[t].s = op[t].s /\ op'[t].pc \in {"init", "ready", "undo"},
           \A w \in Workers : /\ disp[w].c \in Services \cup {Nil}
                              /\ disp'[w].c \in {disp[w].c, Nil}
    PROVE  Opened'
<1>1. ASSUME NEW s \in Services, slot'[s], ~ctx'[s].init
      PROVE  \E t \in Threads : op'[t].s = s /\ op'[t].pc \in {"init", "ready", "undo"}
  <2>1. PICK t \in Threads : op[t].s = s /\ op[t].pc \in {"init", "ready", "undo"}
    BY <1>1 DEF Opened
  <2> QED
    BY <2>1
<1>2. ASSUME NEW w \in Workers, disp'[w].c # Nil PROVE ctx'[disp'[w].c].init
  BY <1>2 DEF Opened
<1> QED
  BY <1>1, <1>2 DEF Opened

-----------------------------------------------------------------------------
(* A sender puts its message in the queue, and schedules the queue if it   *)
(* was empty.                                                              *)
LEMMA MqPushStep ==
    ASSUME Inv, NEW t \in Threads, MqPush(t)
    PROVE  Inv'
<1> DEFINE s == snd[t].to
<1>1. Live(s) /\ ctx[s].ref > 0 /\ snd[t].pc = "push" /\ snd[t].msg \in Messages
  BY MayUse DEF MqPush, Inv, Shape
<1>2. /\ slot' = slot /\ ctx' = ctx /\ disp' = disp /\ op' = op /\ deleting' = deleting
      /\ quit' = quit /\ left' = left
      /\ snd' = [snd EXCEPT ![t].pc = "release"]
      /\ mq' = [mq EXCEPT ![s].msgs = Append(@, snd[t].msg), ![s].in_global = 1]
      /\ globalq' = IF mq[s].in_global = 0 THEN Append(globalq, s) ELSE globalq
  BY DEF MqPush, PushGlobal, rest
<1> HIDE DEF s
<1>3. TypeOK'
  <2>1. globalq' \in Seq(Services)
    BY <1>1, <1>2, AppendProperties DEF Inv, TypeOK, Live
  <2>2. Append(mq[s].msgs, snd[t].msg) \in Seq(Messages)
    BY <1>1, AppendProperties DEF Inv, TypeOK, Live
  <2>3. mq' \in [Services -> MessageQueues]
    <3>1. mq \in [Services -> MessageQueues]
      BY DEF Inv, TypeOK
    <3> DEFINE e == [mq[s] EXCEPT !.msgs = Append(@, snd[t].msg), !.in_global = 1]
    <3>2. mq' = [mq EXCEPT ![s] = e]
      BY <1>2, <3>1
    <3>3. mq[s] \in MessageQueues
      BY <1>1, <3>1 DEF Live
    <3>4. e \in MessageQueues
      BY <2>2, <3>3
    <3> HIDE DEF e
    <3> QED
      BY <3>1, <3>2, <3>4
  <2>4. snd' \in [Threads -> Sends]
    <3>1. snd \in [Threads -> Sends] /\ snd[t] \in Sends
      BY DEF Inv, TypeOK
    <3>2. [snd[t] EXCEPT !.pc = "release"] \in Sends
      BY <3>1
    <3> QED
      BY <1>2, <3>1, <3>2
  <2> QED
    BY <1>2, <2>1, <2>3, <2>4 DEF Inv, TypeOK
<1>4. Shape'
  BY <1>1, <1>2 DEF Inv, TypeOK, Shape, DispShape, s
<1>5. /\ mq'[s].state = "live" /\ mq'[s].in_global = 1 /\ mq'[s].release = 0
      /\ \A x \in Services \ {s} : mq'[x] = mq[x]
      /\ \A x \in Services : mq'[x].release = mq[x].release
  BY <1>1, <1>2 DEF Inv, TypeOK, Live
<1>6. Queues'
  <2>1. ASSUME NEW x \in Services PROVE Follows(ctx'[x], mq'[x])
    <3>1. Follows(ctx[x], mq[x])
      BY DEF Inv, Queues
    <3> QED
      BY <1>1, <1>2, <1>5, <3>1 DEF Follows, Live
  <2>2. \A u \in Threads : op'[u].pc = "drop" => mq'[op'[u].s].release = 1
    BY <1>2, <1>5, MayUse DEF Inv, Queues
  <2> QED
    BY <2>1, <2>2 DEF Queues
<1>7. Opened'
  BY <1>2 DEF Inv, Opened
<1>8. InOnePlace'
  <2>1. OnePlace(globalq, HeldIn(disp, op), FlaggedIn(mq))
    BY InOnePlaceIs DEF Inv
  <2>2. CASE mq[s].in_global = 0
    <3>1. s \in Services /\ s \notin FlaggedIn(mq) /\ FlaggedIn(mq') = FlaggedIn(mq) \cup {s}
      BY <1>1, <1>5, <2>2 DEF FlaggedIn, Live
    <3>2. globalq \in Seq(Services)
      BY DEF Inv, TypeOK
    <3>3. OnePlace(Append(globalq, s), HeldIn(disp, op), FlaggedIn(mq) \cup {s})
      BY <2>1, <3>1, <3>2, SeqGains
    <3> QED
      BY <1>2, <2>2, <3>1, <3>3, InOnePlaceIs
  <2>3. CASE mq[s].in_global # 0
    <3>1. FlaggedIn(mq') = FlaggedIn(mq)
      <4>1. mq[s].in_global = 1
        BY <1>1, <2>3 DEF Live, Inv, TypeOK
      <4> QED
        BY <1>1, <1>5, <4>1 DEF FlaggedIn, Live
    <3> QED
      BY <1>2, <2>1, <2>3, <3>1, InOnePlaceIs
  <2> QED
    BY <2>2, <2>3
<1>9. RefCounted'
  <2>1. \A u \in Threads : snd'[u].to = snd[u].to
    BY <1>2 DEF Inv, TypeOK
  <2> QED
    BY <1>2, <2>1, CountsKept DEF Inv
<1> QED
  BY <1>3, <1>4, <1>6, <1>7, <1>8, <1>9 DEF Inv

(* It gives up its reference.                                              *)
LEMMA SentStep ==
    ASSUME Inv, NEW t \in Threads, Sent(t)
    PROVE  Inv'
<1> DEFINE s == snd[t].to
<1>1. Live(s) /\ s \in Services /\ ctx[s].ref > 0
  BY MayUse DEF Sent, Live
<1>2. /\ slot' = slot /\ mq' = mq /\ globalq' = globalq /\ disp' = disp /\ op' = op
      /\ quit' = quit /\ left' = left /\ deleting[t] = Nil
      /\ snd' = [snd EXCEPT ![t] = NoSnd] /\ Release(t, s)
  BY DEF Sent, Sending, rest
<1>3. /\ RefIn(slot, op, snd, disp)[<<"snd", t>>] = s
      /\ RefIn(slot', op', snd', disp')[<<"snd", t>>] = Nil
      /\ \A k \in Refs \ {<<"snd", t>>} :
             RefIn(slot', op', snd', disp')[k] = RefIn(slot, op, snd, disp)[k]
      /\ <<"snd", t>> \in Refs
  BY <1>2 DEF RefIn, Refs, Inv, TypeOK, NoSnd
<1> HIDE DEF s
<1>4. RefCounted'
  BY <1>1, <1>2, <1>3, CountsReleased
<1>5. TypeOK'
  BY <1>1, <1>2, ReleaseIs, ThreadsAssumption DEF Inv, TypeOK, NoSnd
<1>6. Shape'
  BY <1>2 DEF Inv, TypeOK, Shape, DispShape, NoSnd
<1>7. Queues'
  BY <1>1, <1>2, ReleaseIs DEF Inv, Queues, Follows
<1>8. Opened'
  BY <1>1, <1>2, ReleaseIs, OpenedKept DEF Inv, TypeOK
<1>9. InOnePlace'
  BY <1>2, PlacesKept DEF Inv
<1> QED
  BY <1>4, <1>5, <1>6, <1>7, <1>8, <1>9 DEF Inv

-----------------------------------------------------------------------------
(* Steps of workers that keep the queues and the context they have.        *)
LEMMA DispStep ==
    ASSUME Inv, disp' \in [Workers -> Dispatches],
           \A w \in Workers : /\ disp'[w].q = disp[w].q /\ disp'[w].nq = disp[w].nq
                              /\ disp'[w].c = disp[w].c
                              /\ DispShape(disp'[w], w),
           UNCHANGED <<slot, ctx, mq, globalq, op, snd, deleting, left>>, quit' \in BOOLEAN
    PROVE  Inv'
<1>1. TypeOK'
  BY DEF Inv, TypeOK
<1>2. Shape'
  BY DEF Inv, Shape
<1>3. InOnePlace'
  BY PlacesKept DEF Inv
<1>4. RefCounted'
  BY CountsKept DEF Inv
<1>5. Queues'
  BY DEF Inv, Queues
<1>6. Opened'
  BY DEF Inv, Opened
<1> QED
  BY <1>1, <1>2, <1>3, <1>4, <1>5, <1>6 DEF Inv

(* The start of a round of the loop.                                       *)
LEMMA LoopStep ==
    ASSUME Inv, NEW w \in Workers, Loop(w)
    PROVE  Inv'
<1>1. /\ disp[w] \in Dispatches /\ DispShape(disp[w], w) /\ disp[w].pc = "loop"
      /\ disp \in [Workers -> Dispatches]
      /\ \A v \in Workers : DispShape(disp[v], v)
  BY DEF Loop, Inv, TypeOK, Shape
<1>2. disp' = [disp EXCEPT ![w].pc = IF quit THEN "exit"
                                     ELSE IF disp[w].q = Nil THEN "fetch" ELSE "take"]
  BY DEF Loop
<1>3. /\ disp' \in [Workers -> Dispatches]
      /\ \A v \in Workers : /\ disp'[v].q = disp[v].q /\ disp'[v].nq = disp[v].nq
                            /\ disp'[v].c = disp[v].c
                            /\ DispShape(disp'[v], v)
  BY <1>1, <1>2 DEF DispShape
<1> QED
  BY <1>3, DispStep DEF Loop, data, rest, Inv, TypeOK

(* A worker reads how long its queue is.                                   *)
LEMMA MqLengthStep ==
    ASSUME Inv, NEW w \in Workers, MqLength(w)
    PROVE  Inv'
<1> DEFINE n == Len(mq[disp[w].q].msgs) \div Share[w]
<1>1. /\ disp[w] \in Dispatches /\ DispShape(disp[w], w) /\ disp[w].pc = "length"
      /\ disp \in [Workers -> Dispatches]
      /\ \A v \in Workers : DispShape(disp[v], v)
  BY DEF MqLength, Inv, TypeOK, Shape
<1>2. disp' = [disp EXCEPT ![w].pc = "handle", ![w].n = n]
  BY DEF MqLength
<1>3. n \in Nat
  <2>1. Share[w] \in Nat /\ Share[w] > 0
    BY <1>1, ThreadsAssumption DEF DispShape
  <2>2. disp[w].q \in Services
    BY <1>1 DEF DispShape
  <2>3. Len(mq[disp[w].q].msgs) \in Nat
    BY <2>2, LenProperties DEF Inv, TypeOK
  <2>4. \A l \in Nat, k \in Nat : k > 0 => l \div k \in Nat
    OBVIOUS
  <2> QED
    BY <2>1, <2>3, <2>4
<1> HIDE DEF n
<1>4. /\ disp' \in [Workers -> Dispatches]
      /\ \A v \in Workers : /\ disp'[v].q = disp[v].q /\ disp'[v].nq = disp[v].nq
                            /\ disp'[v].c = disp[v].c
                            /\ DispShape(disp'[v], v)
  BY <1>1, <1>2, <1>3 DEF DispShape
<1> QED
  BY <1>4, DispStep DEF MqLength, data, rest, Inv, TypeOK

(* A handler returns.                                                      *)
LEMMA HandledStep ==
    ASSUME Inv, NEW w \in Workers, Handled(w)
    PROVE  Inv'
<1>1. /\ disp[w] \in Dispatches /\ DispShape(disp[w], w) /\ disp[w].pc = "handle"
      /\ disp \in [Workers -> Dispatches]
      /\ \A v \in Workers : DispShape(disp[v], v)
  BY DEF Handled, InHandler, Inv, TypeOK, Shape
<1>2. disp' = [disp EXCEPT ![w].pc = IF disp[w].i + 1 < disp[w].n THEN "pop" ELSE "yield",
                           ![w].i = @ + 1, ![w].msg = Nil]
  BY DEF Handled
<1>3. /\ disp' \in [Workers -> Dispatches]
      /\ \A v \in Workers : /\ disp'[v].q = disp[v].q /\ disp'[v].nq = disp[v].nq
                            /\ disp'[v].c = disp[v].c
                            /\ DispShape(disp'[v], v)
  <2> DEFINE p == IF disp[w].i + 1 < disp[w].n THEN "pop" ELSE "yield"
             d == [disp[w] EXCEPT !.pc = p, !.i = @ + 1, !.msg = Nil]
  <2>1. disp' = [disp EXCEPT ![w] = d]
    BY <1>1, <1>2
  <2>2. p \in {"pop", "yield"}
    OBVIOUS
  <2>3. disp[w].i + 1 \in Nat
    BY <1>1
  <2> HIDE DEF p
  <2>4. /\ d \in Dispatches /\ DispShape(d, w)
        /\ d.q = disp[w].q /\ d.nq = disp[w].nq /\ d.c = disp[w].c
    BY <1>1, <2>2, <2>3 DEF DispShape
  <2> HIDE DEF d
  <2> QED
    BY <1>1, <2>1, <2>4
<1> QED
  BY <1>3, DispStep DEF Handled, data, rest, Inv, TypeOK

(* A worker waits, is woken, or is told to quit.                           *)
LEMMA SleepStep ==
    ASSUME Inv, (\E w \in Workers : Sleep(w)) \/ WakeUp \/ Quit
    PROVE  Inv'
<1>1. /\ disp \in [Workers -> Dispatches]
      /\ \A v \in Workers : DispShape(disp[v], v)
  BY DEF Inv, TypeOK, Shape
<1>2. /\ disp' \in [Workers -> Dispatches]
      /\ \A v \in Workers : /\ disp'[v].q = disp[v].q /\ disp'[v].nq = disp[v].nq
                            /\ disp'[v].c = disp[v].c
                            /\ DispShape(disp'[v], v)
  <2>1. ASSUME NEW w \in Workers, disp[w].pc \in {"sleep", "wait"},
               NEW p \in {"loop", "wait"}, disp' = [disp EXCEPT ![w].pc = p]
        PROVE  <1>2!1 /\ <1>2!2
    BY <1>1, <2>1 DEF DispShape
  <2>2. CASE Quit
    BY <1>1, <2>2 DEF Quit, DispShape
  <2> QED
    BY <2>1, <2>2 DEF Sleep, WakeUp
<1> QED
  BY <1>2, DispStep DEF Sleep, WakeUp, Quit, data, rest, Inv, TypeOK

-----------------------------------------------------------------------------
(* A worker gives up the context it ran.                                   *)
LEMMA FinishStep ==
    ASSUME Inv, NEW w \in Workers, Finish(w)
    PROVE  Inv'
<1> DEFINE s == disp[w].c
<1>1. /\ disp[w] \in Dispatches /\ DispShape(disp[w], w) /\ disp[w].pc \in {"done", "empty"}
      /\ disp \in [Workers -> Dispatches]
      /\ \A v \in Workers : DispShape(disp[v], v)
  BY DEF Finish, Inv, TypeOK, Shape
<1>2. Live(s) /\ s \in Services /\ ctx[s].ref > 0 /\ w \in Threads
  BY <1>1, MayUse DEF DispShape, Live, Threads
<1>3. /\ slot' = slot /\ mq' = mq /\ globalq' = globalq /\ op' = op /\ snd' = snd
      /\ quit' = quit /\ left' = left /\ deleting[w] = Nil /\ Release(w, s)
      /\ disp' = [disp EXCEPT ![w].c = Nil, ![w].i = 0, ![w].n = 0,
                              ![w].pc = IF @ = "done" THEN "loop" ELSE "next"]
  BY DEF Finish, Dispatching, Calling, rest
<1>4. /\ disp' \in [Workers -> Dispatches]
      /\ disp'[w].c = Nil
      /\ \A v \in Workers : /\ disp'[v].q = disp[v].q /\ disp'[v].nq = disp[v].nq
                            /\ disp'[v].c \in {disp[v].c, Nil}
                            /\ DispShape(disp'[v], v)
      /\ \A v \in Workers \ {w} : disp'[v] = disp[v]
  BY <1>1, <1>3 DEF DispShape
<1>5. /\ RefIn(slot, op, snd, disp)[<<"disp", w>>] = s
      /\ RefIn(slot', op', snd', disp')[<<"disp", w>>] = Nil
      /\ \A k \in Refs \ {<<"disp", w>>} :
             RefIn(slot', op', snd', disp')[k] = RefIn(slot, op, snd, disp)[k]
      /\ <<"disp", w>> \in Refs
  BY <1>3, <1>4 DEF RefIn, Refs
<1> HIDE DEF s
<1>6. RefCounted'
  BY <1>2, <1>3, <1>5, CountsReleased
<1>7. TypeOK'
  BY <1>2, <1>3, <1>4, ReleaseIs DEF Inv, TypeOK
<1>8. Shape'
  BY <1>3, <1>4 DEF Inv, Shape
<1>9. Queues'
  BY <1>2, <1>3, ReleaseIs DEF Inv, Queues, Follows
<1>10. Opened'
  <2>1. \A v \in Workers : disp[v].c \in Services \cup {Nil}
    BY <1>1
  <2> QED
    BY <1>2, <1>3, <1>4, <2>1, ReleaseIs, OpenedKept DEF Inv
<1>11. InOnePlace'
  BY <1>3, <1>4, PlacesKept DEF Inv
<1> QED
  BY <1>6, <1>7, <1>8, <1>9, <1>10, <1>11 DEF Inv

(* Operations that give up a reference and keep the queue if they have it. *)
LEMMA OpReleaseStep ==
    ASSUME Inv, NEW t \in Threads, OwnsRef(t), deleting[t] = Nil, Release(t, op[t].s),
           NEW x \in Operations, op' = [op EXCEPT ![t] = x],
           QueueOf(x) = QueueOf(op[t]), ContextOf(x) = Nil,
           x.pc = "idle" <=> x.s = Nil, x.pc # "drop",
           UNCHANGED <<slot, mq, globalq, disp, snd, rest>>,
           Opened'
    PROVE  Inv'
<1> DEFINE s == op[t].s
<1>1. Live(s) /\ s \in Services /\ ctx[s].ref > 0
  BY MayUse DEF Live
<1>2. /\ slot' = slot /\ mq' = mq /\ globalq' = globalq /\ disp' = disp /\ snd' = snd
      /\ quit' = quit /\ left' = left /\ Release(t, s)
  BY DEF rest
<1>3. /\ op' \in [Threads -> Operations]
      /\ op'[t] = x /\ \A u \in Threads \ {t} : op'[u] = op[u]
      /\ ContextOf(op[t]) = s
  BY DEF Inv, TypeOK, OwnsRef, ContextOf
<1>4. /\ RefIn(slot, op, snd, disp)[<<"op", t>>] = s
      /\ RefIn(slot', op', snd', disp')[<<"op", t>>] = Nil
      /\ \A k \in Refs \ {<<"op", t>>} :
             RefIn(slot', op', snd', disp')[k] = RefIn(slot, op, snd, disp)[k]
      /\ <<"op", t>> \in Refs
  BY <1>2, <1>3 DEF RefIn, Refs
<1> HIDE DEF s
<1>5. RefCounted'
  BY <1>1, <1>2, <1>4, CountsReleased
<1>6. TypeOK'
  BY SMTT(30), <1>1, <1>2, <1>3, ReleaseIs DEF Inv, TypeOK
<1>7. Shape'
  BY <1>2, <1>3 DEF Inv, Shape
<1>8. Queues'
  BY <1>1, <1>2, <1>3, ReleaseIs DEF Inv, Queues, Follows
<1>9. InOnePlace'
  BY <1>2, <1>3, PlacesKept DEF Inv
<1> QED
  BY <1>5, <1>6, <1>7, <1>8, <1>9 DEF Inv

(* The end of skynet_handle_retire, and the undoing of a launch.           *)
LEMMA RetiredStep ==
    ASSUME Inv, NEW t \in Threads, Retired(t) \/ Undone(t)
    PROVE  Inv'
<1> DEFINE x == IF op[t].pc = "retire" THEN NoOp ELSE [op[t] EXCEPT !.pc = "mqrelease"]
<1>1. /\ op[t].pc \in {"retire", "undone"} /\ op[t] \in Operations
      /\ op \in [Threads -> Operations]
  BY DEF Retired, Undone, Inv, TypeOK
<1>2. op' = [op EXCEPT ![t] = x]
  BY <1>1 DEF Retired, Undone
<1>3. /\ x \in Operations /\ x.pc \notin {"drop", "init", "retire", "undone"}
      /\ x.pc = "idle" <=> x.s = Nil
      /\ QueueOf(x) = QueueOf(op[t])
  BY <1>1 DEF NoOp, QueueOf, Inv, Shape
<1> HIDE DEF x
<1>4. OwnsRef(t) /\ ContextOf(x) = Nil
  BY <1>1, <1>3 DEF OwnsRef, ContextOf
<1>5. /\ UNCHANGED <<slot, mq, globalq, disp, snd, rest>>
      /\ deleting[t] = Nil /\ Release(t, op[t].s)
  BY DEF Retired, Undone, Operating
<1>6. Opened'
  <2>1. ctx[op[t].s].ref > 0 /\ op[t].s \in Services
    BY <1>4, MayUse DEF Live
  <2>2. \A u \in Threads : op[u].pc \in {"init", "ready", "undo"} => op'[u] = op[u]
    BY <1>1, <1>2
  <2>3. \A w \in Workers : disp[w].c \in Services \cup {Nil}
    BY DEF Inv, TypeOK
  <2> QED
    BY <1>5, <2>1, <2>2, <2>3, ReleaseIs, OpenedKept DEF Inv
<1> QED
  BY <1>2, <1>3, <1>4, <1>5, <1>6, OpReleaseStep

(* The init function of a new service returns.  The thread that launched   *)
(* it holds its queue: if it gave up the last reference, the service has   *)
(* left the table.                                                         *)
LEMMA InitReturnsStep ==
    ASSUME Inv, NEW t \in Threads, InitOk(t) \/ InitFailed(t)
    PROVE  Inv'
<1> DEFINE s == op[t].s
<1>1. /\ op[t].pc = "init" /\ op[t] \in Operations
      /\ op \in [Threads -> Operations]
      /\ UNCHANGED <<slot, mq, globalq, disp, snd, rest>>
      /\ deleting[t] = Nil /\ Release(t, s)
  BY DEF InitOk, InitFailed, Operating, Inv, TypeOK
<1>2. PICK p \in {"ready", "publish", "undo"} :
         /\ op' = [op EXCEPT ![t].pc = p]
         /\ p = "publish" => ctx[s].ref = 1
  BY DEF InitOk, InitFailed
<1> DEFINE x == [op[t] EXCEPT !.pc = p]
<1>3. /\ op' = [op EXCEPT ![t] = x]
      /\ x \in Operations /\ x.pc = p /\ x.s = s
  BY <1>1, <1>2
<1>4. OwnsRef(t) /\ Live(s) /\ s \in Services /\ s # Nil /\ ctx[s].ref > 0
  BY <1>1, MayUse, ThreadsAssumption DEF OwnsRef, Live
<1> HIDE DEF s, x
<1>5. ContextOf(x) = Nil /\ QueueOf(x) = QueueOf(op[t])
  BY <1>1, <1>3 DEF ContextOf, QueueOf, s
<1>6. p = "publish" => ~slot[s]
  <2> SUFFICES ASSUME p = "publish", slot[s] PROVE FALSE
    OBVIOUS
  <2> DEFINE f == RefIn(slot, op, snd, disp)
             g == RefIn(slot', op', snd', disp')
  <2>1. /\ f[<<"op", t>>] = s /\ g[<<"op", t>>] = Nil
        /\ \A k \in Refs \ {<<"op", t>>} : g[k] = f[k]
        /\ <<"op", t>> \in Refs /\ <<"table", s>> \in Refs
        /\ g[<<"table", s>>] = s
    BY <1>1, <1>2, <1>3, <1>4 DEF RefIn, Refs, ContextOf, s
  <2> HIDE DEF f, g
  <2>2. CountOf(g, s) = CountOf(f, s) - 1
    BY <1>4, <2>1, CountLoses
  <2>3. CountOf(f, s) = 1
    BY <1>2, <1>4, HoldersAre DEF f, Inv, RefCounted
  <2>4. Holding(g, s) # {}
    BY <2>1 DEF Holding
  <2> QED
    BY <2>2, <2>3, <2>4, CountType
<1>7. Opened'
  <2>1. ASSUME NEW y \in Services, slot'[y], ~ctx'[y].init
        PROVE  \E u \in Threads : op'[u].s = y /\ op'[u].pc \in {"init", "ready", "undo"}
    <3>1. slot[y] /\ ~ctx[y].init
      BY <1>1, <1>4, <2>1, ReleaseIs DEF s
    <3>2. PICK u \in Threads : op[u].s = y /\ op[u].pc \in {"init", "ready", "undo"}
      BY <3>1 DEF Inv, Opened
    <3>3. CASE u = t
      BY <1>1, <1>2, <1>3, <1>6, <3>1, <3>2, <3>3 DEF s
    <3>4. CASE u # t
      BY <1>1, <1>3, <3>2, <3>4
    <3> QED
      BY <3>3, <3>4
  <2>2. ASSUME NEW w \in Workers, disp'[w].c # Nil PROVE ctx'[disp'[w].c].init
    <3>1. disp' = disp /\ disp[w].c \in Services
      BY <1>1, <2>2 DEF Inv, TypeOK
    <3> QED
      BY <1>1, <1>4, <2>2, <3>1, ReleaseIs DEF Inv, Opened, s
  <2> QED
    BY <2>1, <2>2 DEF Opened
<1> QED
  BY <1>1, <1>3, <1>4, <1>5, <1>7, OpReleaseStep DEF s

-----------------------------------------------------------------------------
(* The last reference is gone: the context is freed, and its queue marked. *)
LEMMA DeleteContextStep ==
    ASSUME Inv, NEW t \in Threads, DeleteContext(t)
    PROVE  Inv'
<1> DEFINE s == deleting[t]
<1>1. /\ Live(s) /\ s \in Services /\ s # Nil /\ ctx[s].ref = 0
      /\ ctx[s] \in Contexts /\ mq[s] \in MessageQueues
  BY MayUse DEF DeleteContext, Live, Inv, TypeOK
<1>2. /\ slot' = slot /\ disp' = disp /\ op' = op /\ snd' = snd
      /\ quit' = quit /\ left' = left
      /\ mq' = [mq EXCEPT ![s].release = 1]
      /\ ctx' = [ctx EXCEPT ![s].state = "freed"]
      /\ globalq' = IF mq[s].in_global = 1 THEN globalq ELSE Append(globalq, s)
      /\ deleting' = [deleting EXCEPT ![t] = Nil]
  BY DEF DeleteContext, PushGlobal, rest
<1>3. /\ \A u \in Threads \ {t} : deleting'[u] = deleting[u] /\ deleting[u] # s
      /\ deleting'[t] = Nil
      /\ deleting' \in [Threads -> Services \cup {Nil}]
  BY <1>1, <1>2 DEF Inv, TypeOK, RefCounted
<1> HIDE DEF s
<1>4. /\ ctx' \in [Services -> Contexts] /\ mq' \in [Services -> MessageQueues]
      /\ ctx'[s].state = "freed" /\ ctx'[s].ref = 0
      /\ mq'[s].state = "live" /\ mq'[s].release = 1
      /\ \A x \in Services \ {s} : ctx'[x] = ctx[x] /\ mq'[x] = mq[x]
      /\ \A x \in Services : ctx'[x].ref = ctx[x].ref /\ ctx'[x].init = ctx[x].init
  BY <1>1, <1>2 DEF Inv, TypeOK, Live
<1>5. globalq \in Seq(Services) /\ globalq' \in Seq(Services)
  BY <1>1, <1>2, AppendProperties DEF Inv, TypeOK
<1>6. TypeOK'
  BY <1>2, <1>3, <1>4, <1>5 DEF Inv, TypeOK
<1>7. Shape'
  BY <1>2 DEF Inv, Shape
<1>8. InOnePlace'
  <2>1. OnePlace(globalq, HeldIn(disp, op), FlaggedIn(mq))
    BY InOnePlaceIs DEF Inv
  <2>2. FlaggedIn(mq') = FlaggedIn(mq) \cup {s}
    BY <1>1, <1>4 DEF FlaggedIn
  <2>3. CASE mq[s].in_global = 1
    <3>1. FlaggedIn(mq') = FlaggedIn(mq)
      BY <1>1, <2>2, <2>3 DEF FlaggedIn, Live
    <3> QED
      BY <1>2, <2>1, <2>3, <3>1, InOnePlaceIs
  <2>4. CASE mq[s].in_global # 1
    <3>1. s \notin FlaggedIn(mq)
      BY <1>1, <2>4 DEF FlaggedIn, Live
    <3>2. OnePlace(Append(globalq, s), HeldIn(disp, op), FlaggedIn(mq) \cup {s})
      BY <1>1, <1>5, <2>1, <3>1, SeqGains
    <3> QED
      BY <1>2, <2>2, <2>4, <3>2, InOnePlaceIs
  <2> QED
    BY <2>3, <2>4
<1>9. RefCounted'
  <2>1. \A x \in Services : Cardinality(Holders(x)') = Cardinality(Holders(x))
    BY <1>2, HoldersAre
  <2>2. \A x \in Services : ctx'[x].ref = Cardinality(Holders(x)')
    BY <1>4, <2>1 DEF Inv, RefCounted
  <2>3. \A u, v \in Threads : deleting'[u] # Nil /\ deleting'[u] = deleting'[v] => u = v
    BY <1>3 DEF Inv, RefCounted
  <2>4. ~ \E u \in Threads : deleting'[u] = s
    BY <1>1, <1>3
  <2>5. ASSUME NEW x \in Services \ {s}
        PROVE  ctx'[x].state = "live" /\ ctx'[x].ref = 0
               <=> \E u \in Threads : deleting'[u] = x
    <3>1. (\E u \in Threads : deleting'[u] = x) <=> \E u \in Threads : deleting[u] = x
      BY <1>3, ThreadsAssumption DEF s
    <3> QED
      BY <1>4, <3>1 DEF Inv, RefCounted
  <2>6. ctx'[s].state # "live"
    BY <1>4
  <2> QED
    BY <2>2, <2>3, <2>4, <2>5, <2>6 DEF RefCounted
<1>10. Queues'
  <2>1. ASSUME NEW x \in Services PROVE Follows(ctx'[x], mq'[x])
    <3>1. Follows(ctx[x], mq[x])
      BY DEF Inv, Queues
    <3> QED
      BY <1>4, <3>1 DEF Follows
  <2>2. ASSUME NEW u \in Threads, op'[u].pc = "drop"
        PROVE  mq'[op'[u].s].release = 1
    <3>1. op'[u] = op[u] /\ op[u].s \in Services /\ mq[op[u].s].release = 1
      BY <1>2, <2>2, MayUse DEF Inv, Queues
    <3>2. \A x \in Services : mq[x].release = 1 => mq'[x].release = 1
      BY <1>4
    <3> QED
      BY <3>1, <3>2
  <2> QED
    BY <2>1, <2>2 DEF Queues
<1>11. Opened'
  <2>1. \A w \in Workers : disp[w].c \in Services \cup {Nil}
    BY DEF Inv, TypeOK
  <2> QED
    BY <1>2, <1>4, <2>1, OpenedKept DEF Inv
<1> QED
  BY <1>6, <1>7, <1>8, <1>9, <1>10, <1>11 DEF Inv

(* skynet_context_new sets init.                                           *)
LEMMA SetInitStep ==
    ASSUME Inv, NEW t \in Threads, SetInit(t)
    PROVE  Inv'
<1> DEFINE s == op[t].s
<1>1. /\ op[t].pc = "ready" /\ op[t] \in Operations /\ s \in Services /\ s # Nil
      /\ op \in [Threads -> Operations] /\ ctx \in [Services -> Contexts]
  BY MayUse, ThreadsAssumption DEF SetInit, Inv, TypeOK
<1>2. /\ UNCHANGED <<slot, mq, globalq, disp, snd, deleting, quit, left>>
      /\ ctx' = [ctx EXCEPT ![s].init = TRUE]
      /\ op' = [op EXCEPT ![t].pc = "announce"]
  BY DEF SetInit, rest
<1>3. /\ ctx' \in [Services -> Contexts] /\ ctx'[s].init
      /\ \A x \in Services : /\ ctx'[x].state = ctx[x].state /\ ctx'[x].ref = ctx[x].ref
                             /\ ctx[x].init => ctx'[x].init
      /\ \A x \in Services \ {s} : ctx'[x] = ctx[x]
  <2> DEFINE e == [ctx[s] EXCEPT !.init = TRUE]
  <2>1. ctx' = [ctx EXCEPT ![s] = e]
    BY <1>1, <1>2
  <2>2. ctx[s] \in Contexts
    BY <1>1
  <2>3. e \in Contexts /\ e.init /\ e.state = ctx[s].state /\ e.ref = ctx[s].ref
    BY <2>2
  <2> HIDE DEF e, s
  <2> QED
    BY <1>1, <2>1, <2>3
<1>4. /\ op' \in [Threads -> Operations] /\ op'[t].pc = "announce" /\ op'[t].s = s
      /\ \A u \in Threads \ {t} : op'[u] = op[u]
  BY <1>1, <1>2
<1> HIDE DEF s
<1>5. TypeOK'
  BY <1>2, <1>3, <1>4 DEF Inv, TypeOK
<1>6. Shape'
  BY <1>1, <1>2, <1>4 DEF Inv, Shape
<1>7. InOnePlace'
  <2>1. \A u \in Threads : QueueOf(op'[u]) = QueueOf(op[u])
    BY <1>1, <1>4 DEF QueueOf, s
  <2> QED
    BY <1>2, <2>1, PlacesKept DEF Inv
<1>8. RefCounted'
  <2>1. \A u \in Threads : ContextOf(op'[u]) = ContextOf(op[u])
    BY <1>1, <1>4 DEF ContextOf
  <2> QED
    BY <1>2, <1>3, <2>1, CountsKept DEF Inv
<1>9. Queues'
  BY <1>2, <1>3, <1>4 DEF Inv, Queues, Follows
<1>10. Opened'
  <2>1. ASSUME NEW x \in Services, slot'[x], ~ctx'[x].init
        PROVE  \E u \in Threads : op'[u].s = x /\ op'[u].pc \in {"init", "ready", "undo"}
    <3>1. x # s /\ slot[x] /\ ~ctx[x].init
      BY <1>2, <1>3, <2>1
    <3>2. PICK u \in Threads : op[u].s = x /\ op[u].pc \in {"init", "ready", "undo"}
      BY <3>1 DEF Inv, Opened
    <3>3. u # t
      BY <3>1, <3>2 DEF s
    <3> QED
      BY <1>4, <3>2, <3>3
  <2>2. ASSUME NEW w \in Workers, disp'[w].c # Nil PROVE ctx'[disp'[w].c].init
    BY <1>2, <1>3, <2>2 DEF Inv, Opened, TypeOK
  <2> QED
    BY <2>1, <2>2 DEF Opened
<1> QED
  BY <1>5, <1>6, <1>7, <1>8, <1>9, <1>10 DEF Inv

(* An operation that has neither queue nor reference.                      *)
Bare(x) == /\ x \in Operations /\ x.pc \in {"idle", "log", "return"}
           /\ x.pc = "idle" <=> x.s = Nil

(* An operation gives its queue to the global queue.                       *)
LEMMA PushOfOp ==
    ASSUME Inv, NEW t \in Threads, OwnsQueue(t), ~OwnsRef(t),
           op[t].pc \notin {"init", "ready", "undo"},
           PushGlobal(op[t].s), NEW x, Bare(x), op' = [op EXCEPT ![t] = x],
           UNCHANGED <<slot, ctx, mq, disp, snd, deleting, quit, left>>
    PROVE  Inv'
<1> DEFINE s == op[t].s
<1>1. /\ op[t] \in Operations /\ s \in Services /\ Flagged(s)
      /\ op \in [Threads -> Operations] /\ globalq \in Seq(Services)
  BY MayUse DEF Inv, TypeOK
<1>2. /\ op' \in [Threads -> Operations] /\ op'[t] = x /\ Bare(x)
      /\ \A u \in Threads \ {t} : op'[u] = op[u]
      /\ globalq' = Append(globalq, s)
  BY <1>1 DEF Bare, PushGlobal
<1> HIDE DEF s
<1>3. TypeOK'
  BY <1>1, <1>2, AppendProperties DEF Inv, TypeOK
<1>4. Shape'
  BY <1>2 DEF Inv, Shape, Bare
<1>5. InOnePlace'
  <2> DEFINE f == HeldIn(disp, op)
             g == HeldIn(disp', op')
             F == FlaggedIn(mq)
  <2>1. /\ f[<<"op", t>>] = s /\ g[<<"op", t>>] = Nil
        /\ \A h \in Hands \ {<<"op", t>>} : g[h] = f[h]
        /\ <<"op", t>> \in Hands
    BY <1>1, <1>2 DEF HeldIn, Hands, QueueOf, OwnsQueue, Bare, s
  <2>2. OnePlace(globalq, f, F) /\ s \in F
    BY <1>1, InOnePlaceIs DEF Inv, FlaggedIn, Flagged
  <2> HIDE DEF f, g, F
  <2>3. OnePlace(globalq, g, F \ {s})
    BY <1>1, <2>1, <2>2, HandLoses
  <2>4. OnePlace(Append(globalq, s), g, (F \ {s}) \cup {s})
    BY <1>1, <2>3, SeqGains
  <2>5. (F \ {s}) \cup {s} = F
    BY <2>2
  <2> QED
    BY <1>2, <2>4, <2>5, InOnePlaceIs DEF g, F
<1>6. RefCounted'
  <2>1. \A u \in Threads : ContextOf(op'[u]) = ContextOf(op[u])
    BY <1>2 DEF ContextOf, Bare, OwnsRef
  <2> QED
    BY <2>1, CountsKept DEF Inv
<1>7. Queues'
  BY <1>2 DEF Inv, Queues, Bare
<1>8. Opened'
  <2>1. \A u \in Threads : op[u].pc \in {"init", "ready", "undo"} => op'[u] = op[u]
    BY <1>2
  <2>2. \A w \in Workers : disp[w].c \in Services \cup {Nil}
    BY DEF Inv, TypeOK
  <2> QED
    BY <2>1, <2>2, OpenedKept DEF Inv
<1> QED
  BY <1>3, <1>4, <1>5, <1>6, <1>7, <1>8 DEF Inv

(* The end of an operation.                                                *)
LEMMA NoOpIsBare == Bare(NoOp)
BY DEF Bare, NoOp

(* A launched service is published.                                        *)
LEMMA PublishStep ==
    ASSUME Inv, NEW t \in Threads, Publish(t)
    PROVE  Inv'
<1> DEFINE x == IF op[t].pc = "announce" THEN [op[t] EXCEPT !.pc = "log"] ELSE NoOp
<1>1. op[t] \in Operations /\ op[t].pc \in {"publish", "announce"} /\ op[t].s # Nil
  BY DEF Publish, Inv, TypeOK, Shape
<1>2. Bare(x)
  BY <1>1, NoOpIsBare DEF Bare
<1>3. op' = [op EXCEPT ![t] = x]
  BY DEF Publish
<1>4. OwnsQueue(t) /\ ~OwnsRef(t) /\ op[t].pc \notin {"init", "ready", "undo"}
  BY <1>1 DEF OwnsQueue, OwnsRef
<1> HIDE DEF x
<1> QED
  BY <1>2, <1>3, <1>4, PushOfOp DEF Publish, rest

(* It is logged, and its handle returned.                                  *)
LEMMA ReturnStep ==
    ASSUME Inv, NEW t \in Threads, LogLaunch(t) \/ ReturnHandle(t)
    PROVE  Inv'
<1>1. /\ op[t] \in Operations /\ op \in [Threads -> Operations]
      /\ Bare(op[t]) /\ op[t].pc # "idle"
  BY DEF LogLaunch, ReturnHandle, Inv, TypeOK, Shape, Bare
<1>2. PICK x : Bare(x) /\ op' = [op EXCEPT ![t] = x]
  <2>1. Bare([op[t] EXCEPT !.pc = "return"])
    BY <1>1 DEF Bare
  <2>2. \/ op' = [op EXCEPT ![t] = [op[t] EXCEPT !.pc = "return"]]
        \/ op' = [op EXCEPT ![t] = NoOp]
    BY DEF LogLaunch, ReturnHandle
  <2> QED
    BY <2>1, <2>2, NoOpIsBare
<1>3. UNCHANGED <<slot, ctx, mq, globalq, disp, snd, deleting, quit, left>>
  BY DEF LogLaunch, ReturnHandle, data, rest
<1>4. /\ op' \in [Threads -> Operations] /\ op'[t] = x /\ Bare(x)
      /\ \A u \in Threads \ {t} : op'[u] = op[u]
  BY <1>1, <1>2 DEF Bare
<1>5. TypeOK'
  BY <1>3, <1>4 DEF Inv, TypeOK
<1>6. Shape'
  BY <1>3, <1>4 DEF Inv, Shape, Bare
<1>7. InOnePlace'
  <2>1. \A u \in Threads : QueueOf(op'[u]) = QueueOf(op[u])
    BY <1>1, <1>4 DEF QueueOf, Bare
  <2> QED
    BY <1>3, <2>1, PlacesKept DEF Inv
<1>8. RefCounted'
  <2>1. \A u \in Threads : ContextOf(op'[u]) = ContextOf(op[u])
    BY <1>1, <1>4 DEF ContextOf, Bare
  <2> QED
    BY <1>3, <2>1, CountsKept DEF Inv
<1>9. Queues'
  BY <1>3, <1>4 DEF Inv, Queues, Bare
<1>10. Opened'
  <2>1. \A u \in Threads : op[u].pc \in {"init", "ready", "undo"} => op'[u] = op[u]
    BY <1>1, <1>4 DEF Bare
  <2>2. \A w \in Workers : disp[w].c \in Services \cup {Nil}
    BY DEF Inv, TypeOK
  <2> QED
    BY <1>3, <2>1, <2>2, OpenedKept DEF Inv
<1> QED
  BY <1>5, <1>6, <1>7, <1>8, <1>9, <1>10 DEF Inv

(* Only the pc of an operation changes, between two points where it has no *)
(* reference.                                                              *)
LEMMA OpGoesOn ==
    ASSUME Inv, NEW t \in Threads, NEW p \in {"mqrelease", "drop"},
           op[t].pc \in {"undo", "mqrelease"}, op' = [op EXCEPT ![t].pc = p],
           p = "drop" => mq[op[t].s].release = 1,
           op[t].pc = "undo" => ~slot[op[t].s],
           UNCHANGED <<slot, ctx, mq, globalq, disp, snd, deleting, quit, left>>
    PROVE  Inv'
<1>1. op[t] \in Operations /\ op \in [Threads -> Operations]
  BY DEF Inv, TypeOK
<1>2. /\ op' \in [Threads -> Operations] /\ op'[t].pc = p /\ op'[t].s = op[t].s
      /\ \A u \in Threads \ {t} : op'[u] = op[u]
  BY <1>1
<1>3. TypeOK'
  BY <1>2 DEF Inv, TypeOK
<1>4. Shape'
  BY <1>2 DEF Inv, Shape
<1>5. InOnePlace'
  <2>1. \A u \in Threads : QueueOf(op'[u]) = QueueOf(op[u])
    BY <1>2 DEF QueueOf
  <2> QED
    BY <2>1, PlacesKept DEF Inv
<1>6. RefCounted'
  <2>1. \A u \in Threads : ContextOf(op'[u]) = ContextOf(op[u])
    BY <1>2 DEF ContextOf
  <2> QED
    BY <2>1, CountsKept DEF Inv
<1>7. Queues'
  BY <1>2 DEF Inv, Queues
<1>8. Opened'
  <2>1. ASSUME NEW x \in Services, slot[x], ~ctx[x].init
        PROVE  \E u \in Threads : op'[u].s = x /\ op'[u].pc \in {"init", "ready", "undo"}
    <3>1. PICK u \in Threads : op[u].s = x /\ op[u].pc \in {"init", "ready", "undo"}
      BY <2>1 DEF Inv, Opened
    <3>2. u # t
      BY <2>1, <3>1
    <3> QED
      BY <1>2, <3>1, <3>2
  <2> QED
    BY <2>1 DEF Inv, Opened
<1> QED
  BY <1>3, <1>4, <1>5, <1>6, <1>7, <1>8 DEF Inv

(* A queue whose service is gone goes on to be dropped, or goes back.      *)
LEMMA MqReleaseStep ==
    ASSUME Inv, NEW t \in Threads, MqRelease(t)
    PROVE  Inv'
<1>1. CASE mq[op[t].s].release = 1
  BY <1>1, OpGoesOn DEF MqRelease, rest
<1>2. CASE mq[op[t].s].release # 1
  BY <1>2, PushOfOp, NoOpIsBare DEF MqRelease, rest, OwnsQueue, OwnsRef
<1> QED
  BY <1>1, <1>2

(* The table's reference goes to a thread that retires the service.        *)
LEMMA TakenFromTable ==
    ASSUME Inv, NEW t \in Threads, NEW s \in Services, slot[s],
           slot' = [slot EXCEPT ![s] = FALSE],
           NEW x \in Operations, op' = [op EXCEPT ![t] = x], x.s = s,
           x.pc \in {"retire", "undone"}, QueueOf(x) = QueueOf(op[t]),
           op[t].pc \in {"idle", "undo"}, op[t].pc = "undo" => op[t].s = s,
           UNCHANGED <<ctx, mq, globalq, disp, snd, deleting, quit, left>>
    PROVE  Inv'
<1>1. /\ op[t] \in Operations /\ op \in [Threads -> Operations]
      /\ slot \in [Services -> BOOLEAN]
  BY DEF Inv, TypeOK
<1>2. /\ op' \in [Threads -> Operations] /\ op'[t] = x
      /\ \A u \in Threads \ {t} : op'[u] = op[u]
      /\ slot' \in [Services -> BOOLEAN] /\ ~slot'[s]
      /\ \A y \in Services \ {s} : slot'[y] = slot[y]
  BY <1>1
<1>3. TypeOK'
  BY <1>2 DEF Inv, TypeOK
<1>4. Shape'
  BY <1>2, ThreadsAssumption DEF Inv, Shape
<1>5. InOnePlace'
  BY <1>2, PlacesKept DEF Inv
<1>6. RefCounted'
  <2>1. ContextOf(op[t]) = Nil /\ ContextOf(op'[t]) = s
    BY <1>2 DEF ContextOf
  <2> QED
    BY <1>2, <2>1, CountsMoved DEF Inv
<1>7. Queues'
  BY <1>2 DEF Inv, Queues
<1>8. Opened'
  <2>1. ASSUME NEW y \in Services, slot'[y], ~ctx[y].init
        PROVE  \E u \in Threads : op'[u].s = y /\ op'[u].pc \in {"init", "ready", "undo"}
    <3>1. y # s /\ slot[y]
      BY <1>2, <2>1
    <3>2. PICK u \in Threads : op[u].s = y /\ op[u].pc \in {"init", "ready", "undo"}
      BY <2>1, <3>1 DEF Inv, Opened
    <3>3. u # t
      BY <3>1, <3>2
    <3> QED
      BY <1>2, <3>2, <3>3
  <2> QED
    BY <2>1 DEF Inv, Opened
<1> QED
  BY <1>3, <1>4, <1>5, <1>6, <1>7, <1>8 DEF Inv

(* A launch that failed takes its service out of the table, unless another *)
(* thread has.                                                             *)
LEMMA UndoRegisterStep ==
    ASSUME Inv, NEW t \in Threads, UndoRegister(t)
    PROVE  Inv'
<1>1. /\ op[t].pc = "undo" /\ op[t] \in Operations /\ op[t].s \in Services
      /\ slot \in [Services -> BOOLEAN] /\ op \in [Threads -> Operations]
  BY MayUse DEF UndoRegister, Inv, TypeOK
<1>2. CASE slot[op[t].s]
  <2> DEFINE x == [op[t] EXCEPT !.pc = "undone"]
  <2>1. x \in Operations /\ x.s = op[t].s /\ x.pc = "undone" /\ op' = [op EXCEPT ![t] = x]
    BY <1>1, <1>2 DEF UndoRegister
  <2> HIDE DEF x
  <2>2. QueueOf(x) = QueueOf(op[t])
    BY <1>1, <2>1 DEF QueueOf
  <2> QED
    <3>1. /\ slot' = [slot EXCEPT ![op[t].s] = FALSE]
          /\ UNCHANGED <<ctx, mq, globalq, disp, snd, deleting, quit, left>>
      BY DEF UndoRegister, rest
    <3> QED
      BY <1>1, <1>2, <2>1, <2>2, <3>1, TakenFromTable
<1>3. CASE ~slot[op[t].s]
  <2>1. slot' = slot
    BY <1>1, <1>3 DEF UndoRegister
  <2> QED
    BY <1>1, <1>3, <2>1, OpGoesOn DEF UndoRegister, rest
<1> QED
  BY <1>2, <1>3

(* A handler retires a service.                                            *)
LEMMA RetireStep ==
    ASSUME Inv, NEW t \in Threads, NEW s \in Services, Retire(t, s)
    PROVE  Inv'
<1> DEFINE x == [pc |-> "retire", s |-> s]
<1>1. x \in Operations /\ x.s = s /\ x.pc = "retire" /\ op' = [op EXCEPT ![t] = x]
  BY DEF Retire
<1>2. op[t].pc = "idle"
  BY DEF Retire, InHandler, Dispatching, Calling
<1> HIDE DEF x
<1>3. QueueOf(x) = QueueOf(op[t])
  BY <1>1, <1>2 DEF QueueOf
<1>4. /\ slot[s] /\ slot' = [slot EXCEPT ![s] = FALSE]
      /\ UNCHANGED <<ctx, mq, globalq, disp, snd, deleting, quit, left>>
  BY DEF Retire, rest
<1> QED
  BY <1>1, <1>2, <1>3, <1>4, TakenFromTable

(* A handler launches a service: the table and the thread have each a      *)
(* reference, and the thread has the queue.                                *)
LEMMA LaunchStep ==
    ASSUME Inv, NEW t \in Threads, NEW s \in Services, Launch(t, s)
    PROVE  Inv'
<1>1. /\ ctx[s].state = "none" /\ ctx[s].ref = 0 /\ mq[s] = NoMq
      /\ op[t].pc = "idle" /\ op[t].s = Nil /\ s # Nil
      /\ slot \in [Services -> BOOLEAN] /\ ctx \in [Services -> Contexts]
      /\ mq \in [Services -> MessageQueues] /\ op \in [Threads -> Operations]
  <2>1. op[t].pc = "idle" /\ ctx[s].state = "none"
    BY DEF Launch, InHandler, Dispatching, Calling
  <2> QED
    BY <2>1, ThreadsAssumption DEF Inv, TypeOK, Shape, Queues, Follows
<1>2. ~slot[s]
  BY <1>1, MayUse DEF Live
<1>3. /\ slot' = [slot EXCEPT ![s] = TRUE]
      /\ ctx' = [ctx EXCEPT ![s] = [state |-> "live", ref |-> 2, init |-> FALSE]]
      /\ mq' = [mq EXCEPT ![s] = NewMq]
      /\ op' = [op EXCEPT ![t] = [pc |-> "init", s |-> s]]
      /\ UNCHANGED <<globalq, disp, snd, deleting, quit, left>>
  BY DEF Launch, rest
<1>4. /\ NewMq.state = "live" /\ NewMq.msgs = <<>> /\ NewMq.in_global = 1
      /\ NewMq.release = 0 /\ NewMq \in MessageQueues
  <2>1. NoMq \in MessageQueues /\ NoMq.msgs = <<>> /\ NoMq.release = 0
    BY EmptySeq DEF NoMq
  <2> QED
    BY <2>1 DEF NewMq
<1>5. /\ slot' \in [Services -> BOOLEAN] /\ slot'[s]
      /\ ctx' \in [Services -> Contexts]
      /\ ctx'[s].state = "live" /\ ctx'[s].ref = 2
      /\ mq' \in [Services -> MessageQueues] /\ mq'[s] = NewMq
      /\ op' \in [Threads -> Operations] /\ op'[t].pc = "init" /\ op'[t].s = s
      /\ \A x \in Services \ {s} : ctx'[x] = ctx[x] /\ mq'[x] = mq[x] /\ slot'[x] = slot[x]
      /\ \A u \in Threads \ {t} : op'[u] = op[u]
  BY <1>1, <1>3, <1>4, EmptySeq
<1>6. TypeOK'
  BY <1>3, <1>5 DEF Inv, TypeOK
<1>7. Shape'
  BY <1>1, <1>3, <1>5 DEF Inv, Shape
<1>8. InOnePlace'
  <2> DEFINE f == HeldIn(disp, op)
             g == HeldIn(disp', op')
  <2>1. /\ f[<<"op", t>>] = Nil /\ g[<<"op", t>>] = s
        /\ \A h \in Hands \ {<<"op", t>>} : g[h] = f[h]
        /\ <<"op", t>> \in Hands
    BY <1>1, <1>3, <1>5 DEF HeldIn, Hands, QueueOf
  <2>2. OnePlace(globalq, f, FlaggedIn(mq))
    BY InOnePlaceIs DEF Inv
  <2>3. s \notin FlaggedIn(mq) /\ FlaggedIn(mq') = FlaggedIn(mq) \cup {s}
    BY <1>1, <1>4, <1>5 DEF FlaggedIn, NoMq
  <2> HIDE DEF f, g
  <2>4. OnePlace(globalq, g, FlaggedIn(mq) \cup {s})
    BY <2>1, <2>2, <2>3, HandGains
  <2> QED
    BY <1>3, <2>3, <2>4, InOnePlaceIs DEF g
<1>9. RefCounted'
  <2> DEFINE f == RefIn(slot, op, snd, disp)
             g == RefIn(slot', op', snd', disp')
             a == <<"table", s>>
             b == <<"op", t>>
             e == [h \in Refs |-> IF h = a THEN s ELSE f[h]]
  <2>1. a \in Refs /\ b \in Refs /\ a # b
    BY DEF Refs
  <2>2. /\ f[a] = Nil /\ f[b] = Nil /\ g[a] = s /\ g[b] = s
        /\ \A h \in Refs \ {a, b} : g[h] = f[h]
    BY <1>1, <1>2, <1>3, <1>5 DEF RefIn, Refs, ContextOf
  <2>3. /\ e[a] = s /\ e[b] = Nil
        /\ \A h \in Refs \ {a} : e[h] = f[h]
        /\ \A h \in Refs \ {b} : g[h] = e[h]
    BY <2>1, <2>2
  <2> HIDE DEF f, g, a, b, e
  <2>4. /\ CountOf(e, s) = CountOf(f, s) + 1
        /\ \A x \in Services \ {s} : CountOf(e, x) = CountOf(f, x)
    BY <2>1, <2>2, <2>3, CountGains
  <2>5. /\ CountOf(g, s) = CountOf(e, s) + 1
        /\ \A x \in Services \ {s} : CountOf(g, x) = CountOf(e, x)
    BY <2>1, <2>2, <2>3, CountGains
  <2>6. /\ CountOf(f, s) = 0
        /\ \A x \in Services : ctx[x].ref = CountOf(f, x)
    BY <1>1, HoldersAre DEF Inv, RefCounted, f
  <2>7. /\ CountOf(g, s) = 2
        /\ \A x \in Services \ {s} : CountOf(g, x) = ctx[x].ref
    BY <2>4, <2>5, <2>6
  <2>8. \A x \in Services : Cardinality(Holders(x)') = CountOf(g, x)
    BY HoldersAre DEF g
  <2>9. \A x \in Services : ctx'[x].ref = Cardinality(Holders(x)')
    BY <1>5, <2>7, <2>8
  <2>10. \A u \in Threads : deleting[u] # s
    BY <1>1, MayUse DEF Live
  <2>11. \A x \in Services : ctx'[x].state = "live" /\ ctx'[x].ref = 0
                             <=> \E u \in Threads : deleting'[u] = x
    BY <1>3, <1>5, <2>10 DEF Inv, RefCounted
  <2> QED
    BY <1>3, <2>9, <2>11 DEF Inv, RefCounted
<1>10. Queues'
  <2>1. ASSUME NEW x \in Services PROVE Follows(ctx'[x], mq'[x])
    <3>1. Follows(ctx[x], mq[x])
      BY DEF Inv, Queues
    <3>2. CASE x = s
      BY <1>4, <1>5, <3>2 DEF Follows
    <3>3. CASE x # s
      BY <1>5, <3>1, <3>3
    <3> QED
      BY <3>2, <3>3
  <2>2. ASSUME NEW u \in Threads, op'[u].pc = "drop"
        PROVE  mq'[op'[u].s].release = 1
    <3>1. u # t /\ op'[u] = op[u] /\ op[u].s \in Services /\ mq[op[u].s].release = 1
      BY <1>5, <2>2, MayUse DEF Inv, Queues
    <3>2. op[u].s # s
      BY <1>1, <3>1 DEF NoMq
    <3> QED
      BY <1>5, <3>1, <3>2
  <2> QED
    BY <2>1, <2>2 DEF Queues
<1>11. Opened'
  <2>1. ASSUME NEW x \in Services, slot'[x], ~ctx'[x].init
        PROVE  \E u \in Threads : op'[u].s = x /\ op'[u].pc \in {"init", "ready", "undo"}
    <3>1. CASE x = s
      BY <1>5, <3>1
    <3>2. CASE x # s
      <4>1. slot[x] /\ ~ctx[x].init
        BY <1>5, <2>1, <3>2
      <4>2. PICK u \in Threads : op[u].s = x /\ op[u].pc \in {"init", "ready", "undo"}
        BY <4>1 DEF Inv, Opened
      <4>3. u # t
        BY <1>1, <4>2
      <4> QED
        BY <1>5, <4>2, <4>3
    <3> QED
      BY <3>1, <3>2
  <2>2. ASSUME NEW w \in Workers, disp'[w].c # Nil PROVE ctx'[disp'[w].c].init
    <3>1. disp[w].c # Nil /\ disp[w].c \in Services /\ ctx[disp[w].c].state = "live"
          /\ ctx[disp[w].c].init
      BY <1>3, <2>2, MayUse DEF Inv, Opened, Live
    <3>2. disp[w].c # s
      BY <1>1, <3>1
    <3> QED
      BY <1>3, <1>5, <3>1, <3>2
  <2> QED
    BY <2>1, <2>2 DEF Opened
<1> QED
  BY <1>6, <1>7, <1>8, <1>9, <1>10, <1>11 DEF Inv

(* A dropped queue is freed when its last message has been reported.       *)
LEMMA FreeQueueStep ==
    ASSUME Inv, NEW t \in Threads, FreeQueue(t)
    PROVE  Inv'
<1> DEFINE s == op[t].s
<1>1. /\ op[t].pc = "drop" /\ op[t] \in Operations /\ s \in Services /\ s # Nil /\ Flagged(s)
      /\ mq[s].release = 1 /\ mq[s].msgs = <<>> /\ Follows(ctx[s], mq[s])
      /\ mq \in [Services -> MessageQueues] /\ op \in [Threads -> Operations]
  BY MayUse, ThreadsAssumption DEF FreeQueue, OwnsQueue, Inv, TypeOK, Queues
<1>2. /\ mq' = [mq EXCEPT ![s].state = "freed", ![s].in_global = 0]
      /\ op' = [op EXCEPT ![t] = NoOp]
      /\ UNCHANGED <<slot, ctx, globalq, disp, snd, deleting, quit, left>>
  BY DEF FreeQueue, rest
<1>3. /\ op' \in [Threads -> Operations] /\ op'[t] = NoOp
      /\ \A u \in Threads \ {t} : op'[u] = op[u]
  BY <1>1, <1>2 DEF NoOp
<1> HIDE DEF s
<1>4. /\ mq' \in [Services -> MessageQueues]
      /\ mq'[s].state = "freed" /\ mq'[s].msgs = <<>> /\ mq'[s].release = 1
      /\ \A x \in Services \ {s} : mq'[x] = mq[x]
      /\ \A x \in Services : mq'[x].release = mq[x].release
  <2> DEFINE e == [mq[s] EXCEPT !.state = "freed", !.in_global = 0]
  <2>1. mq' = [mq EXCEPT ![s] = e]
    BY <1>1, <1>2
  <2>2. mq[s] \in MessageQueues
    BY <1>1
  <2>3. e \in MessageQueues /\ e.state = "freed" /\ e.msgs = <<>> /\ e.release = 1
    BY <1>1, <2>2
  <2> HIDE DEF e
  <2> QED
    BY <1>1, <2>1, <2>3
<1>5. TypeOK'
  BY <1>2, <1>3, <1>4 DEF Inv, TypeOK
<1>6. Shape'
  BY <1>2, <1>3 DEF Inv, Shape, NoOp
<1>7. InOnePlace'
  <2> DEFINE f == HeldIn(disp, op)
             g == HeldIn(disp', op')
  <2>1. /\ f[<<"op", t>>] = s /\ g[<<"op", t>>] = Nil
        /\ \A h \in Hands \ {<<"op", t>>} : g[h] = f[h]
        /\ <<"op", t>> \in Hands
    BY <1>1, <1>2, <1>3 DEF HeldIn, Hands, QueueOf, NoOp, s
  <2>2. OnePlace(globalq, f, FlaggedIn(mq))
    BY InOnePlaceIs DEF Inv
  <2>3. FlaggedIn(mq') = FlaggedIn(mq) \ {s}
    BY <1>1, <1>4 DEF FlaggedIn
  <2> HIDE DEF f, g
  <2>4. OnePlace(globalq, g, FlaggedIn(mq) \ {s})
    BY <1>1, <2>1, <2>2, HandLoses
  <2> QED
    BY <1>2, <2>3, <2>4, InOnePlaceIs DEF g
<1>8. RefCounted'
  <2>1. op[t].pc = "drop" /\ NoOp.pc = "idle"
    BY <1>1 DEF NoOp
  <2>2. ContextOf(op'[t]) = Nil /\ ContextOf(op[t]) = Nil
    BY <1>3, <2>1 DEF ContextOf
  <2>3. \A u \in Threads : ContextOf(op'[u]) = ContextOf(op[u])
    BY <1>3, <2>2
  <2> QED
    BY <1>2, <2>3, CountsKept DEF Inv
<1>9. Queues'
  <2>1. ASSUME NEW x \in Services PROVE Follows(ctx'[x], mq'[x])
    <3>1. Follows(ctx[x], mq[x])
      BY DEF Inv, Queues
    <3> QED
      BY <1>1, <1>2, <1>4, <3>1 DEF Follows, NoMq, Flagged
  <2>2. ASSUME NEW u \in Threads, op'[u].pc = "drop"
        PROVE  mq'[op'[u].s].release = 1
    <3>1. op'[u] = op[u] /\ op[u].s \in Services /\ mq[op[u].s].release = 1
      BY <1>3, <2>2, MayUse DEF Inv, Queues, NoOp
    <3> QED
      BY <1>4, <3>1
  <2> QED
    BY <2>1, <2>2 DEF Queues
<1>10. Opened'
  <2>1. \A u \in Threads : op[u].pc \in {"init", "ready", "undo"} => op'[u] = op[u]
    BY <1>1, <1>3
  <2>2. \A w \in Workers : disp[w].c \in Services \cup {Nil}
    BY DEF Inv, TypeOK
  <2> QED
    BY <1>2, <2>1, <2>2, OpenedKept DEF Inv
<1> QED
  BY <1>5, <1>6, <1>7, <1>8, <1>9, <1>10 DEF Inv

-----------------------------------------------------------------------------
(* What a thread that grabs a context to send to it leaves in ctx and snd, *)
(* and that the references still count.                                    *)
LEMMA GrabIs ==
    ASSUME Inv, NEW t \in Threads, NEW s \in Services, NEW m \in Messages,
           GrabToSend(t, s, m), snd[t].pc = "idle",
           UNCHANGED <<slot, disp, op, deleting>>
    PROVE  /\ ctx' \in [Services -> Contexts]
           /\ snd' \in [Threads -> Sends]
           /\ \A x \in Services : /\ ctx'[x].state = ctx[x].state /\ ctx'[x].init = ctx[x].init
                                  /\ ctx[x].state # "live" => ctx'[x].ref = ctx[x].ref
           /\ \A u \in Threads : /\ snd'[u].pc = "idle" <=> snd'[u].to = Nil
                                 /\ snd'[u].pc = "push" => snd'[u].msg \in Messages
           /\ RefCounted'
<1>1. /\ slot[s] /\ s # Nil
      /\ ctx' = [ctx EXCEPT ![s].ref = @ + 1]
      /\ snd' = [snd EXCEPT ![t] = [pc |-> "push", to |-> s, msg |-> m]]
  BY ThreadsAssumption DEF GrabToSend
<1>2. ctx[s].state = "live" /\ ctx[s].ref \in Nat /\ ctx[s].ref + 1 \in Nat
  BY <1>1, MayUse DEF Inv, TypeOK, Live
<1>3. /\ ctx \in [Services -> Contexts] /\ snd \in [Threads -> Sends]
      /\ snd[t].to = Nil
      /\ \A u \in Threads : /\ snd[u].pc = "idle" <=> snd[u].to = Nil
                            /\ snd[u].pc = "push" => snd[u].msg \in Messages
  BY DEF Inv, TypeOK, Shape
<1>4. ctx' \in [Services -> Contexts]
  BY <1>1, <1>2, <1>3
<1>5. snd' \in [Threads -> Sends]
  BY <1>1, <1>3
<1>6. /\ \A x \in Services : /\ ctx'[x].state = ctx[x].state /\ ctx'[x].init = ctx[x].init
                             /\ ctx[x].state # "live" => ctx'[x].ref = ctx[x].ref
      /\ \A u \in Threads : /\ snd'[u].pc = "idle" <=> snd'[u].to = Nil
                            /\ snd'[u].pc = "push" => snd'[u].msg \in Messages
  BY <1>1, <1>2, <1>3
<1>7. /\ RefIn(slot, op, snd, disp)[<<"snd", t>>] = Nil
      /\ RefIn(slot', op', snd', disp')[<<"snd", t>>] = s
      /\ \A k \in Refs \ {<<"snd", t>>} :
             RefIn(slot', op', snd', disp')[k] = RefIn(slot, op, snd, disp)[k]
      /\ <<"snd", t>> \in Refs
  BY <1>1, <1>3 DEF RefIn, Refs
<1>8. RefCounted'
  BY <1>1, <1>7, CountsGrabbed
<1> QED
  BY <1>4, <1>5, <1>6, <1>8

(* There are as many messages to send as Ids say.                          *)
LEMMA IdsDown ==
    /\ 0 \in Ids
    /\ \A n \in Ids : n \in Nat /\ (n > 0 => n - 1 \in Ids)
<1>1. ASSUME NEW n \in Ids, n # 0 PROVE n \in Nat /\ n - 1 \in Ids
  <2>1. PICK start \in Starts : n \in 1..start.msgs
    BY <1>1 DEF Ids
  <2>2. start.msgs \in Nat
    BY StartsAssumption
  <2>3. n - 1 = 0 \/ n - 1 \in 1..start.msgs
    BY <2>1, <2>2
  <2> QED
    BY <2>1, <2>2, <2>3 DEF Ids
<1> QED
  BY <1>1 DEF Ids

(* A thread begins to send a message.                                      *)
LEMMA SendStep ==
    ASSUME Inv, NEW t \in Threads, NEW s \in Services, Send(t, s)
    PROVE  Inv'
<1> DEFINE m == [id |-> left,
                 from |-> IF InInit(t) THEN op[t].s
                          ELSE IF t \in Workers THEN disp[t].c ELSE Nil]
<1>1. /\ GrabToSend(t, s, m) /\ snd[t].pc = "idle" /\ left > 0 /\ left' = left - 1
      /\ UNCHANGED <<slot, mq, globalq, disp, op, deleting, quit>>
  BY DEF Send, InHandler, InInit, Dispatching, Calling, Operating
<1>2. m \in Messages /\ left' \in Ids
  BY <1>1, IdsDown DEF Inv, TypeOK, Messages
<1> HIDE DEF m
<1>3. /\ ctx' \in [Services -> Contexts]
      /\ snd' \in [Threads -> Sends]
      /\ \A x \in Services : /\ ctx'[x].state = ctx[x].state /\ ctx'[x].init = ctx[x].init
                             /\ ctx[x].state # "live" => ctx'[x].ref = ctx[x].ref
      /\ \A u \in Threads : /\ snd'[u].pc = "idle" <=> snd'[u].to = Nil
                            /\ snd'[u].pc = "push" => snd'[u].msg \in Messages
      /\ RefCounted'
  BY <1>1, <1>2, GrabIs
<1>4. TypeOK'
  BY <1>1, <1>2, <1>3 DEF Inv, TypeOK
<1>5. Shape'
  BY <1>1, <1>3 DEF Inv, Shape
<1>6. InOnePlace'
  BY <1>1, PlacesKept DEF Inv
<1>7. Queues'
  BY SMTT(30), <1>1, <1>3 DEF Inv, Queues, Follows
<1>8. Opened'
  BY <1>1, <1>3 DEF Inv, TypeOK, Opened
<1> QED
  BY <1>3, <1>4, <1>5, <1>6, <1>7, <1>8 DEF Inv

(* A message of a dropped queue is taken out, and its sender told of it if *)
(* it is still there.                                                      *)
LEMMA DropMessageStep ==
    ASSUME Inv, NEW t \in Threads, DropMessage(t)
    PROVE  Inv'
<1> DEFINE s == op[t].s
           ms == mq[s].msgs
           from == Head(ms).from
<1>1. /\ op[t].pc = "drop" /\ s \in Services /\ mq[s].release = 1
      /\ mq \in [Services -> MessageQueues] /\ ms \in Seq(Messages) /\ ms # <<>>
      /\ snd[t].pc = "idle"
  <2>1. op[t].pc = "drop" /\ ms # <<>> /\ snd[t].pc = "idle"
    BY DEF DropMessage, Operating
  <2>2. s \in Services
    BY <2>1, MayUse
  <2> QED
    BY <2>1, <2>2 DEF Inv, TypeOK, Queues
<1>2. /\ mq' = [mq EXCEPT ![s].msgs = Tail(@)]
      /\ UNCHANGED <<slot, globalq, disp, op, deleting, quit, left>>
  BY DEF DropMessage, rest
<1>3. Head(ms) \in Messages /\ Tail(ms) \in Seq(Messages)
  BY <1>1, HeadTailProperties
<1>4. \/ from # Nil /\ GrabToSend(t, from, [id |-> 0, from |-> s])
      \/ UNCHANGED <<ctx, snd>>
  BY DEF DropMessage
<1>5. from \in Services \cup {Nil}
  BY <1>3 DEF Messages
<1>6. [id |-> 0, from |-> s] \in Messages
  BY <1>1, IdsDown DEF Messages
<1> HIDE DEF from
<1>7. /\ ctx' \in [Services -> Contexts]
      /\ snd' \in [Threads -> Sends]
      /\ \A x \in Services : /\ ctx'[x].state = ctx[x].state /\ ctx'[x].init = ctx[x].init
                             /\ ctx[x].state # "live" => ctx'[x].ref = ctx[x].ref
      /\ \A u \in Threads : /\ snd'[u].pc = "idle" <=> snd'[u].to = Nil
                            /\ snd'[u].pc = "push" => snd'[u].msg \in Messages
      /\ RefCounted'
  <2>1. CASE from # Nil /\ GrabToSend(t, from, [id |-> 0, from |-> s])
    <3>1. from \in Services
      BY <1>5, <2>1
    <3> HIDE DEF s
    <3> QED
      BY <1>1, <1>2, <1>6, <2>1, <3>1, GrabIs
  <2>2. CASE UNCHANGED <<ctx, snd>>
    <3>1. RefCounted'
      BY <1>2, <2>2, CountsKept DEF Inv
    <3> QED
      BY <2>2, <3>1 DEF Inv, TypeOK, Shape
  <2> QED
    BY <1>4, <2>1, <2>2
<1> HIDE DEF s, ms
<1>8. /\ mq' \in [Services -> MessageQueues]
      /\ \A x \in Services : /\ mq'[x].state = mq[x].state /\ mq'[x].release = mq[x].release
                             /\ mq'[x].in_global = mq[x].in_global
      /\ \A x \in Services \ {s} : mq'[x] = mq[x]
  BY <1>1, <1>2, <1>3 DEF ms
<1>9. TypeOK'
  BY <1>2, <1>7, <1>8 DEF Inv, TypeOK
<1>10. Shape'
  BY <1>2, <1>7 DEF Inv, Shape
<1>11. InOnePlace'
  <2>1. FlaggedIn(mq') = FlaggedIn(mq)
    BY <1>8 DEF FlaggedIn
  <2> QED
    BY <1>2, <2>1, PlacesKept DEF Inv
<1>12. Queues'
  <2>1. ASSUME NEW x \in Services PROVE Follows(ctx'[x], mq'[x])
    <3>1. Follows(ctx[x], mq[x])
      BY DEF Inv, Queues
    <3>2. CASE x = s
      BY <1>1, <1>7, <1>8, <3>1, <3>2 DEF Follows, NoMq, ms
    <3>3. CASE x # s
      BY <1>7, <1>8, <3>1, <3>3 DEF Follows
    <3> QED
      BY <3>2, <3>3
  <2>2. ASSUME NEW u \in Threads, op'[u].pc = "drop"
        PROVE  mq'[op'[u].s].release = 1
    <3>1. op'[u] = op[u] /\ op[u].s \in Services /\ mq[op[u].s].release = 1
      BY <1>2, <2>2, MayUse DEF Inv, Queues
    <3> QED
      BY <1>8, <3>1
  <2> QED
    BY <2>1, <2>2 DEF Queues
<1>13. Opened'
  BY <1>2, <1>7 DEF Inv, TypeOK, Opened
<1> QED
  BY <1>7, <1>9, <1>10, <1>11, <1>12, <1>13 DEF Inv

-----------------------------------------------------------------------------
(* Steps of one worker, which may change the queues it has and not the     *)
(* context: all but the places of the queues.                              *)
LEMMA WorkerStep ==
    ASSUME Inv, NEW w \in Workers, NEW d \in Dispatches, disp' = [disp EXCEPT ![w] = d],
           d.c = disp[w].c, DispShape(d, w),
           globalq' \in Seq(Services),
           UNCHANGED <<slot, ctx, op, snd, deleting, quit, left>>,
           mq' \in [Services -> MessageQueues],
           \A s \in Services : Follows(ctx[s], mq'[s]) /\ mq'[s].release = mq[s].release,
           InOnePlace'
    PROVE  Inv'
<1>1. /\ disp' \in [Workers -> Dispatches] /\ disp'[w] = d
      /\ \A v \in Workers \ {w} : disp'[v] = disp[v]
  BY DEF Inv, TypeOK
<1>2. TypeOK'
  BY <1>1 DEF Inv, TypeOK
<1>3. Shape'
  BY <1>1 DEF Inv, Shape
<1>4. RefCounted'
  BY <1>1, CountsKept DEF Inv
<1>5. Queues'
  <2>1. ASSUME NEW u \in Threads, op[u].pc = "drop"
        PROVE  mq'[op[u].s].release = 1
    BY <2>1, MayUse DEF Inv, Queues
  <2> QED
    BY <2>1 DEF Queues
<1>6. Opened'
  BY <1>1 DEF Inv, Opened
<1> QED
  BY <1>2, <1>3, <1>4, <1>5, <1>6 DEF Inv

(* The first queue of the global queue goes to a hand of a worker that is  *)
(* empty.                                                                  *)
LEMMA PopPlace ==
    ASSUME Inv, NEW w \in Workers, globalq # <<>>, PopGlobal,
           NEW h \in {<<"q", w>>, <<"nq", w>>},
           HeldIn(disp, op)[h] = Nil, HeldIn(disp', op')[h] = FirstGlobal,
           \A k \in Hands \ {h} : HeldIn(disp', op')[k] = HeldIn(disp, op)[k],
           mq' = mq
    PROVE  InOnePlace' /\ globalq' \in Seq(Services) /\ FirstGlobal \in Services
<1> DEFINE f == HeldIn(disp, op)
           g == HeldIn(disp', op')
           F == FlaggedIn(mq)
           s == Head(globalq)
<1>1. globalq \in Seq(Services) /\ OnePlace(globalq, f, F)
  BY InOnePlaceIs DEF Inv, TypeOK
<1>2. s \in Services /\ Tail(globalq) \in Seq(Services) /\ In(globalq, s)
  BY <1>1, InTail
<1>3. globalq' = Tail(globalq) /\ FirstGlobal = s
  BY DEF PopGlobal, FirstGlobal
<1>4. h \in Hands /\ f[h] = Nil /\ g[h] = s /\ \A k \in Hands \ {h} : g[k] = f[k]
  BY <1>3 DEF Hands
<1>5. s \in F
  BY <1>1, <1>2 DEF OnePlace
<1> HIDE DEF f, g, F, s
<1>6. OnePlace(Tail(globalq), f, F \ {s})
  BY <1>1, SeqLoses DEF s
<1>7. OnePlace(Tail(globalq), g, (F \ {s}) \cup {s})
  BY <1>2, <1>4, <1>6, HandGains
<1>8. (F \ {s}) \cup {s} = F
  BY <1>5
<1>9. InOnePlace'
  BY <1>3, <1>7, <1>8, InOnePlaceIs DEF g, F
<1> QED
  BY <1>2, <1>3, <1>9

(* A worker without a queue takes the first of the global queue.           *)
LEMMA FetchStep ==
    ASSUME Inv, NEW w \in Workers, Fetch(w)
    PROVE  Inv'
<1> DEFINE d == [disp[w] EXCEPT !.q = FirstGlobal,
                                !.pc = IF globalq = <<>> THEN "sleep"
                                       ELSE IF @ = "fetch" THEN "take" ELSE "loop"]
<1>1. /\ disp[w] \in Dispatches /\ DispShape(disp[w], w) /\ disp[w].pc \in {"fetch", "next"}
      /\ disp[w].q = Nil
      /\ disp \in [Workers -> Dispatches]
      /\ UNCHANGED <<slot, ctx, mq, op, snd, deleting, quit, left>>
      /\ \A s \in Services : Follows(ctx[s], mq[s])
      /\ mq \in [Services -> MessageQueues]
  BY DEF Fetch, Inv, TypeOK, Shape, DispShape, Queues, rest
<1>2. disp' = [disp EXCEPT ![w] = d]
  BY <1>1 DEF Fetch
<1>3. CASE globalq = <<>>
  <2>1. /\ d.q = Nil /\ d.pc = "sleep" /\ d.c = disp[w].c /\ d.nq = disp[w].nq
        /\ d \in Dispatches /\ DispShape(d, w)
    <3>1. d = [disp[w] EXCEPT !.q = Nil, !.pc = "sleep"]
      BY <1>1, <1>3 DEF FirstGlobal
    <3> HIDE DEF d
    <3> QED
      BY <1>1, <3>1 DEF DispShape
  <2>2. globalq' = globalq /\ globalq \in Seq(Services)
    BY <1>3 DEF Fetch, PopGlobal, Inv, TypeOK
  <2> HIDE DEF d
  <2>3. InOnePlace'
    BY <1>1, <1>2, <2>1, <2>2, PlacesKept DEF Inv
  <2> QED
    BY <1>1, <1>2, <2>1, <2>2, <2>3, WorkerStep
<1>4. CASE globalq # <<>>
  <2>1. FirstGlobal \in Services /\ FirstGlobal # Nil
    BY <1>4, InTail, ThreadsAssumption DEF FirstGlobal, Inv, TypeOK
  <2>2. /\ d.q = FirstGlobal /\ d.c = disp[w].c /\ d.nq = disp[w].nq
        /\ d \in Dispatches /\ DispShape(d, w)
    <3> DEFINE p == IF globalq = <<>> THEN "sleep"
                    ELSE IF disp[w].pc = "fetch" THEN "take" ELSE "loop"
    <3>1. p \in {"take", "loop"}
      BY <1>4
    <3>2. d = [disp[w] EXCEPT !.q = FirstGlobal, !.pc = p]
      BY <1>1
    <3> HIDE DEF d, p
    <3> QED
      BY <1>1, <2>1, <3>1, <3>2 DEF DispShape
  <2> HIDE DEF d
  <2>3. InOnePlace' /\ globalq' \in Seq(Services)
    <3>1. /\ HeldIn(disp, op)[<<"q", w>>] = Nil
          /\ HeldIn(disp', op')[<<"q", w>>] = FirstGlobal
          /\ \A k \in Hands \ {<<"q", w>>} : HeldIn(disp', op')[k] = HeldIn(disp, op)[k]
      BY <1>1, <1>2, <2>2 DEF HeldIn, Hands
    <3> QED
      BY <1>1, <1>4, <3>1, PopPlace DEF Fetch
  <2> QED
    BY <1>1, <1>2, <2>2, <2>3, WorkerStep
<1> QED
  BY <1>3, <1>4

(* A worker takes the next queue, with the one it has still in hand.       *)
LEMMA YieldStep ==
    ASSUME Inv, NEW w \in Workers, Yield(w)
    PROVE  Inv'
<1> DEFINE d == [disp[w] EXCEPT !.nq = FirstGlobal,
                                !.pc = IF globalq = <<>> THEN "done" ELSE "back"]
<1>1. /\ disp[w] \in Dispatches /\ DispShape(disp[w], w) /\ disp[w].pc = "yield"
      /\ disp[w].nq = Nil
      /\ disp \in [Workers -> Dispatches]
      /\ UNCHANGED <<slot, ctx, mq, op, snd, deleting, quit, left>>
      /\ \A s \in Services : Follows(ctx[s], mq[s])
      /\ mq \in [Services -> MessageQueues]
  BY DEF Yield, Inv, TypeOK, Shape, DispShape, Queues, rest
<1>2. disp' = [disp EXCEPT ![w] = d]
  BY <1>1 DEF Yield
<1>3. CASE globalq = <<>>
  <2>1. /\ d.nq = Nil /\ d.pc = "done" /\ d.c = disp[w].c /\ d.q = disp[w].q
        /\ d \in Dispatches /\ DispShape(d, w)
    BY <1>1, <1>3 DEF FirstGlobal, DispShape
  <2>2. globalq' = globalq /\ globalq \in Seq(Services)
    BY <1>3 DEF Yield, PopGlobal, Inv, TypeOK
  <2> HIDE DEF d
  <2>3. InOnePlace'
    BY <1>1, <1>2, <2>1, <2>2, PlacesKept DEF Inv
  <2> QED
    BY <1>1, <1>2, <2>1, <2>2, <2>3, WorkerStep
<1>4. CASE globalq # <<>>
  <2>1. FirstGlobal \in Services /\ FirstGlobal # Nil
    BY <1>4, InTail, ThreadsAssumption DEF FirstGlobal, Inv, TypeOK
  <2>2. /\ d.nq = FirstGlobal /\ d.c = disp[w].c /\ d.q = disp[w].q
        /\ d \in Dispatches /\ DispShape(d, w)
    BY <1>1, <1>4, <2>1 DEF DispShape
  <2> HIDE DEF d
  <2>3. InOnePlace' /\ globalq' \in Seq(Services)
    <3>1. /\ HeldIn(disp, op)[<<"nq", w>>] = Nil
          /\ HeldIn(disp', op')[<<"nq", w>>] = FirstGlobal
          /\ \A k \in Hands \ {<<"nq", w>>} : HeldIn(disp', op')[k] = HeldIn(disp, op)[k]
      BY <1>1, <1>2, <2>2 DEF HeldIn, Hands
    <3> QED
      BY <1>1, <1>4, <3>1, PopPlace DEF Yield
  <2> QED
    BY <1>1, <1>2, <2>2, <2>3, WorkerStep
<1> QED
  BY <1>3, <1>4

(* It pushes the one it had and goes on with the other.                    *)
LEMMA PushBackStep ==
    ASSUME Inv, NEW w \in Workers, PushBack(w)
    PROVE  Inv'
<1> DEFINE a == disp[w].q
           b == disp[w].nq
           d == [disp[w] EXCEPT !.pc = "done", !.q = b, !.nq = Nil]
<1>1. /\ disp[w] \in Dispatches /\ DispShape(disp[w], w) /\ disp[w].pc = "back"
      /\ disp \in [Workers -> Dispatches]
      /\ UNCHANGED <<slot, ctx, mq, op, snd, deleting, quit, left>>
      /\ \A s \in Services : Follows(ctx[s], mq[s])
      /\ mq \in [Services -> MessageQueues]
      /\ globalq \in Seq(Services)
      /\ globalq' = Append(globalq, a)
  BY DEF PushBack, PushGlobal, Inv, TypeOK, Shape, Queues, rest
<1>2. a \in Services /\ b \in Services /\ a # Nil /\ b # Nil
  BY <1>1 DEF DispShape
<1>3. /\ disp' = [disp EXCEPT ![w] = d]
      /\ d.c = disp[w].c /\ d.q = b /\ d.nq = Nil
      /\ d \in Dispatches /\ DispShape(d, w)
  BY <1>1, <1>2 DEF PushBack, DispShape
<1>4. globalq' \in Seq(Services)
  BY <1>1, <1>2, AppendProperties
<1>5. InOnePlace'
  <2> DEFINE f == HeldIn(disp, op)
             g == HeldIn(disp', op')
             F == FlaggedIn(mq)
             x == <<"q", w>>
             y == <<"nq", w>>
             e == [h \in Hands |-> IF h = x THEN Nil ELSE f[h]]
  <2> HIDE DEF d
  <2>1. /\ x \in Hands /\ y \in Hands /\ x # y
        /\ f[x] = a /\ f[y] = b /\ g[x] = b /\ g[y] = Nil
        /\ \A h \in Hands \ {x, y} : g[h] = f[h]
    BY <1>1, <1>3 DEF HeldIn, Hands
  <2> HIDE DEF f, g, F, x, y, a, b
  <2>2. /\ e[x] = Nil /\ e[y] = b
        /\ \A h \in Hands \ {x} : e[h] = f[h]
        /\ \A h \in Hands \ {x, y} : g[h] = e[h]
    BY <2>1
  <2> HIDE DEF e
  <2>3. OnePlace(globalq, f, F) /\ a \in F
    <3>1. OnePlace(globalq, f, F)
      BY InOnePlaceIs DEF Inv, f, F
    <3> QED
      BY <1>2, <2>1, <3>1 DEF OnePlace
  <2>4. OnePlace(globalq, e, F \ {a})
    BY <1>2, <2>1, <2>2, <2>3, HandLoses
  <2>5. OnePlace(Append(globalq, a), e, (F \ {a}) \cup {a})
    BY <1>1, <1>2, <2>4, SeqGains
  <2>6. OnePlace(Append(globalq, a), e, F)
    <3>1. (F \ {a}) \cup {a} = F
      BY <2>3
    <3> QED
      BY <2>5, <3>1
  <2>7. OnePlace(Append(globalq, a), g, F)
    BY <1>2, <2>1, <2>2, <2>6, HandMoves
  <2> QED
    BY <1>1, <2>7, InOnePlaceIs DEF g, F
<1> HIDE DEF d
<1> QED
  BY <1>1, <1>3, <1>4, <1>5, WorkerStep

(* A worker takes the context of its queue: the service has its init set,  *)
(* for the thread that launches a service keeps its queue until then.      *)
LEMMA TakeContextStep ==
    ASSUME Inv, NEW w \in Workers, Take(w), slot[disp[w].q]
    PROVE  Inv'
<1> DEFINE s == disp[w].q
           d == [disp[w] EXCEPT !.pc = "pop", !.c = s, !.i = 0, !.n = 1]
<1>1. /\ disp[w] \in Dispatches /\ DispShape(disp[w], w) /\ disp[w].pc = "take"
      /\ disp \in [Workers -> Dispatches]
      /\ UNCHANGED <<slot, mq, op, globalq, snd, deleting, quit, left>>
      /\ disp' = [disp EXCEPT ![w].pc = "pop", ![w].c = s, ![w].i = 0, ![w].n = 1]
      /\ ctx' = [ctx EXCEPT ![s].ref = @ + 1]
      /\ ctx \in [Services -> Contexts]
  BY DEF Take, Inv, TypeOK, Shape, rest
<1>2. /\ disp[w].c = Nil /\ s \in Services /\ s # Nil /\ slot[s]
  BY <1>1 DEF DispShape
<1>3. /\ disp' = [disp EXCEPT ![w] = d]
      /\ d.c = s /\ d.q = s /\ d.nq = disp[w].nq
      /\ d \in Dispatches /\ DispShape(d, w)
  BY <1>1, <1>2 DEF DispShape
<1>4. ctx[s].state = "live" /\ ctx[s].ref \in Nat /\ ctx[s].ref + 1 \in Nat
  BY <1>1, <1>2, MayUse DEF Live
<1>5. ctx[s].init
  <2> SUFFICES ASSUME ~ctx[s].init PROVE FALSE
    OBVIOUS
  <2>1. PICK t \in Threads : op[t].s = s /\ op[t].pc \in {"init", "ready", "undo"}
    BY <1>2 DEF Inv, Opened
  <2>2. /\ <<"op", t>> \in Hands /\ <<"q", w>> \in Hands
        /\ Held(<<"op", t>>) = s /\ Held(<<"q", w>>) = s
    BY <2>1 DEF Hands, Held, OwnsQueue
  <2>3. <<"op", t>> = <<"q", w>>
    BY <1>2, <2>2 DEF Inv, InOnePlace
  <2> QED
    BY <2>3
<1> HIDE DEF s, d
<1>6. /\ ctx' \in [Services -> Contexts]
      /\ \A x \in Services : /\ ctx'[x].state = ctx[x].state /\ ctx'[x].init = ctx[x].init
                             /\ ctx[x].state # "live" => ctx'[x].ref = ctx[x].ref
  BY <1>1, <1>2, <1>4
<1>7. /\ disp' \in [Workers -> Dispatches] /\ disp'[w] = d
      /\ \A v \in Workers \ {w} : disp'[v] = disp[v]
  <2>1. disp \in [Workers -> Dispatches]
    BY <1>1
  <2> QED
    BY <1>3, <2>1
<1>8. TypeOK'
  BY <1>1, <1>6, <1>7 DEF Inv, TypeOK
<1>9. Shape'
  BY <1>1, <1>3, <1>7 DEF Inv, Shape
<1>10. InOnePlace'
  <2>1. d.q = disp[w].q
    BY <1>3 DEF s
  <2> QED
    BY <1>1, <1>3, <1>7, <2>1, PlacesKept DEF Inv
<1>11. RefCounted'
  <2>1. /\ RefIn(slot, op, snd, disp)[<<"disp", w>>] = Nil
        /\ RefIn(slot', op', snd', disp')[<<"disp", w>>] = s
        /\ \A k \in Refs \ {<<"disp", w>>} :
               RefIn(slot', op', snd', disp')[k] = RefIn(slot, op, snd, disp)[k]
        /\ <<"disp", w>> \in Refs
    BY <1>1, <1>2, <1>3, <1>7 DEF RefIn, Refs
  <2> QED
    BY <1>1, <1>2, <2>1, CountsGrabbed
<1>12. Queues'
  BY <1>1, <1>6 DEF Inv, Queues, Follows
<1>13. Opened'
  <2>1. ASSUME NEW v \in Workers, disp'[v].c # Nil PROVE ctx'[disp'[v].c].init
    <3>1. CASE v = w
      BY <1>2, <1>3, <1>5, <1>6, <1>7, <3>1
    <3>2. CASE v # w
      <4>1. disp'[v] = disp[v] /\ disp[v].c # Nil /\ disp[v].c \in Services
        BY <1>1, <1>7, <2>1, <3>2
      <4> QED
        BY <1>6, <4>1 DEF Inv, Opened
    <3> QED
      BY <3>1, <3>2
  <2> QED
    BY <1>1, <1>6, <2>1 DEF Inv, Opened
<1> QED
  BY <1>8, <1>9, <1>10, <1>11, <1>12, <1>13 DEF Inv

(* The service of its queue is gone: the worker gives the queue to         *)
(* skynet_mq_release.                                                      *)
LEMMA TakeNothingStep ==
    ASSUME Inv, NEW w \in Workers, Take(w), ~slot[disp[w].q]
    PROVE  Inv'
<1> DEFINE s == disp[w].q
           d == [disp[w] EXCEPT !.pc = "next", !.q = Nil]
           o == [pc |-> "mqrelease", s |-> s]
<1>1. /\ disp[w] \in Dispatches /\ DispShape(disp[w], w) /\ disp[w].pc = "take"
      /\ disp \in [Workers -> Dispatches] /\ op \in [Threads -> Operations]
      /\ UNCHANGED <<slot, ctx, mq, globalq, snd, deleting, quit, left>>
      /\ disp' = [disp EXCEPT ![w].pc = "next", ![w].q = Nil]
      /\ op' = [op EXCEPT ![w] = o]
      /\ w \in Threads /\ op[w].pc = "idle"
  BY DEF Take, Dispatching, Calling, Inv, TypeOK, Shape, rest, Threads
<1>2. s \in Services /\ s # Nil
  BY <1>1 DEF DispShape
<1>3. /\ disp' = [disp EXCEPT ![w] = d]
      /\ d.c = disp[w].c /\ d.q = Nil /\ d.nq = disp[w].nq
      /\ d \in Dispatches /\ DispShape(d, w)
  BY <1>1, <1>2 DEF DispShape
<1> HIDE DEF s, d
<1>4. /\ disp' \in [Workers -> Dispatches] /\ disp'[w] = d
      /\ \A v \in Workers \ {w} : disp'[v] = disp[v]
  <2>1. disp \in [Workers -> Dispatches]
    BY <1>1
  <2> QED
    BY <1>3, <2>1
<1>5. /\ op' \in [Threads -> Operations] /\ op'[w] = o
      /\ \A u \in Threads \ {w} : op'[u] = op[u]
  BY <1>1, <1>2
<1>6. TypeOK'
  BY <1>1, <1>4, <1>5 DEF Inv, TypeOK
<1>7. Shape'
  BY <1>1, <1>2, <1>3, <1>4, <1>5 DEF Inv, Shape
<1>8. InOnePlace'
  <2> DEFINE f == HeldIn(disp, op)
             g == HeldIn(disp', op')
             x == <<"q", w>>
             y == <<"op", w>>
  <2>1. /\ x \in Hands /\ y \in Hands /\ x # y
        /\ f[x] = s /\ f[y] = Nil /\ g[x] = Nil /\ g[y] = s
        /\ \A h \in Hands \ {x, y} : g[h] = f[h]
    <3>1. QueueOf(op'[w]) = s /\ QueueOf(op[w]) = Nil /\ disp'[w].q = Nil /\ disp[w].q = s
      BY <1>1, <1>3, <1>4, <1>5 DEF QueueOf, s
    <3>2. disp'[w].nq = disp[w].nq
      BY <1>3, <1>4
    <3> HIDE DEF s
    <3>3. /\ x \in Hands /\ y \in Hands /\ x # y
          /\ f[x] = s /\ f[y] = Nil /\ g[x] = Nil /\ g[y] = s
      BY <1>1, <3>1 DEF HeldIn, Hands
    <3>4. \A h \in Hands \ {x, y} : g[h] = f[h]
      BY <1>4, <1>5, <3>2 DEF HeldIn, Hands
    <3> QED
      BY <3>3, <3>4
  <2>2. OnePlace(globalq, f, FlaggedIn(mq))
    BY InOnePlaceIs DEF Inv
  <2> HIDE DEF f, g, x, y
  <2>3. OnePlace(globalq, g, FlaggedIn(mq))
    BY <1>2, <2>1, <2>2, HandMoves
  <2> QED
    BY <1>1, <2>3, InOnePlaceIs DEF g
<1>9. RefCounted'
  <2>1. \A u \in Threads : ContextOf(op'[u]) = ContextOf(op[u])
    BY <1>1, <1>5 DEF ContextOf
  <2>2. \A v \in Workers : disp'[v].c = disp[v].c
    BY <1>3, <1>4
  <2> QED
    BY <1>1, <2>1, <2>2, CountsKept DEF Inv
<1>10. Queues'
  BY <1>1, <1>5 DEF Inv, Queues
<1>11. Opened'
  <2>1. \A u \in Threads : op[u].pc \in {"init", "ready", "undo"} => op'[u] = op[u]
    BY <1>1, <1>5
  <2>2. \A v \in Workers : disp[v].c \in Services \cup {Nil} /\ disp'[v].c = disp[v].c
    BY <1>1, <1>3, <1>4
  <2> QED
    BY <1>1, <2>1, <2>2, OpenedKept DEF Inv
<1> QED
  BY <1>6, <1>7, <1>8, <1>9, <1>10, <1>11 DEF Inv

(* A worker finds no message, and leaves the queue to the next sender, or  *)
(* takes the first.                                                        *)
LEMMA MqPopStep ==
    ASSUME Inv, NEW w \in Workers, MqPop(w)
    PROVE  Inv'
<1> DEFINE s == disp[w].q
           ms == mq[s].msgs
<1>1. /\ disp[w] \in Dispatches /\ DispShape(disp[w], w) /\ disp[w].pc = "pop"
      /\ disp \in [Workers -> Dispatches]
      /\ UNCHANGED <<slot, ctx, globalq, op, snd, deleting, quit, left>>
      /\ \A x \in Services : Follows(ctx[x], mq[x])
      /\ mq \in [Services -> MessageQueues] /\ globalq \in Seq(Services)
  BY DEF MqPop, Inv, TypeOK, Shape, Queues, rest
<1>2. s \in Services /\ s # Nil /\ disp[w].c = s /\ disp[w].msg = Nil
  BY <1>1 DEF DispShape
<1>3. Live(s) /\ mq[s] \in MessageQueues /\ ms \in Seq(Messages)
  BY <1>1, <1>2, MayUse
<1>4. CASE ms = <<>>
  <2> DEFINE d == [disp[w] EXCEPT !.pc = "empty", !.q = Nil]
  <2>1. /\ mq' = [mq EXCEPT ![s].in_global = 0]
        /\ disp' = [disp EXCEPT ![w] = d]
    BY <1>1, <1>4 DEF MqPop
  <2>2. /\ d \in Dispatches /\ DispShape(d, w) /\ d.c = disp[w].c /\ d.q = Nil
        /\ d.nq = disp[w].nq
    BY <1>1, <1>2 DEF DispShape
  <2> HIDE DEF d
  <2>3. /\ mq' \in [Services -> MessageQueues]
        /\ mq'[s].in_global = 0 /\ mq'[s].release = 0 /\ mq'[s].state = "live"
        /\ mq'[s].msgs = <<>>
        /\ \A x \in Services \ {s} : mq'[x] = mq[x]
    <3> DEFINE e == [mq[s] EXCEPT !.in_global = 0]
    <3>1. mq' = [mq EXCEPT ![s] = e]
      BY <1>1, <2>1
    <3>2. /\ e \in MessageQueues /\ e.in_global = 0 /\ e.release = 0 /\ e.state = "live"
          /\ e.msgs = <<>>
      BY <1>3, <1>4 DEF Live
    <3> HIDE DEF e, s
    <3> QED
      BY <1>1, <1>2, <3>1, <3>2
  <2>4. \A x \in Services : Follows(ctx[x], mq'[x]) /\ mq'[x].release = mq[x].release
    <3>1. Follows(ctx[s], mq'[s]) /\ mq'[s].release = mq[s].release
      BY <1>3, <2>3 DEF Follows, Live
    <3> QED
      BY <1>1, <2>3, <3>1
  <2>5. InOnePlace'
    <3> DEFINE f == HeldIn(disp, op)
               g == HeldIn(disp', op')
               F == FlaggedIn(mq)
    <3>1. /\ <<"q", w>> \in Hands /\ f[<<"q", w>>] = s /\ g[<<"q", w>>] = Nil
          /\ \A h \in Hands \ {<<"q", w>>} : g[h] = f[h]
      BY <1>1, <2>1, <2>2 DEF HeldIn, Hands
    <3>2. OnePlace(globalq, f, F)
      BY InOnePlaceIs DEF Inv
    <3>3. FlaggedIn(mq') = F \ {s}
      BY <1>2, <2>3 DEF FlaggedIn
    <3> HIDE DEF f, g, F, s
    <3>4. OnePlace(globalq, g, F \ {s})
      BY <1>2, <3>1, <3>2, HandLoses
    <3> QED
      BY <1>1, <3>3, <3>4, InOnePlaceIs DEF g
  <2> QED
    BY <1>1, <2>1, <2>2, <2>3, <2>4, <2>5, WorkerStep
<1>5. CASE ms # <<>>
  <2> DEFINE p == IF disp[w].i = 0 /\ Share[w] > 0 THEN "length" ELSE "handle"
             d == [disp[w] EXCEPT !.msg = Head(ms), !.pc = p]
  <2>1. /\ mq' = [mq EXCEPT ![s].msgs = Tail(@)]
        /\ disp' = [disp EXCEPT ![w] = d]
    BY <1>1, <1>5 DEF MqPop
  <2>2. Head(ms) \in Messages /\ Tail(ms) \in Seq(Messages)
    BY <1>3, <1>5, HeadTailProperties
  <2>3. Head(ms) # Nil
    BY <2>2, NilAssumption
  <2>4. /\ d \in Dispatches /\ DispShape(d, w) /\ d.c = disp[w].c /\ d.q = disp[w].q
        /\ d.nq = disp[w].nq
    BY <1>1, <1>2, <2>2, <2>3 DEF DispShape
  <2> HIDE DEF d
  <2>5. /\ mq' \in [Services -> MessageQueues]
        /\ mq'[s].in_global = mq[s].in_global /\ mq'[s].release = 0 /\ mq'[s].state = "live"
        /\ \A x \in Services \ {s} : mq'[x] = mq[x]
    BY <1>1, <1>2, <1>3, <2>1, <2>2 DEF Live
  <2>6. \A x \in Services : Follows(ctx[x], mq'[x]) /\ mq'[x].release = mq[x].release
    <3>1. Follows(ctx[s], mq[s])
      BY <1>1, <1>2
    <3>2. Follows(ctx[s], mq'[s]) /\ mq'[s].release = mq[s].release
      BY <1>3, <1>5, <2>5, <3>1 DEF Follows, Live
    <3> QED
      BY <1>1, <2>5, <3>2
  <2>7. InOnePlace'
    <3>1. FlaggedIn(mq') = FlaggedIn(mq)
      <4>1. \A x \in Services : /\ mq'[x].state = mq[x].state
                                /\ mq'[x].in_global = mq[x].in_global
                                /\ mq'[x].release = mq[x].release
        BY <1>2, <1>3, <2>5 DEF Live
      <4> QED
        BY <4>1 DEF FlaggedIn
    <3> QED
      BY <1>1, <2>1, <2>4, <3>1, PlacesKept DEF Inv
  <2> QED
    BY <1>1, <2>1, <2>4, <2>5, <2>6, <2>7, WorkerStep
<1> QED
  BY <1>4, <1>5

-----------------------------------------------------------------------------
(* The services that begin launched are in the global queue, each with its *)
(* first message and with the table's reference.                           *)
LEMMA InitInv == Init => Inv
<1> SUFFICES ASSUME Init PROVE Inv
  OBVIOUS
<1>1. PICK start \in Starts : InitFrom(start)
  BY DEF Init
<1> DEFINE L == start.launched
           Is(s) == \E i \in DOMAIN L : L[i] = s
<1>2. /\ L \in Seq(Services \ start.gone) /\ start.gone \subseteq Services
      /\ start.msgs \in Nat
      /\ \A i, j \in DOMAIN L : L[i] = L[j] => i = j
  BY StartsAssumption
<1>3. L \in Seq(Services) /\ \A s \in Services : Is(s) => s \notin start.gone
  BY <1>2
<1>4. /\ slot = [s \in Services |-> Is(s)]
      /\ globalq = L
      /\ left = start.msgs
      /\ ctx = [s \in Services |->
                   IF Is(s) THEN [state |-> "live", ref |-> 1, init |-> TRUE]
                   ELSE IF s \in start.gone
                   THEN [state |-> "freed", ref |-> 0, init |-> TRUE] ELSE NoCtx]
      /\ mq = [s \in Services |->
                   IF Is(s) THEN [NewMq EXCEPT !.msgs = <<[id |-> 0, from |-> s]>>]
                   ELSE IF s \in start.gone
                   THEN [NoMq EXCEPT !.state = "freed", !.release = 1] ELSE NoMq]
  BY <1>1 DEF InitFrom
<1> HIDE DEF L
<1>5. /\ disp = [w \in Workers |-> [pc |-> "loop", q |-> Nil, c |-> Nil, nq |-> Nil,
                                    i |-> 0, n |-> 0, msg |-> Nil]]
      /\ op = [t \in Threads |-> NoOp]
      /\ snd = [t \in Threads |-> NoSnd]
      /\ deleting = [t \in Threads |-> Nil]
      /\ quit = FALSE
  BY DEF Init
<1>6. left \in Ids
  <2>1. start.msgs = 0 \/ start.msgs \in 1..start.msgs
    BY <1>2
  <2> QED
    BY <1>4, <2>1 DEF Ids
<1>7. ASSUME NEW s \in Services
      PROVE  /\ slot[s] <=> Is(s)
             /\ ctx[s] \in Contexts /\ mq[s] \in MessageQueues
             /\ ctx[s].init \/ ~slot[s]
             /\ slot[s] => ctx[s].state = "live" /\ ctx[s].ref = 1
             /\ ~slot[s] => ctx[s].state # "live" /\ ctx[s].ref = 0
             /\ Follows(ctx[s], mq[s])
             /\ Flagged(s) <=> slot[s]
  <2>1. NoMq \in MessageQueues /\ NoMq = [state |-> "none", msgs |-> <<>>, in_global |-> 0, release |-> 0]
    BY EmptySeq DEF NoMq
  <2>2. /\ NewMq \in MessageQueues /\ NewMq.state = "live" /\ NewMq.in_global = 1
        /\ NewMq.release = 0
    BY <2>1 DEF NewMq
  <2>3. CASE Is(s)
    <3> DEFINE q == [NewMq EXCEPT !.msgs = <<[id |-> 0, from |-> s]>>]
    <3>1. slot[s] /\ ctx[s] = [state |-> "live", ref |-> 1, init |-> TRUE] /\ mq[s] = q
      BY <1>4, <2>3
    <3>2. <<[id |-> 0, from |-> s]>> \in Seq(Messages)
      BY IdsDown DEF Messages
    <3>3. q \in MessageQueues /\ q.state = "live" /\ q.in_global = 1 /\ q.release = 0
      BY <2>2, <3>2
    <3> HIDE DEF q
    <3> QED
      BY <2>3, <3>1, <3>3 DEF Follows, Flagged
  <2>4. CASE ~Is(s) /\ s \in start.gone
    <3> DEFINE q == [NoMq EXCEPT !.state = "freed", !.release = 1]
    <3>1. slot[s] = FALSE /\ ctx[s] = [state |-> "freed", ref |-> 0, init |-> TRUE] /\ mq[s] = q
      BY <1>4, <2>4
    <3>2. q \in MessageQueues /\ q.state = "freed" /\ q.release = 1 /\ q.msgs = <<>>
      BY <2>1
    <3> HIDE DEF q
    <3> QED
      BY <2>4, <3>1, <3>2 DEF Follows, Flagged
  <2>5. CASE ~Is(s) /\ s \notin start.gone
    <3>1. slot[s] = FALSE /\ ctx[s] = NoCtx /\ mq[s] = NoMq
      BY <1>4, <2>5
    <3> QED
      BY <2>1, <2>5, <3>1 DEF Follows, Flagged, NoCtx
  <2> QED
    BY <2>3, <2>4, <2>5
<1>8. TypeOK
  BY <1>3, <1>4, <1>5, <1>6, <1>7 DEF TypeOK, NoOp, NoSnd
<1>9. Shape
  BY <1>5 DEF Shape, DispShape, NoOp, NoSnd
<1>10. InOnePlace
  <2>1. \A h \in Hands : Held(h) = Nil
    BY <1>5 DEF Hands, Held, OwnsQueue, NoOp
  <2>2. \A s \in Services : InGlobal(s) <=> slot[s]
    BY <1>4, <1>7 DEF InGlobal
  <2>3. \A i, j \in DOMAIN globalq : globalq[i] = globalq[j] => i = j
    BY <1>2, <1>4 DEF L
  <2>4. \A s \in Services : ~InHand(s)
    BY <2>1, ThreadsAssumption DEF InHand
  <2>5. \A g, h \in Hands : Held(g) # Nil /\ Held(g) = Held(h) => g = h
    BY <2>1
  <2>6. \A s \in Services : Flagged(s) <=> slot[s]
    BY <1>7
  <2> QED
    BY <2>2, <2>3, <2>4, <2>5, <2>6 DEF InOnePlace
<1>11. RefCounted
  <2>1. ASSUME NEW s \in Services PROVE ctx[s].ref = Cardinality(Holders(s))
    <3>1. \A h \in Refs : RefOf(h) = s <=> h = <<"table", s>> /\ slot[s]
      BY <1>5, ThreadsAssumption DEF Refs, RefOf, OwnsRef, NoOp, NoSnd
    <3>2. <<"table", s>> \in Refs
      BY DEF Refs
    <3>3. CASE slot[s]
      <4>1. Holders(s) = {<<"table", s>>}
        BY <3>1, <3>2, <3>3 DEF Holders
      <4>2. Cardinality(Holders(s)) = 1
        BY <4>1, FS_Singleton
      <4> QED
        BY <1>7, <3>3, <4>2
    <3>4. CASE ~slot[s]
      <4>1. Holders(s) = {}
        BY <3>1, <3>4 DEF Holders
      <4> QED
        BY <1>7, <3>4, <4>1, FS_EmptySet
    <3> QED
      BY <3>3, <3>4
  <2>2. \A s \in Services : ~(ctx[s].state = "live" /\ ctx[s].ref = 0)
    BY <1>7
  <2> QED
    BY <1>5, <2>1, <2>2, ThreadsAssumption DEF RefCounted
<1>12. Queues
  BY <1>5, <1>7 DEF Queues, NoOp
<1>13. Opened
  BY <1>5, <1>7 DEF Opened
<1> QED
  BY <1>8, <1>9, <1>10, <1>11, <1>12, <1>13 DEF Inv

(* Every step of a thread keeps the invariant.                             *)
LEMMA NextInv == Inv /\ [Next]_vars => Inv'
<1> SUFFICES ASSUME Inv, [Next]_vars PROVE Inv'
  OBVIOUS
<1>1. ASSUME NEW t \in Threads, Running(t)
      PROVE  Inv'
  BY <1>1, DeleteContextStep, MqPushStep, SentStep DEF Running
<1>2. ASSUME NEW t \in Threads, Operation(t)
      PROVE  Inv'
  BY <1>2, RetiredStep, InitReturnsStep, SetInitStep, PublishStep, ReturnStep, UndoRegisterStep,
     MqReleaseStep, DropMessageStep, FreeQueueStep DEF Operation
<1>3. ASSUME NEW t \in Threads, Request(t)
      PROVE  Inv'
  BY <1>3, SendStep, RetireStep, LaunchStep DEF Request
<1>4. ASSUME NEW w \in Workers, Dispatch(w)
      PROVE  Inv'
  BY <1>4, LoopStep, FetchStep, TakeContextStep, TakeNothingStep, MqPopStep, MqLengthStep,
     HandledStep, YieldStep, PushBackStep, FinishStep, SleepStep DEF Dispatch
<1>5. CASE WakeUp \/ Quit
  BY <1>5, SleepStep
<1>6. CASE UNCHANGED vars
  <2>1. UNCHANGED <<slot, ctx, mq, globalq, disp, op, snd, deleting, quit, left>>
    BY <1>6 DEF vars
  <2>2. \A w \in Workers : DispShape(disp[w], w)
    BY DEF Inv, Shape
  <2> QED
    BY <2>1, <2>2, DispStep DEF Inv, TypeOK
<1> QED
  BY <1>1, <1>2, <1>3, <1>4, <1>5, <1>6 DEF Next

(* The invariant holds.                                                    *)
THEOREM Invariant == Spec => []Inv
BY InitInv, NextInv, PTL DEF Spec

(* Every variable has its type.                                            *)
THEOREM TypeCorrect == Spec => []TypeOK
<1>1. Inv => TypeOK
  BY DEF Inv
<1> QED
  BY Invariant, <1>1, PTL

(* Whatever threads interleave, a message_queue that is flagged as being   *)
(* in the global queue or dispatched, or marked for release, is in the     *)
(* global queue once or in the hands of one thread; no other is in either. *)
THEOREM OneOwner == Spec => []InOnePlace
<1>1. Inv => InOnePlace
  BY DEF Inv
<1> QED
  BY Invariant, <1>1, PTL

(* No queue with a message in it is out of the reach of the workers.       *)
THEOREM NoneForgotten == Spec => []NothingForgotten
<1>1. Inv => NothingForgotten
  BY DEF Inv, NothingForgotten, InOnePlace, Flagged, Queues, Follows
<1> QED
  BY Invariant, <1>1, PTL

(* The reference count of a context is the number of its references, and   *)
(* one thread deletes it, when there is none.                              *)
THEOREM ReferencesCounted == Spec => []RefCounted
<1>1. Inv => RefCounted
  BY DEF Inv
<1> QED
  BY Invariant, <1>1, PTL

(* No thread uses a context or a queue that has been freed, but for one    *)
(* that sets init, logs or returns the handle of a service it launched and *)
(* another thread has retired since.                                       *)
THEOREM NothingFreedUsed == Spec => []NoUseAfterFree
<1>1. Inv => NoUseAfterFree
  <2> SUFFICES ASSUME Inv PROVE NoUseAfterFree
    OBVIOUS
  <2>1. \A t \in Threads : snd[t].to # Nil => snd[t].pc # "idle"
    BY DEF Inv, Shape
  <2>2. ASSUME NEW t \in Threads
        PROVE  /\ snd[t].to # Nil => /\ ctx[snd[t].to].state = "live"
                                     /\ mq[snd[t].to].state = "live"
               /\ OwnsRef(t) => ctx[op[t].s].state = "live"
               /\ Unreferenced(t) => ctx[op[t].s].state = "live" \/ ~slot[op[t].s]
               /\ OwnsQueue(t) => mq[op[t].s].state = "live"
               /\ deleting[t] # Nil => /\ ctx[deleting[t]].state = "live"
                                       /\ mq[deleting[t]].state = "live"
    BY <2>1, MayUse DEF Live, Flagged, Unreferenced
  <2>3. ASSUME NEW w \in Workers
        PROVE  /\ disp[w].c # Nil => ctx[disp[w].c].state = "live"
               /\ \A s \in {disp[w].q, disp[w].nq} \ {Nil} : mq[s].state = "live"
    BY MayUse DEF Live, Flagged
  <2>4. \A i \in DOMAIN globalq : mq[globalq[i]].state = "live"
    BY HoldersLive DEF Flagged
  <2> QED
    BY <2>2, <2>3, <2>4 DEF NoUseAfterFree
<1> QED
  BY Invariant, <1>1, PTL
=============================================================================
