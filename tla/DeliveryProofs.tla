--------------------------- MODULE DeliveryProofs ---------------------------
(***************************************************************************)
(* Until a node crashes or a call to the backend fails, the topic keeps    *)
(* one copy of a message, counts its runs exactly, and so implements       *)
(* Delivery; for every choice of the constants of Dispatch.                *)
(***************************************************************************)
EXTENDS DispatchProofs

-----------------------------------------------------------------------------
(***************************************************************************)
(* A message is in one place.                                              *)
(***************************************************************************)

\* Where the one copy of i is while nothing has failed: c is the kind of place,
\* x the node or the worker that has it, or the way it ended.
Has(c, x, i) ==
    \/ c = "unsent" /\ x = NoWorker /\ i \notin sent
    \/ c = "queue" /\ x = NoWorker /\ HasId(queue, i)
    \/ c = "delayed" /\ x = NoWorker /\ \E m \in delayed : m.id = i
    \/ c = "firing" /\ x = NoWorker /\ \E m \in firing : m.id = i
    \/ c = "dispatcher" /\ x \in Node /\ pc[x] \in Holding /\ held[x].id = i
    \/ c = "inbox" /\ x \in Worker /\ HasId(inbox[x], i)
    \/ c = "handler" /\ x \in Worker /\ wpc[x] # "idle" /\ cur[x].id = i
    \/ c = "fate" /\ x \in fate[i]

\* i is in exactly one place.
Sole(i) == \E c, x : \A d, y : Has(d, y, i) <=> d = c /\ y = x

\* No two entries of a sequence, or of a set, are copies of one message.
Distinct(s) == \A k, l \in DOMAIN s : s[k].id = s[l].id => k = l
Keyed(S) == \A a, b \in S : a.id = b.id => a = b

\* Nothing has failed: no claim is left behind, and every message is in exactly
\* one place, where it is once.
CopyInv ==
    /\ orphans = <<>> /\ \A n \in Node : reclaimed[n] = <<>>
    /\ Distinct(queue) /\ \A w \in Worker : Distinct(inbox[w])
    /\ Keyed(delayed) /\ Keyed(firing)
    /\ \A i \in Id : Sole(i)

\* A step leaves i where it is, or moves it from one place to another.
Stays(i) == \A c, x : Has(c, x, i)' <=> Has(c, x, i)
Moves(i, c, x, d, y) ==
    /\ Has(c, x, i) /\ Has(d, y, i)'
    /\ \A e, z : Has(e, z, i)' => \/ e = d /\ z = y
                                  \/ Has(e, z, i) /\ ~ (e = c /\ z = x)

\* A queue or an inbox without two copies of a message, when one is added.
LEMMA AppendCopy ==
    ASSUME NEW s \in Seq(Msg), NEW m \in Msg
    PROVE  /\ \A i : HasId(Append(s, m), i) <=> HasId(s, i) \/ m.id = i
           /\ Distinct(s) /\ ~ HasId(s, m.id) => Distinct(Append(s, m))
  <1>1. /\ DOMAIN Append(s, m) = DOMAIN s \cup {Len(s) + 1}
        /\ \A k \in DOMAIN s : Append(s, m)[k] = s[k]
        /\ Append(s, m)[Len(s) + 1] = m
    OBVIOUS
  <1>2. \A i : HasId(Append(s, m), i) <=> HasId(s, i) \/ m.id = i
    BY Zenon, <1>1 DEF HasId
  <1>3. ASSUME Distinct(s), ~ HasId(s, m.id)
        PROVE  Distinct(Append(s, m))
    BY Zenon, <1>1, <1>3 DEF HasId, Distinct
  <1> QED  BY Zenon, <1>2, <1>3

\* The same when its first message is taken.
LEMMA TakeCopy ==
    ASSUME NEW s \in Seq(Msg), s # <<>>, Distinct(s)
    PROVE  /\ HasId(s, Head(s).id) /\ Distinct(Tail(s))
           /\ \A i : HasId(Tail(s), i) <=> HasId(s, i) /\ i # Head(s).id
  <1>1. /\ 1 \in DOMAIN s /\ Head(s) = s[1]
        /\ \A k \in DOMAIN Tail(s) : /\ k + 1 \in DOMAIN s /\ k + 1 # 1
                                     /\ Tail(s)[k] = s[k + 1]
        /\ \A k, l \in DOMAIN Tail(s) : k + 1 = l + 1 => k = l
    OBVIOUS
  <1>2. ASSUME NEW k \in DOMAIN s, k # 1
        PROVE  \E l \in DOMAIN Tail(s) : l + 1 = k
    <2>1. k - 1 \in DOMAIN Tail(s) /\ (k - 1) + 1 = k
      BY <1>2
    <2> QED  BY Zenon, <2>1
  <1>3. HasId(s, Head(s).id)
    BY Zenon, <1>1 DEF HasId
  <1>4. ASSUME NEW k \in DOMAIN Tail(s), NEW l \in DOMAIN Tail(s),
               Tail(s)[k].id = Tail(s)[l].id
        PROVE  k = l
    <2>1. /\ k + 1 \in DOMAIN s /\ l + 1 \in DOMAIN s
          /\ s[k + 1].id = s[l + 1].id
      BY Zenon, <1>1, <1>4
    <2>2. k + 1 = l + 1
      BY Zenon, <2>1 DEF Distinct
    <2> QED  BY Zenon, <1>1, <2>2
  <1>5. ASSUME NEW i, HasId(Tail(s), i)
        PROVE  HasId(s, i) /\ i # Head(s).id
    BY ZenonT(60), <1>1, <1>5 DEF HasId, Distinct
  <1>6. ASSUME NEW i, HasId(s, i), i # Head(s).id
        PROVE  HasId(Tail(s), i)
    <2>1. PICK k \in DOMAIN s : s[k].id = i
      BY Zenon, <1>6 DEF HasId
    <2>2. PICK l \in DOMAIN Tail(s) : l + 1 = k
      BY Zenon, <1>1, <1>2, <1>6, <2>1
    <2>3. Tail(s)[l].id = i
      BY Zenon, <1>1, <2>1, <2>2
    <2> QED  BY Zenon, <2>3 DEF HasId
  <1> QED  BY Zenon, <1>3, <1>4, <1>5, <1>6 DEF Distinct

\* An empty inbox has no copies.
LEMMA NoCopy == Distinct(<<>>) /\ \A i : ~ HasId(<<>>, i)
  BY DEF HasId, Distinct

\* A message that is in one place before a step is in one place after it.
LEMMA SoleKept ==
    ASSUME NEW i, Sole(i), Stays(i) \/ \E c, x, d, y : Moves(i, c, x, d, y)
    PROVE  Sole(i)'
  <1>1. PICK a, v : \A d, y : Has(d, y, i) <=> d = a /\ y = v
    BY DEF Sole
  <1>2. CASE Stays(i)
    <2>1. \A d, y : Has(d, y, i)' <=> d = a /\ y = v
      BY <1>1, <1>2 DEF Stays
    <2> QED  BY <2>1 DEF Sole
  <1>3. ASSUME NEW c, NEW x, NEW d, NEW y, Moves(i, c, x, d, y)
        PROVE  Sole(i)'
    <2>1. \A e, z : Has(e, z, i)' <=> e = d /\ z = y
      BY <1>1, <1>3 DEF Moves
    <2> QED  BY <2>1 DEF Sole
  <1> QED  BY <1>2, <1>3

\* A message in one place is in no other.
LEMMA SoleElse ==
    ASSUME NEW i, Sole(i), NEW c, NEW x, NEW d, NEW y, Has(c, x, i), Has(d, y, i)
    PROVE  c = d /\ x = y
  BY DEF Sole

\* What Stays(i) asks of every kind of place.
LEMMA StaysWhen ==
    ASSUME NEW i, i \in sent' <=> i \in sent,
           HasId(queue', i) <=> HasId(queue, i),
           (\E m \in delayed' : m.id = i) <=> (\E m \in delayed : m.id = i),
           (\E m \in firing' : m.id = i) <=> (\E m \in firing : m.id = i),
           \A x \in Node : (pc'[x] \in Holding /\ held'[x].id = i)
                               <=> (pc[x] \in Holding /\ held[x].id = i),
           \A x \in Worker : HasId(inbox'[x], i) <=> HasId(inbox[x], i),
           \A x \in Worker : (wpc'[x] # "idle" /\ cur'[x].id = i)
                               <=> (wpc[x] # "idle" /\ cur[x].id = i),
           fate'[i] = fate[i]
    PROVE  Stays(i)
  <1> SUFFICES ASSUME NEW c, NEW x
               PROVE  Has(c, x, i)' <=> Has(c, x, i)
    BY DEF Stays
  <1> QED  BY Zenon DEF Has

\* Every message stays or moves, and no place gets a second copy of one.
LEMMA CopiesMove ==
    ASSUME CopyInv, orphans' = orphans, reclaimed' = reclaimed,
           Distinct(queue'), \A w \in Worker : Distinct(inbox'[w]),
           Keyed(delayed'), Keyed(firing'),
           \A i \in Id : Stays(i) \/ \E c, x, d, y : Moves(i, c, x, d, y)
    PROVE  CopyInv'
  <1>1. \A i \in Id : Sole(i)'
    BY Zenon, SoleKept DEF CopyInv
  <1> QED  BY Zenon, <1>1 DEF CopyInv

\* Steps that move no message.
LEMMA CopiesStay ==
    ASSUME CopyInv,
           UNCHANGED <<busVars, reclaimed, inbox, sent, fate>>,
           \A i : \A x \in Node : (pc'[x] \in Holding /\ held'[x].id = i)
                                     <=> (pc[x] \in Holding /\ held[x].id = i),
           \A i : \A x \in Worker : (wpc'[x] # "idle" /\ cur'[x].id = i)
                                       <=> (wpc[x] # "idle" /\ cur[x].id = i)
    PROVE  CopyInv'
  <1>1. UNCHANGED <<queue, orphans, delayed, firing, reclaimed, inbox, sent, fate>>
    BY Zenon DEF busVars
  <1>2. \A i \in Id : Stays(i)
    BY Zenon, <1>1, StaysWhen
  <1> QED  BY Zenon, <1>1, <1>2, CopiesMove DEF CopyInv

\* A message that is elsewhere is not on the queue: the queue may take it.
LEMMA QueueTakes ==
    ASSUME TypeOK, CopyInv, NEW c, NEW x, NEW m \in Msg, Has(c, x, m.id),
           c # "queue", queue' = Append(queue, m)
    PROVE  /\ \A i : HasId(queue', i) <=> HasId(queue, i) \/ i = m.id
           /\ Distinct(queue')
  <1>1. queue \in Seq(Msg) /\ m.id \in Id
    BY Zenon, MsgOps DEF TypeOK, BusType
  <1>2. ~ Has("queue", NoWorker, m.id)
    BY <1>1, SoleElse DEF CopyInv
  <1>3. ~ HasId(queue, m.id)
    BY Zenon, <1>2 DEF Has
  <1>4. \A i : HasId(Append(queue, m), i) <=> HasId(queue, i) \/ m.id = i
    BY Zenon, <1>1, AppendCopy
  <1>5. Distinct(Append(queue, m))
    BY Zenon, <1>1, <1>3, AppendCopy DEF CopyInv
  <1> QED  BY Zenon, <1>4, <1>5

\* The dispatcher of n lets go of the message it holds.
LEMMA DispatcherGives ==
    ASSUME NEW n \in Node, pc'[n] \notin Holding,
           \A x \in Node \ {n} : pc'[x] = pc[x] /\ held'[x] = held[x]
    PROVE  \A i : \A x \in Node :
               (pc'[x] \in Holding /\ held'[x].id = i)
                   <=> (x # n /\ pc[x] \in Holding /\ held[x].id = i)
  BY Zenon

\* Worker w lets go of the message it processes.
LEMMA WorkerGives ==
    ASSUME NEW w \in Worker, wpc'[w] = "idle",
           \A x \in Worker \ {w} : wpc'[x] = wpc[x] /\ cur'[x] = cur[x]
    PROVE  \A i : \A x \in Worker :
               (wpc'[x] # "idle" /\ cur'[x].id = i)
                   <=> (x # w /\ wpc[x] # "idle" /\ cur[x].id = i)
  BY Zenon

\* A message in one place has no end yet, so settling it gives it one.
LEMMA SettleOnce ==
    ASSUME TypeOK, CopyInv, NEW c, NEW x, NEW j \in Id, NEW f \in Fate,
           Has(c, x, j), c # "fate", NEW S, Settle(S, f), j \in S
    PROVE  fate'[j] = {f}
  <1>1. \A g : ~ Has("fate", g, j)
    BY SoleElse DEF CopyInv
  <1>2. \A g : g \notin fate[j]
    BY Zenon, <1>1 DEF Has
  <1>3. fate'[j] = fate[j] \cup {f}
    BY Zenon DEF Settle
  <1> QED  BY Zenon, <1>2, <1>3

\* A delivery moves the message from the dispatcher to the inbox it fits in.
LEMMA DeliverCopies ==
    ASSUME TypeOK, CopyInv, NEW n \in Node, NEW w \in Worker, Deliver(n, w)
    PROVE  CopyInv'
  <1>1. PICK j \in Id, m \in Msg :
            m = Stamped(held[n], w) /\ m.id = j /\ held[n].id = j
    <2>1. held[n] \in Msg
      BY Zenon DEF Deliver, TypeOK, DispType
    <2>2. /\ Stamped(held[n], w) \in Msg /\ held[n].id \in Id
          /\ Stamped(held[n], w).id = held[n].id
      BY Zenon, <2>1, MsgOps
    <2> QED  BY Zenon, <2>2
  <1>2. /\ inbox[w] \in Seq(Msg) /\ inbox \in [Worker -> Seq(Msg)]
        /\ pc \in [Node -> DispatcherPC] /\ held' = held
        /\ pc[n] = "route" /\ pc' = [pc EXCEPT ![n] = "ack"]
        /\ inbox' = [inbox EXCEPT ![w] = Append(inbox[w], m)]
    BY Zenon, <1>1 DEF Deliver, TypeOK, WorkType, DispType
  <1>3. UNCHANGED <<queue, orphans, delayed, firing, reclaimed, cur, wpc, sent,
                    fate>>
    BY Zenon DEF Deliver, busVars, histVars
  <1>4. pc[n] \in Holding /\ "ack" \notin Holding
    BY <1>2 DEF Holding
  <1>5. \A i : \A x \in Node :
            pc'[x] \in Holding /\ held'[x].id = i
                <=> x # n /\ pc[x] \in Holding /\ held[x].id = i
    BY Zenon, <1>2, <1>4
  <1>6. Has("dispatcher", n, j)
    BY Zenon, <1>1, <1>4 DEF Has
  <1>7. \A x \in Worker : ~ HasId(inbox[x], j)
    <2>1. \A x \in Worker : ~ Has("inbox", x, j)
      BY <1>6, SoleElse DEF CopyInv
    <2> QED  BY Zenon, <2>1 DEF Has
  <1>8. /\ \A i : \A x \in Worker :
               HasId(inbox'[x], i) <=> HasId(inbox[x], i) \/ (x = w /\ j = i)
        /\ \A x \in Worker : Distinct(inbox'[x])
    <2>1. \A i : HasId(Append(inbox[w], m), i)
                    <=> HasId(inbox[w], i) \/ m.id = i
      BY Zenon, <1>2, AppendCopy
    <2>2. Distinct(inbox[w]) /\ ~ HasId(inbox[w], m.id)
      BY Zenon, <1>1, <1>7 DEF CopyInv
    <2>3. Distinct(Append(inbox[w], m))
      BY Zenon, <1>2, <2>2, AppendCopy
    <2> QED  BY Zenon, <1>1, <1>2, <2>1, <2>3 DEF CopyInv
  <1>9. \A i : i # j => Stays(i)
    BY Zenon, <1>1, <1>3, <1>5, <1>8, StaysWhen
  <1>10. Moves(j, "dispatcher", n, "inbox", w)
    <2>1. Has("inbox", w, j)'
      BY Zenon, <1>8 DEF Has
    <2>2. ASSUME NEW e, NEW z, Has(e, z, j)'
          PROVE  \/ e = "inbox" /\ z = w
                 \/ Has(e, z, j) /\ ~ (e = "dispatcher" /\ z = n)
      BY Zenon, <1>3, <1>5, <1>8, <2>2 DEF Has
    <2> QED  BY <1>6, <2>1, <2>2 DEF Moves
  <1> QED  BY Zenon, <1>3, <1>8, <1>9, <1>10, CopiesMove DEF CopyInv

-----------------------------------------------------------------------------
(* Steps of the producers, the delay scheduler and the dispatchers *)

\* TopicRouter::send puts a new message on the queue or into the WAL.
LEMMA SendCopies ==
    ASSUME TypeOK, CopyInv, NEW j \in Id, NEW t \in Targets,
           Send(j, t) \/ SendDelayed(j, t)
    PROVE  CopyInv'
  <1>1. /\ NewMsg(j, t) \in Msg /\ NewMsg(j, t).id = j
        /\ Has("unsent", NoWorker, j)
    BY Zenon, NewMsgType DEF Send, SendDelayed, Has
  <1>2. /\ UNCHANGED <<orphans, firing, pc, held, reclaimed, inbox, cur, wpc,
                       fate>>
        /\ sent' = sent \cup {j}
    BY Zenon DEF Send, SendDelayed, dispVars, workVars
  <1>3. CASE Send(j, t)
    <2>1. /\ \A i : HasId(queue', i) <=> HasId(queue, i) \/ i = j
          /\ Distinct(queue') /\ delayed' = delayed
      <3>1. queue' = Append(queue, NewMsg(j, t)) /\ delayed' = delayed
        BY Zenon, <1>3 DEF Send
      <3> QED  BY <1>1, <3>1, QueueTakes
    <2>2. \A i : i # j => Stays(i)
      BY Zenon, <1>2, <2>1, StaysWhen
    <2>3. Moves(j, "unsent", NoWorker, "queue", NoWorker)
      <3>1. Has("queue", NoWorker, j)'
        BY Zenon, <2>1 DEF Has
      <3>2. ASSUME NEW e, NEW z, Has(e, z, j)'
            PROVE  \/ e = "queue" /\ z = NoWorker
                   \/ Has(e, z, j) /\ ~ (e = "unsent" /\ z = NoWorker)
        BY Zenon, <1>2, <2>1, <3>2 DEF Has
      <3> QED  BY <1>1, <3>1, <3>2 DEF Moves
    <2> QED  BY Zenon, <1>2, <2>1, <2>2, <2>3, CopiesMove DEF CopyInv
  <1>4. CASE SendDelayed(j, t)
    <2>1. /\ \A i : (\E m \in delayed' : m.id = i)
                       <=> (\E m \in delayed : m.id = i) \/ i = j
          /\ Keyed(delayed') /\ queue' = queue
      <3>1. /\ delayed' = {d \in delayed : d.id # j} \cup {NewMsg(j, t)}
            /\ queue' = queue
        BY Zenon, <1>1, <1>4 DEF SendDelayed, Schedule
      <3> QED  BY Zenon, <1>1, <3>1 DEF CopyInv, Keyed
    <2>2. \A i : i # j => Stays(i)
      BY Zenon, <1>2, <2>1, StaysWhen
    <2>3. Moves(j, "unsent", NoWorker, "delayed", NoWorker)
      <3>1. Has("delayed", NoWorker, j)'
        BY Zenon, <2>1 DEF Has
      <3>2. ASSUME NEW e, NEW z, Has(e, z, j)'
            PROVE  \/ e = "delayed" /\ z = NoWorker
                   \/ Has(e, z, j) /\ ~ (e = "unsent" /\ z = NoWorker)
        BY Zenon, <1>2, <2>1, <3>2 DEF Has
      <3> QED  BY <1>1, <3>1, <3>2 DEF Moves
    <2> QED  BY Zenon, <1>2, <2>1, <2>2, <2>3, CopiesMove DEF CopyInv
  <1> QED  BY Zenon, <1>3, <1>4

\* The delay scheduler takes due records over, and sends each of them.
LEMMA SchedulerCopies ==
    ASSUME TypeOK, CopyInv, Scheduler, Calm, Calm'
    PROVE  CopyInv'
  <1>1. CASE FetchReady
    <2>1. PICK S \in SUBSET delayed :
              firing = {} /\ firing' = S /\ delayed' = delayed \ S
      BY Zenon, <1>1 DEF FetchReady
    <2>2. UNCHANGED <<queue, orphans, pc, held, reclaimed, inbox, cur, wpc, sent,
                      fate>>
      BY Zenon, <1>1 DEF FetchReady, dispVars, workVars, histVars
    <2>3. Keyed(delayed') /\ Keyed(firing')
      BY Zenon, <2>1 DEF CopyInv, Keyed
    <2>4. ASSUME NEW j \in Id, \E m \in S : m.id = j
          PROVE  Moves(j, "delayed", NoWorker, "firing", NoWorker)
      <3>1. Has("delayed", NoWorker, j) /\ Has("firing", NoWorker, j)'
        BY Zenon, <2>1, <2>4 DEF Has
      <3>2. ~ \E m \in delayed' : m.id = j
        BY Zenon, <2>1, <2>4 DEF CopyInv, Keyed
      <3>3. ASSUME NEW e, NEW z, Has(e, z, j)'
            PROVE  \/ e = "firing" /\ z = NoWorker
                   \/ Has(e, z, j) /\ ~ (e = "delayed" /\ z = NoWorker)
        BY Zenon, <2>2, <3>2, <3>3 DEF Has
      <3> QED  BY <3>1, <3>3 DEF Moves
    <2>5. ASSUME NEW j \in Id, ~ \E m \in S : m.id = j
          PROVE  Stays(j)
      <3>1. /\ (\E m \in delayed' : m.id = j) <=> (\E m \in delayed : m.id = j)
            /\ (\E m \in firing' : m.id = j) <=> (\E m \in firing : m.id = j)
        BY Zenon, <2>1, <2>5
      <3> QED  BY Zenon, <2>2, <3>1, StaysWhen
    <2> QED  BY Zenon, <2>2, <2>3, <2>4, <2>5, CopiesMove DEF CopyInv
  <1>2. ASSUME NEW m \in firing, FireDelayed(m)
        PROVE  CopyInv'
    <2>1. PICK j \in Id : m \in Msg /\ m.id = j
      BY Zenon, MsgOps DEF TypeOK, BusType
    <2>2. /\ firing' = firing \ {m} /\ queue' = Append(queue, m)
          /\ UNCHANGED <<orphans, delayed, pc, held, reclaimed, inbox, cur, wpc,
                         sent, fate>>
      <3>1. ~ Fault
        BY DEF Fault, Calm
      <3> QED  BY Zenon, <1>2, <3>1 DEF FireDelayed, dispVars, workVars
    <2>3. Has("firing", NoWorker, j)
      BY Zenon, <2>1 DEF Has
    <2>4. /\ \A i : HasId(queue', i) <=> HasId(queue, i) \/ i = j
          /\ Distinct(queue')
      BY <2>1, <2>2, <2>3, QueueTakes
    <2>5. /\ Keyed(firing')
          /\ \A i : (\E d \in firing' : d.id = i)
                       <=> (\E d \in firing : d.id = i) /\ i # j
      BY Zenon, <2>1, <2>2 DEF CopyInv, Keyed
    <2>6. \A i : i # j => Stays(i)
      BY Zenon, <2>2, <2>4, <2>5, StaysWhen
    <2>7. Moves(j, "firing", NoWorker, "queue", NoWorker)
      <3>1. Has("queue", NoWorker, j)'
        BY Zenon, <2>4 DEF Has
      <3>2. ASSUME NEW e, NEW z, Has(e, z, j)'
            PROVE  \/ e = "queue" /\ z = NoWorker
                   \/ Has(e, z, j) /\ ~ (e = "firing" /\ z = NoWorker)
        BY Zenon, <2>2, <2>4, <2>5, <3>2 DEF Has
      <3> QED  BY <2>3, <3>1, <3>2 DEF Moves
    <2> QED  BY Zenon, <2>2, <2>4, <2>5, <2>6, <2>7, CopiesMove DEF CopyInv
  <1> QED  BY Zenon, <1>1, <1>2 DEF Scheduler

\* A claim moves the first message of the queue to the dispatcher.
LEMMA ClaimCopies ==
    ASSUME TypeOK, CopyInv, NEW n \in Node, Claim(n)
    PROVE  CopyInv'
  <1>1. /\ pc \in [Node -> DispatcherPC] /\ held \in [Node -> Msg \cup {NoMsg}]
        /\ queue \in Seq(Msg) /\ Distinct(queue)
    BY Zenon DEF TypeOK, DispType, BusType, CopyInv
  <1>2. /\ queue # <<>> /\ queue' = Tail(queue) /\ reclaimed' = reclaimed
        /\ held' = [held EXCEPT ![n] = Head(queue)]
        /\ pc[n] = "claim" /\ pc' = [pc EXCEPT ![n] = "load"]
        /\ UNCHANGED <<orphans, delayed, firing, inbox, cur, wpc, sent, fate>>
    BY Zenon DEF Claim, CopyInv, workVars, histVars
  <1>3. PICK j \in Id : Head(queue).id = j
    BY Zenon, <1>1, <1>2, MsgSeq, MsgOps
  <1>4. /\ HasId(queue, j) /\ Distinct(queue')
        /\ \A i : HasId(queue', i) <=> HasId(queue, i) /\ i # j
    BY Zenon, <1>1, <1>2, <1>3, TakeCopy
  <1>5. "claim" \notin Holding /\ "load" \in Holding
    BY DEF Holding
  <1>6. \A i : \A x \in Node :
            (pc'[x] \in Holding /\ held'[x].id = i)
                <=> (x = n /\ i = j) \/ (pc[x] \in Holding /\ held[x].id = i)
    BY Zenon, <1>1, <1>2, <1>3, <1>5
  <1>7. \A i : i # j => Stays(i)
    BY Zenon, <1>2, <1>4, <1>6, StaysWhen
  <1>8. Moves(j, "queue", NoWorker, "dispatcher", n)
    <2>1. Has("queue", NoWorker, j) /\ Has("dispatcher", n, j)'
      BY Zenon, <1>4, <1>6 DEF Has
    <2>2. ASSUME NEW e, NEW z, Has(e, z, j)'
          PROVE  \/ e = "dispatcher" /\ z = n
                 \/ Has(e, z, j) /\ ~ (e = "queue" /\ z = NoWorker)
      BY Zenon, <1>2, <1>4, <1>6, <2>2 DEF Has
    <2> QED  BY <2>1, <2>2 DEF Moves
  <1> QED  BY Zenon, <1>2, <1>4, <1>7, <1>8, CopiesMove DEF CopyInv

\* Putting a claimed message back, or sending it on, moves it to the queue.
LEMMA BackCopies ==
    ASSUME TypeOK, CopyInv, Calm, Calm', NEW n \in Node, Relay(n) \/ Nack(n)
    PROVE  CopyInv'
  <1>1. /\ pc \in [Node -> DispatcherPC] /\ held \in [Node -> Msg \cup {NoMsg}]
        /\ held[n] \in Msg
    BY Zenon DEF TypeOK, DispType, Relay, Nack
  <1>2. PICK j \in Id : held[n].id = j
    BY Zenon, <1>1, MsgOps
  <1>3. /\ queue' = Append(queue, held[n])
        /\ pc'[n] \in {"ack", "claim"} /\ pc[n] \in {"relay", "nack"}
        /\ \A x \in Node \ {n} : pc'[x] = pc[x] /\ held'[x] = held[x]
        /\ UNCHANGED <<orphans, delayed, firing, reclaimed, inbox, cur, wpc,
                       sent, fate>>
    <2>1. CASE Relay(n)
      <3>1. ~ Fault
        BY DEF Fault, Calm
      <3> QED  BY Zenon, <1>1, <2>1, <3>1 DEF Relay, NextClaim, workVars
    <2>2. CASE Nack(n)
      BY Zenon, <1>1, <2>2 DEF Nack, workVars, histVars
    <2> QED  BY Zenon, <2>1, <2>2
  <1>4. pc[n] \in Holding /\ pc'[n] \notin Holding
    BY <1>3 DEF Holding
  <1>5. Has("dispatcher", n, j)
    BY Zenon, <1>2, <1>4 DEF Has
  <1>6. /\ \A i : HasId(queue', i) <=> HasId(queue, i) \/ i = j
        /\ Distinct(queue')
    BY <1>1, <1>2, <1>3, <1>5, QueueTakes
  <1>7. \A i : \A x \in Node :
            (pc'[x] \in Holding /\ held'[x].id = i)
                <=> (x # n /\ pc[x] \in Holding /\ held[x].id = i)
    BY Zenon, <1>3, <1>4, DispatcherGives
  <1>8. \A i : i # j => Stays(i)
    BY Zenon, <1>2, <1>3, <1>6, <1>7, StaysWhen
  <1>9. Moves(j, "dispatcher", n, "queue", NoWorker)
    <2>1. Has("queue", NoWorker, j)'
      BY Zenon, <1>6 DEF Has
    <2>2. ASSUME NEW e, NEW z, Has(e, z, j)'
          PROVE  \/ e = "queue" /\ z = NoWorker
                 \/ Has(e, z, j) /\ ~ (e = "dispatcher" /\ z = n)
      BY Zenon, <1>3, <1>6, <1>7, <2>2 DEF Has
    <2> QED  BY <1>5, <2>1, <2>2 DEF Moves
  <1>10. \A i \in Id : Stays(i) \/ \E c, x, d, y : Moves(i, c, x, d, y)
    BY Zenon, <1>8, <1>9
  <1> QED  BY Zenon, <1>3, <1>6, <1>10, CopiesMove DEF CopyInv

\* A message dropped at the hop cap ends once.
LEMMA DropMissCopies ==
    ASSUME TypeOK, CopyInv, NEW n \in Node, DropMiss(n)
    PROVE  CopyInv'
  <1>1. /\ pc \in [Node -> DispatcherPC] /\ held[n] \in Msg
        /\ pc[n] = "route" /\ pc' = [pc EXCEPT ![n] = "ack"] /\ held' = held
        /\ Settle({held[n].id}, "dropped")
        /\ UNCHANGED <<queue, orphans, delayed, firing, reclaimed, inbox, cur,
                       wpc, sent>>
    BY Zenon DEF TypeOK, DispType, DropMiss, busVars, workVars
  <1>2. PICK j \in Id : held[n].id = j
    BY Zenon, <1>1, MsgOps
  <1>3. pc[n] \in Holding /\ "ack" \notin Holding /\ "dropped" \in Fate
    BY <1>1 DEF Holding, Fate
  <1>4. Has("dispatcher", n, j)
    BY Zenon, <1>2, <1>3 DEF Has
  <1>5. fate'[j] = {"dropped"} /\ \A i \in Id : i # j => fate'[i] = fate[i]
    <2>1. fate'[j] = {"dropped"}
      BY <1>1, <1>2, <1>3, <1>4, SettleOnce
    <2> QED  BY Zenon, <1>1, <1>2, <2>1 DEF Settle
  <1>6. \A i : \A x \in Node :
            (pc'[x] \in Holding /\ held'[x].id = i)
                <=> (x # n /\ pc[x] \in Holding /\ held[x].id = i)
    BY Zenon, <1>1, <1>3
  <1>7. \A i \in Id : i # j => Stays(i)
    BY Zenon, <1>1, <1>2, <1>5, <1>6, StaysWhen
  <1>8. Moves(j, "dispatcher", n, "fate", "dropped")
    <2>1. Has("fate", "dropped", j)'
      BY Zenon, <1>5 DEF Has
    <2>2. ASSUME NEW e, NEW z, Has(e, z, j)'
          PROVE  \/ e = "fate" /\ z = "dropped"
                 \/ Has(e, z, j) /\ ~ (e = "dispatcher" /\ z = n)
      BY Zenon, <1>1, <1>5, <1>6, <2>2 DEF Has
    <2> QED  BY <1>4, <2>1, <2>2 DEF Moves
  <1> QED  BY Zenon, <1>1, <1>7, <1>8, CopiesMove DEF CopyInv

\* The other steps of a dispatcher move no message.
LEMMA DispatcherCopies ==
    ASSUME TypeOK, CopyInv, Calm, Calm', NEW n \in Node, Dispatcher(n)
    PROVE  CopyInv'
  <1>1. ~ Fault
    BY DEF Fault, Calm
  <1>2. /\ pc \in [Node -> DispatcherPC] /\ held \in [Node -> Msg \cup {NoMsg}]
        /\ pc[n] \notin {"off", "claim"} => held[n] \in Msg
    BY Zenon DEF TypeOK, DispType
  <1>3. CASE \/ LoadGeneration(n) \/ ReadNames(n) \/ FilterInboxes(n)
             \/ \E w \in Worker : Refused(n, w)
    <2>1. /\ held' = held /\ \A x \in Node \ {n} : pc'[x] = pc[x]
          /\ UNCHANGED <<busVars, reclaimed, inbox, cur, wpc, sent, fate>>
      BY Zenon, <1>2, <1>3
         DEF LoadGeneration, ReadNames, FilterInboxes, Refused,
         workVars, histVars
    <2>2. pc[n] \in Holding /\ pc'[n] \in Holding
      BY <1>2, <1>3
         DEF LoadGeneration, ReadNames, FilterInboxes, Refused, Holding
    <2>3. \A i : \A x \in Node : (pc'[x] \in Holding /\ held'[x].id = i)
                                   <=> (pc[x] \in Holding /\ held[x].id = i)
      BY Zenon, <2>1, <2>2
    <2> QED  BY Zenon, <2>1, <2>3, CopiesStay
  <1>4. CASE RelayMiss(n)
    <2>1. /\ held' = [held EXCEPT ![n] = Attempted(held[n])]
          /\ pc[n] = "route" /\ pc' = [pc EXCEPT ![n] = "relay"]
          /\ UNCHANGED <<busVars, reclaimed, inbox, cur, wpc, sent, fate>>
      BY Zenon, <1>1, <1>4 DEF RelayMiss, busVars, workVars, histVars
    <2>2. Attempted(held[n]).id = held[n].id
      BY Zenon, <1>2, <2>1, MsgOps
    <2>3. "route" \in Holding /\ "relay" \in Holding
      BY DEF Holding
    <2>4. \A i : \A x \in Node : (pc'[x] \in Holding /\ held'[x].id = i)
                                   <=> (pc[x] \in Holding /\ held[x].id = i)
      BY Zenon, <1>2, <2>1, <2>2, <2>3
    <2> QED  BY Zenon, <2>1, <2>4, CopiesStay
  <1>5. CASE Ack(n)
    <2>1. /\ held' = [held EXCEPT ![n] = NoMsg]
          /\ pc[n] = "ack" /\ pc' = [pc EXCEPT ![n] = "claim"]
          /\ UNCHANGED <<busVars, reclaimed, inbox, cur, wpc, sent, fate>>
      BY Zenon, <1>1, <1>5 DEF Ack, NextClaim, busVars, workVars
    <2>2. "ack" \notin Holding /\ "claim" \notin Holding
      BY DEF Holding
    <2>3. \A i : \A x \in Node : (pc'[x] \in Holding /\ held'[x].id = i)
                                   <=> (pc[x] \in Holding /\ held[x].id = i)
      BY Zenon, <1>2, <2>1, <2>2
    <2> QED  BY Zenon, <2>1, <2>3, CopiesStay
  <1>6. ~ ClaimStale(n) /\ ~ NackFails(n)
    BY Zenon, <1>1 DEF ClaimStale, NackFails, CopyInv
  <1> QED
    BY Zenon, <1>3, <1>4, <1>5, <1>6, ClaimCopies, BackCopies, DropMissCopies,
       DeliverCopies DEF Dispatcher

-----------------------------------------------------------------------------
(* Steps of the workers *)

\* A worker takes the first message of its inbox.
LEMMA ReceiveCopies ==
    ASSUME TypeOK, CopyInv, NEW w \in Worker, Receive(w)
    PROVE  CopyInv'
  <1>1. /\ inbox \in [Worker -> Seq(Msg)] /\ cur \in [Worker -> Msg \cup {NoMsg}]
        /\ wpc \in [Worker -> {"idle", "run", "send"}] /\ Distinct(inbox[w])
    BY Zenon DEF TypeOK, WorkType, CopyInv
  <1>2. /\ inbox[w] # <<>> /\ inbox' = [inbox EXCEPT ![w] = Tail(inbox[w])]
        /\ cur' = [cur EXCEPT ![w] = Head(inbox[w])]
        /\ wpc[w] = "idle" /\ wpc' = [wpc EXCEPT ![w] = "run"]
        /\ UNCHANGED <<queue, orphans, delayed, firing, pc, held, reclaimed, sent,
                       fate>>
    BY Zenon DEF Receive, busVars, dispVars, histVars
  <1>3. PICK j \in Id : Head(inbox[w]).id = j
    BY Zenon, <1>1, <1>2, MsgSeq, MsgOps
  <1>4. /\ HasId(inbox[w], j) /\ Distinct(Tail(inbox[w]))
        /\ \A i : HasId(Tail(inbox[w]), i) <=> HasId(inbox[w], i) /\ i # j
    BY Zenon, <1>1, <1>2, <1>3, TakeCopy
  <1>5. /\ \A x \in Worker : Distinct(inbox'[x])
        /\ \A i : \A x \in Worker :
               HasId(inbox'[x], i) <=> HasId(inbox[x], i) /\ ~ (x = w /\ i = j)
    BY Zenon, <1>1, <1>2, <1>4 DEF CopyInv
  <1>6. \A i : \A x \in Worker :
            (wpc'[x] # "idle" /\ cur'[x].id = i)
                <=> (x = w /\ i = j) \/ (wpc[x] # "idle" /\ cur[x].id = i)
    BY Zenon, <1>1, <1>2, <1>3
  <1>7. \A i : i # j => Stays(i)
    BY ZenonT(60), <1>2, <1>5, <1>6, StaysWhen
  <1>8. Moves(j, "inbox", w, "handler", w)
    <2>1. Has("inbox", w, j) /\ Has("handler", w, j)'
      BY Zenon, <1>4, <1>6 DEF Has
    <2>2. ASSUME NEW e, NEW z, Has(e, z, j)'
          PROVE  \/ e = "handler" /\ z = w
                 \/ Has(e, z, j) /\ ~ (e = "inbox" /\ z = w)
      BY Zenon, <1>2, <1>5, <1>6, <2>2 DEF Has
    <2> QED  BY <2>1, <2>2 DEF Moves
  <1> QED  BY Zenon, <1>2, <1>5, <1>7, <1>8, CopiesMove DEF CopyInv

\* A message whose handling ends for good ends once.
LEMMA EndCopies ==
    ASSUME TypeOK, CopyInv, NEW w \in Worker, wpc[w] # "idle",
           cur' = [cur EXCEPT ![w] = NoMsg], wpc' = [wpc EXCEPT ![w] = "idle"],
           NEW f \in Fate, Settle({cur[w].id}, f),
           UNCHANGED <<queue, orphans, delayed, firing, pc, held, reclaimed,
                       inbox, sent>>
    PROVE  CopyInv'
  <1>1. /\ cur \in [Worker -> Msg \cup {NoMsg}] /\ cur[w] \in Msg
        /\ wpc \in [Worker -> {"idle", "run", "send"}]
    BY Zenon DEF TypeOK, WorkType
  <1>2. PICK j \in Id : cur[w].id = j
    BY Zenon, <1>1, MsgOps
  <1>3. Has("handler", w, j)
    BY Zenon, <1>2 DEF Has
  <1>4. fate'[j] = {f} /\ \A i \in Id : i # j => fate'[i] = fate[i]
    <2>1. fate'[j] = {f}
      BY <1>2, <1>3, SettleOnce
    <2> QED  BY Zenon, <1>2, <2>1 DEF Settle
  <1>5. \A i : \A x \in Worker :
            (wpc'[x] # "idle" /\ cur'[x].id = i)
                <=> (x # w /\ wpc[x] # "idle" /\ cur[x].id = i)
    BY Zenon, <1>1, WorkerGives
  <1>6. \A i \in Id : i # j => Stays(i)
    BY Zenon, <1>2, <1>4, <1>5, StaysWhen
  <1>7. Moves(j, "handler", w, "fate", f)
    <2>1. Has("fate", f, j)'
      BY Zenon, <1>4 DEF Has
    <2>2. ASSUME NEW e, NEW z, Has(e, z, j)'
          PROVE  \/ e = "fate" /\ z = f
                 \/ Has(e, z, j) /\ ~ (e = "handler" /\ z = w)
      BY ZenonT(60), <1>4, <1>5, <2>2 DEF Has
    <2> QED  BY <1>3, <2>1, <2>2 DEF Moves
  <1> QED  BY Zenon, <1>6, <1>7, CopiesMove DEF CopyInv

\* A worker about to send its message back still has it.
LEMMA SendBackCopies ==
    ASSUME TypeOK, CopyInv, NEW w \in Worker, wpc[w] = "run", NEW m,
           SendBack(w, m), m.id = cur[w].id, delayed' = delayed, fate' = fate
    PROVE  CopyInv'
  <1>1. /\ cur \in [Worker -> Msg \cup {NoMsg}]
        /\ wpc \in [Worker -> {"idle", "run", "send"}]
    BY Zenon DEF TypeOK, WorkType
  <1>2. /\ cur' = [cur EXCEPT ![w] = m] /\ wpc' = [wpc EXCEPT ![w] = "send"]
        /\ UNCHANGED <<busVars, reclaimed, inbox, sent, fate, pc, held>>
    BY Zenon DEF SendBack, busVars, dispVars
  <1>3. \A i : \A x \in Worker : (wpc'[x] # "idle" /\ cur'[x].id = i)
                                   <=> (wpc[x] # "idle" /\ cur[x].id = i)
    BY Zenon, <1>1, <1>2
  <1> QED  BY Zenon, <1>2, <1>3, CopiesStay

\* A retry after a delay moves the message to the WAL.
LEMMA RetryCopies ==
    ASSUME TypeOK, CopyInv, NEW w \in Worker, wpc[w] = "run", NEW m \in Msg,
           m.id = cur[w].id, Finish(w), Schedule(m), fate' = fate
    PROVE  CopyInv'
  <1>1. /\ cur \in [Worker -> Msg \cup {NoMsg}]
        /\ wpc \in [Worker -> {"idle", "run", "send"}]
    BY Zenon DEF TypeOK, WorkType
  <1>2. /\ cur' = [cur EXCEPT ![w] = NoMsg] /\ wpc' = [wpc EXCEPT ![w] = "idle"]
        /\ UNCHANGED <<queue, orphans, firing, pc, held, reclaimed, inbox, sent,
                       fate>>
    BY Zenon DEF Finish, dispVars
  <1>3. PICK j \in Id : cur[w].id = j /\ m.id = j
    BY Zenon, MsgOps
  <1>4. Has("handler", w, j)
    BY Zenon, <1>3 DEF Has
  <1>5. /\ \A i : (\E d \in delayed' : d.id = i)
                     <=> (\E d \in delayed : d.id = i) \/ i = j
        /\ Keyed(delayed')
    <2>1. delayed' = {d \in delayed : d.id # j} \cup {m}
      BY Zenon, <1>3 DEF Schedule
    <2> QED  BY Zenon, <1>3, <2>1 DEF CopyInv, Keyed
  <1>6. \A i : \A x \in Worker :
            (wpc'[x] # "idle" /\ cur'[x].id = i)
                <=> (x # w /\ wpc[x] # "idle" /\ cur[x].id = i)
    BY Zenon, <1>1, <1>2, WorkerGives
  <1>7. \A i : i # j => Stays(i)
    BY Zenon, <1>2, <1>3, <1>5, <1>6, StaysWhen
  <1>8. Moves(j, "handler", w, "delayed", NoWorker)
    <2>1. Has("delayed", NoWorker, j)'
      BY Zenon, <1>5 DEF Has
    <2>2. ASSUME NEW e, NEW z, Has(e, z, j)'
          PROVE  \/ e = "delayed" /\ z = NoWorker
                 \/ Has(e, z, j) /\ ~ (e = "handler" /\ z = w)
      BY ZenonT(60), <1>2, <1>5, <1>6, <2>2 DEF Has
    <2> QED  BY <1>4, <2>1, <2>2 DEF Moves
  <1> QED  BY Zenon, <1>2, <1>5, <1>7, <1>8, CopiesMove DEF CopyInv

\* A message sent back moves to the queue.
LEMMA RequeueCopies ==
    ASSUME TypeOK, CopyInv, NEW w \in Worker, Requeue(w)
    PROVE  CopyInv'
  <1>1. /\ cur \in [Worker -> Msg \cup {NoMsg}] /\ cur[w] \in Msg
        /\ wpc \in [Worker -> {"idle", "run", "send"}]
    BY Zenon DEF TypeOK, WorkType, Requeue
  <1>2. /\ cur' = [cur EXCEPT ![w] = NoMsg] /\ wpc' = [wpc EXCEPT ![w] = "idle"]
        /\ wpc[w] # "idle" /\ queue' = Append(queue, cur[w])
        /\ UNCHANGED <<orphans, delayed, firing, pc, held, reclaimed, inbox, sent,
                       fate>>
    BY Zenon DEF Requeue, dispVars, histVars
  <1>3. PICK j \in Id : cur[w].id = j
    BY Zenon, <1>1, MsgOps
  <1>4. Has("handler", w, j)
    BY Zenon, <1>2, <1>3 DEF Has
  <1>5. /\ \A i : HasId(queue', i) <=> HasId(queue, i) \/ i = j
        /\ Distinct(queue')
    BY <1>1, <1>2, <1>3, <1>4, QueueTakes
  <1>6. \A i : \A x \in Worker :
            (wpc'[x] # "idle" /\ cur'[x].id = i)
                <=> (x # w /\ wpc[x] # "idle" /\ cur[x].id = i)
    BY Zenon, <1>1, <1>2, WorkerGives
  <1>7. \A i : i # j => Stays(i)
    BY Zenon, <1>2, <1>3, <1>5, <1>6, StaysWhen
  <1>8. Moves(j, "handler", w, "queue", NoWorker)
    <2>1. Has("queue", NoWorker, j)'
      BY Zenon, <1>5 DEF Has
    <2>2. ASSUME NEW e, NEW z, Has(e, z, j)'
          PROVE  \/ e = "queue" /\ z = NoWorker
                 \/ Has(e, z, j) /\ ~ (e = "handler" /\ z = w)
      BY Zenon, <1>2, <1>5, <1>6, <2>2 DEF Has
    <2> QED  BY <1>4, <2>1, <2>2 DEF Moves
  <1> QED  BY Zenon, <1>2, <1>5, <1>7, <1>8, CopiesMove DEF CopyInv

\* Whatever the handler returns, its message ends, is scheduled or is kept.
LEMMA WorkerCopies ==
    ASSUME TypeOK, CopyInv, Calm, Calm', NEW w \in Worker, WorkerLoop(w)
    PROVE  CopyInv'
  <1>1. ~ Fault
    BY DEF Fault, Calm
  <1>2. wpc[w] # "idle" => cur[w] \in Msg
    BY Zenon DEF TypeOK, WorkType
  <1>3. ASSUME wpc[w] = "run", Finish(w), NEW f \in Fate,
               Settle({cur[w].id}, f), delayed' = delayed
        PROVE  CopyInv'
    <2>1. /\ cur' = [cur EXCEPT ![w] = NoMsg] /\ wpc' = [wpc EXCEPT ![w] = "idle"]
          /\ UNCHANGED <<queue, orphans, delayed, firing, pc, held, reclaimed,
                         inbox, sent>>
          /\ wpc[w] # "idle"
      BY Zenon, <1>3 DEF Finish, dispVars
    <2> QED  BY Zenon, <1>3, <2>1, EndCopies
  <1>4. CASE HandlerAck(w)
    <2>1. /\ wpc[w] = "run" /\ Consumed(cur[w]).id = cur[w].id
          /\ delayed' = delayed
      BY Zenon, <1>2, <1>4, MsgOps DEF HandlerAck
    <2>2. \/ SendBack(w, Consumed(cur[w])) /\ fate' = fate
          \/ Finish(w) /\ Settle({cur[w].id}, "done")
      BY Zenon, <1>4, <2>1 DEF HandlerAck
    <2>3. "done" \in Fate
      BY DEF Fate
    <2> QED  BY Zenon, <1>3, <2>1, <2>2, <2>3, SendBackCopies
  <1>5. ASSUME NEW r \in RetryLimits, NEW later \in BOOLEAN,
               HandlerNoAck(w, r, later)
        PROVE  CopyInv'
    <2>1. /\ wpc[w] = "run" /\ Attempted(cur[w]).id = cur[w].id
          /\ Attempted(cur[w]) \in Msg
      BY Zenon, <1>2, <1>5, MsgOps DEF HandlerNoAck
    <2>2. \/ Finish(w) /\ Settle({cur[w].id}, "exhausted") /\ delayed' = delayed
          \/ Finish(w) /\ Schedule(Attempted(cur[w])) /\ fate' = fate
          \/ SendBack(w, Attempted(cur[w])) /\ UNCHANGED <<delayed, fate>>
      BY Zenon, <1>5, <2>1 DEF HandlerNoAck
    <2>3. "exhausted" \in Fate
      BY DEF Fate
    <2> QED
      BY Zenon, <1>3, <2>1, <2>2, <2>3, SendBackCopies, RetryCopies
  <1>6. CASE HandlerDead(w)
    <2>1. "dead" \in Fate
      BY DEF Fate
    <2> QED  BY Zenon, <1>3, <1>6, <2>1 DEF HandlerDead
  <1>7. ~ ProcessFails(w) /\ ~ RequeueFails(w)
    BY Zenon, <1>1 DEF ProcessFails, RequeueFails
  <1> QED  BY Zenon, <1>4, <1>5, <1>6, <1>7, ReceiveCopies, RequeueCopies
           DEF WorkerLoop, Handle

\* Creating a worker moves no message; deleting one ends those it had.
LEMMA AdministerCopies ==
    ASSUME TypeOK, CopyInv, NEW w \in Worker, Administer(w)
    PROVE  CopyInv'
  <1>1. pc \in [Node -> DispatcherPC] /\ "lost" \in Fate
    BY DEF TypeOK, DispType, Fate
  <1>2. CASE \/ CreateWorker(w) \/ RegisterWorker(w) \/ DelWorker(w)
             \/ DelInbox(w) \/ DelNames(w)
    <2>1. UNCHANGED <<busVars, held, reclaimed, inbox, cur, wpc, sent, fate>>
      BY Zenon, <1>2 DEF CreateWorker, RegisterWorker, DelWorker, DelInbox,
         DelNames, dispVars, workVars, histVars
    <2>2. \A x \in Node : \/ pc'[x] = pc[x]
                          \/ pc[x] = "off" /\ pc'[x] = "claim"
      BY Zenon, <1>1, <1>2
         DEF CreateWorker, RegisterWorker, DelWorker, DelInbox,
         DelNames, dispVars
    <2>3. "off" \notin Holding /\ "claim" \notin Holding
      BY DEF Holding
    <2>4. \A i : \A x \in Node : (pc'[x] \in Holding /\ held'[x].id = i)
                                   <=> (pc[x] \in Holding /\ held[x].id = i)
      BY Zenon, <2>1, <2>2, <2>3
    <2> QED  BY Zenon, <2>1, <2>4, CopiesStay
  <1>3. CASE CancelTask(w)
    <2>1. /\ cur' = [cur EXCEPT ![w] = NoMsg] /\ wpc' = [wpc EXCEPT ![w] = "idle"]
          /\ Settle(IF wpc[w] = "idle" THEN {} ELSE {cur[w].id}, "lost")
          /\ UNCHANGED <<queue, orphans, delayed, firing, pc, held, reclaimed,
                         inbox, sent>>
      BY Zenon, <1>3 DEF CancelTask, busVars, dispVars
    <2>2. CASE wpc[w] = "idle"
      <3>1. fate' = fate
        BY Zenon, <2>1, <2>2 DEF Settle, TypeOK, HistType
      <3>2. cur' = cur /\ wpc' = wpc
        BY Zenon, <2>1, <2>2 DEF TypeOK, WorkType
      <3> QED  BY Zenon, <2>1, <3>1, <3>2, CopiesStay DEF busVars
    <2>3. CASE wpc[w] # "idle"
      BY Zenon, <1>1, <2>1, <2>3, EndCopies
    <2> QED  BY Zenon, <2>2, <2>3
  <1>4. CASE CloseInbox(w)
    <2>1. /\ inbox \in [Worker -> Seq(Msg)]
          /\ inbox' = [inbox EXCEPT ![w] = <<>>] /\ Settle(Ids(inbox[w]), "lost")
          /\ UNCHANGED <<queue, orphans, delayed, firing, pc, held, reclaimed,
                         cur, wpc, sent>>
      BY Zenon, <1>4 DEF CloseInbox, busVars, dispVars, TypeOK, WorkType
    <2>2. /\ \A x \in Worker : Distinct(inbox'[x])
          /\ \A i : \A x \in Worker :
                 HasId(inbox'[x], i) <=> x # w /\ HasId(inbox[x], i)
      BY Zenon, <2>1, NoCopy DEF CopyInv
    <2>3. \A i : i \in Ids(inbox[w]) <=> HasId(inbox[w], i)
      BY Zenon DEF Ids, HasId
    <2>4. ASSUME NEW j \in Id, HasId(inbox[w], j)
          PROVE  Moves(j, "inbox", w, "fate", "lost")
      <3>1. Has("inbox", w, j)
        BY Zenon, <2>4 DEF Has
      <3>2. fate'[j] = {"lost"}
        BY <1>1, <2>1, <2>3, <2>4, <3>1, SettleOnce
      <3>3. Has("fate", "lost", j)'
        BY Zenon, <3>2 DEF Has
      <3>4. ASSUME NEW e, NEW z, Has(e, z, j)'
            PROVE  \/ e = "fate" /\ z = "lost"
                   \/ Has(e, z, j) /\ ~ (e = "inbox" /\ z = w)
        BY Zenon, <2>1, <2>2, <3>2, <3>4 DEF Has
      <3> QED  BY <3>1, <3>3, <3>4 DEF Moves
    <2>5. ASSUME NEW j \in Id, ~ HasId(inbox[w], j)
          PROVE  Stays(j)
      <3>1. fate'[j] = fate[j]
        BY Zenon, <2>1, <2>3, <2>5 DEF Settle
      <3> QED  BY Zenon, <2>1, <2>2, <2>5, <3>1, StaysWhen
    <2> QED  BY Zenon, <2>1, <2>2, <2>4, <2>5, CopiesMove DEF CopyInv
  <1> QED  BY Zenon, <1>2, <1>3, <1>4 DEF Administer

\* Nothing is anywhere before the first message is sent.
LEMMA InitCopies == Init => CopyInv
  <1> SUFFICES ASSUME Init PROVE CopyInv
    OBVIOUS
  <1>1. /\ queue = <<>> /\ orphans = <<>> /\ delayed = {} /\ firing = {}
        /\ \A x \in Node : pc[x] = "off" /\ reclaimed[x] = <<>>
        /\ \A x \in Worker : inbox[x] = <<>> /\ wpc[x] = "idle"
        /\ sent = {} /\ \A i \in Id : fate[i] = {}
    BY Zenon DEF Init
  <1>2. "off" \notin Holding
    BY DEF Holding
  <1>3. ASSUME NEW i \in Id
        PROVE  Sole(i)
    <2>1. Has("unsent", NoWorker, i)
      BY Zenon, <1>1 DEF Has
    <2>2. \A d, y : Has(d, y, i) => d = "unsent" /\ y = NoWorker
      BY Zenon, <1>1, <1>2, NoCopy DEF Has
    <2> QED  BY <2>1, <2>2 DEF Sole
  <1> QED  BY Zenon, <1>1, <1>3, NoCopy DEF CopyInv, Keyed

-----------------------------------------------------------------------------
(* The invariant *)

\* Crashes and failed calls are only ever added to.
LEMMA CalmBefore ==
    ASSUME TypeOK, [Next]_vars, Calm'
    PROVE  Calm /\ \A n \in Node : ~ Crash(n)
  <1>1. /\ faults' = faults \/ Fault
        /\ crashes' = crashes \/ \E n \in Node : Crash(n)
    <2>1. CASE \E i \in Id, t \in Targets : Send(i, t) \/ SendDelayed(i, t)
      BY Zenon, <2>1 DEF Send, SendDelayed
    <2>2. CASE Scheduler
      BY Zenon, <2>2 DEF Scheduler, FetchReady, FireDelayed
    <2>3. ASSUME NEW n \in Node, Dispatcher(n)
          PROVE  crashes' = crashes /\ (faults' = faults \/ Fault)
      <3>1. CASE \/ ClaimStale(n) \/ Claim(n) \/ LoadGeneration(n)
                 \/ ReadNames(n) \/ FilterInboxes(n) \/ Nack(n) \/ RelayMiss(n)
        BY Zenon, <3>1 DEF ClaimStale, Claim, LoadGeneration, ReadNames,
           FilterInboxes, Nack, RelayMiss
      <3>2. CASE \/ \E w \in Worker : Deliver(n, w) \/ Refused(n, w)
                 \/ DropMiss(n) \/ Relay(n) \/ NackFails(n) \/ Ack(n)
        BY Zenon, <3>2 DEF Deliver, Refused, DropMiss, Relay, NackFails, Ack,
           NextClaim
      <3> QED  BY Zenon, <2>3, <3>1, <3>2 DEF Dispatcher
    <2>4. ASSUME NEW n \in Node, Crash(n)
          PROVE  faults' = faults
      BY Zenon, <2>4 DEF Crash
    <2>5. ASSUME NEW w \in Worker, WorkerLoop(w)
          PROVE  crashes' = crashes /\ (faults' = faults \/ Fault)
      <3>1. CASE HandlerAck(w) \/ HandlerDead(w) \/ ProcessFails(w)
        BY Zenon, <3>1 DEF HandlerAck, HandlerDead, ProcessFails, Finish,
           SendBack
      <3>2. CASE \E r \in RetryLimits, later \in BOOLEAN :
                    HandlerNoAck(w, r, later)
        BY Zenon, <3>2 DEF HandlerNoAck, Finish, SendBack
      <3>3. CASE Receive(w) \/ Requeue(w) \/ RequeueFails(w)
        BY Zenon, <3>3 DEF Receive, Requeue, RequeueFails, Finish
      <3> QED  BY Zenon, <2>5, <3>1, <3>2, <3>3 DEF WorkerLoop, Handle
    <2>6. \A w \in Worker : Administer(w) => UNCHANGED <<crashes, faults>>
      BY Zenon DEF Administer, CreateWorker, RegisterWorker, DelWorker,
         DelInbox, DelNames, CancelTask, CloseInbox
    <2>7. UNCHANGED vars => UNCHANGED <<crashes, faults>>
      BY Zenon DEF vars
    <2> QED  BY Zenon, <2>1, <2>2, <2>3, <2>4, <2>5, <2>6, <2>7 DEF Next
  <1>2. \A n \in Node : ~ Crash(n)
    <2>1. \A n \in Node : Crash(n) => crashes' = crashes + 1
      BY Zenon DEF Crash
    <2> QED  BY <2>1 DEF Calm, TypeOK, HistType
  <1>3. ~ Fault
    BY DEF Fault, Calm, TypeOK, HistType
  <1> QED  BY Zenon, <1>1, <1>2, <1>3 DEF Calm

\* As long as nothing has failed, every step keeps every message in one place.
LEMMA CalmStep ==
    ASSUME TypeOK, Calm => CopyInv, [Next]_vars, Calm'
    PROVE  CopyInv'
  <1>1. Calm /\ CopyInv /\ \A n \in Node : ~ Crash(n)
    BY Zenon, CalmBefore
  <1>2. CASE \E i \in Id, t \in Targets : Send(i, t) \/ SendDelayed(i, t)
    BY Zenon, <1>1, <1>2, SendCopies
  <1>3. CASE Scheduler
    BY Zenon, <1>1, <1>3, SchedulerCopies
  <1>4. CASE \E n \in Node : Dispatcher(n) \/ Crash(n)
    BY Zenon, <1>1, <1>4, DispatcherCopies
  <1>5. CASE \E w \in Worker : WorkerLoop(w) \/ Administer(w)
    BY Zenon, <1>1, <1>5, WorkerCopies, AdministerCopies
  <1>6. CASE UNCHANGED vars
    <2>1. UNCHANGED <<busVars, pc, held, reclaimed, inbox, cur, wpc, sent, fate>>
      BY Zenon, <1>6 DEF vars, dispVars, workVars, histVars
    <2> QED  BY Zenon, <1>1, <2>1, CopiesStay
  <1> QED  BY Zenon, <1>2, <1>3, <1>4, <1>5, <1>6 DEF Next

\* Until a node crashes or a backend call fails, every message is in exactly
\* one place: unsent, on the queue, in the WAL, with one dispatcher or one
\* worker, or at one end.
LEMMA CopyInvariant == Spec => [](Calm => CopyInv)
  <1>1. Init => (Calm => CopyInv)
    BY Zenon, InitCopies
  <1>2. TypeOK /\ (Calm => CopyInv) /\ [Next]_vars => (Calm => CopyInv)'
    BY Zenon, CalmStep
  <1> QED  BY <1>1, <1>2, TypeCorrect, PTL DEF Spec

\* The places of a sequence without two copies of i.
LEMMA AtSeq ==
    ASSUME NEW p, NEW s, NEW i
    PROVE  /\ ~ HasId(s, i) => At(p, s, i) = {}
           /\ HasId(s, i) /\ Distinct(s) => \E k : At(p, s, i) = {k}
  <1>1. ~ HasId(s, i) => At(p, s, i) = {}
    BY Zenon DEF At, HasId
  <1>2. ASSUME HasId(s, i), Distinct(s)
        PROVE  \E k : At(p, s, i) = {k}
    <2>1. PICK k \in DOMAIN s : s[k].id = i
      BY Zenon, <1>2 DEF HasId
    <2>2. {j \in DOMAIN s : s[j].id = i} = {k}
      BY Zenon, <1>2, <2>1 DEF Distinct
    <2>3. At(p, s, i) = {<<p, j>> : j \in {k}}
      BY Zenon, <2>2 DEF At
    <2>4. {<<p, j>> : j \in {k}} = {<<p, k>>}
      BY Zenon
    <2> QED  BY Zenon, <2>3, <2>4
  <1> QED  BY Zenon, <1>1, <1>2

\* What is in one place only.
LEMMA OnePlace ==
    ASSUME CopyInv, NEW i \in Id
    PROVE  /\ \A x : Has("fate", x, i) => fate[i] = {x} /\ Places(i) = {}
           /\ \/ Has("unsent", NoWorker, i)
              \/ \E x : Has("fate", x, i)
              \/ fate[i] = {} /\ \E p : Places(i) = {p}
  <1> DEFINE Q == At("queue", queue, i)
             D == {<<"delayed", m>> : m \in {d \in delayed : d.id = i}}
             F == {<<"firing", m>> : m \in {d \in firing : d.id = i}}
             N == {<<n, 0>> :
                      n \in {d \in Node : pc[d] \in Holding /\ held[d].id = i}}
             I == UNION {At(w, inbox[w], i) : w \in Worker}
             W == {<<w, 0>> :
                      w \in {d \in Worker : wpc[d] # "idle" /\ cur[d].id = i}}
  <1>1. Places(i) = Q \cup D \cup F \cup N \cup I \cup W
    <2>1. At("orphans", orphans, i) = {}
      BY Zenon, AtSeq, NoCopy DEF CopyInv
    <2>2. \A n \in Node : At(n, reclaimed[n], i) = {}
      BY Zenon, AtSeq, NoCopy DEF CopyInv
    <2>3. UNION {At(n, reclaimed[n], i) : n \in Node} = {}
      BY Zenon, <2>2
    <2> QED  BY Zenon, <2>1, <2>3 DEF Places
  <1>2. /\ Q # {} => Has("queue", NoWorker, i)
        /\ Has("queue", NoWorker, i) => \E p : Q = {p}
    BY Zenon, AtSeq DEF CopyInv, Has
  <1>3. /\ D # {} => Has("delayed", NoWorker, i)
        /\ Has("delayed", NoWorker, i) => \E p : D = {p}
    <2>1. D # {} => Has("delayed", NoWorker, i)
      BY Zenon DEF Has
    <2>2. ASSUME Has("delayed", NoWorker, i)
          PROVE  \E p : D = {p}
      <3>1. PICK m \in delayed : m.id = i
        BY Zenon, <2>2 DEF Has
      <3>2. {d \in delayed : d.id = i} = {m}
        BY Zenon, <3>1 DEF CopyInv, Keyed
      <3>3. D = {<<"delayed", m>>}
        BY Zenon, <3>2
      <3> QED  BY Zenon, <3>3
    <2> QED  BY Zenon, <2>1, <2>2
  <1>4. /\ F # {} => Has("firing", NoWorker, i)
        /\ Has("firing", NoWorker, i) => \E p : F = {p}
    <2>1. F # {} => Has("firing", NoWorker, i)
      BY Zenon DEF Has
    <2>2. ASSUME Has("firing", NoWorker, i)
          PROVE  \E p : F = {p}
      <3>1. PICK m \in firing : m.id = i
        BY Zenon, <2>2 DEF Has
      <3>2. {d \in firing : d.id = i} = {m}
        BY Zenon, <3>1 DEF CopyInv, Keyed
      <3>3. F = {<<"firing", m>>}
        BY Zenon, <3>2
      <3> QED  BY Zenon, <3>3
    <2> QED  BY Zenon, <2>1, <2>2
  <1>5. /\ N # {} => \E x : Has("dispatcher", x, i)
        /\ \A x : Has("dispatcher", x, i) => \E p : N = {p}
    <2>1. N # {} => \E x : Has("dispatcher", x, i)
      BY Zenon DEF Has
    <2>2. ASSUME NEW x, Has("dispatcher", x, i)
          PROVE  \E p : N = {p}
      <3>1. \A d : Has("dispatcher", d, i) => d = x
        BY <2>2, SoleElse DEF CopyInv
      <3>2. {d \in Node : pc[d] \in Holding /\ held[d].id = i} = {x}
        BY Zenon, <2>2, <3>1 DEF Has
      <3>3. N = {<<x, 0>>}
        BY Zenon, <3>2
      <3> QED  BY Zenon, <3>3
    <2> QED  BY Zenon, <2>1, <2>2
  <1>6. /\ W # {} => \E x : Has("handler", x, i)
        /\ \A x : Has("handler", x, i) => \E p : W = {p}
    <2>1. W # {} => \E x : Has("handler", x, i)
      BY Zenon DEF Has
    <2>2. ASSUME NEW x, Has("handler", x, i)
          PROVE  \E p : W = {p}
      <3>1. \A d : Has("handler", d, i) => d = x
        BY <2>2, SoleElse DEF CopyInv
      <3>2. {d \in Worker : wpc[d] # "idle" /\ cur[d].id = i} = {x}
        BY Zenon, <2>2, <3>1 DEF Has
      <3>3. W = {<<x, 0>>}
        BY Zenon, <3>2
      <3> QED  BY Zenon, <3>3
    <2> QED  BY Zenon, <2>1, <2>2
  <1>7. /\ I # {} => \E x : Has("inbox", x, i)
        /\ \A x : Has("inbox", x, i) => \E p : I = {p}
    <2>1. I # {} => \E x : Has("inbox", x, i)
      <3>1. \A w \in Worker : At(w, inbox[w], i) # {} => Has("inbox", w, i)
        BY Zenon, AtSeq DEF Has
      <3> QED  BY Zenon, <3>1
    <2>2. ASSUME NEW x, Has("inbox", x, i)
          PROVE  \E p : I = {p}
      <3>1. \A d : Has("inbox", d, i) => d = x
        BY <2>2, SoleElse DEF CopyInv
      <3>2. x \in Worker /\ HasId(inbox[x], i)
        BY Zenon, <2>2 DEF Has
      <3>3. \A w \in Worker : w # x => At(w, inbox[w], i) = {}
        BY Zenon, <3>1, AtSeq DEF Has
      <3>4. PICK p : At(x, inbox[x], i) = {p}
        BY Zenon, <3>2, AtSeq DEF CopyInv
      <3>5. I = {p}
        BY Zenon, <3>2, <3>3, <3>4
      <3> QED  BY Zenon, <3>5
    <2> QED  BY Zenon, <2>1, <2>2
  <1>8. \A y : y \in fate[i] <=> Has("fate", y, i)
    BY Zenon DEF Has
  <1> HIDE DEF Q, D, F, N, I, W
  <1>9. PICK c, x : \A d, y : Has(d, y, i) <=> d = c /\ y = x
    BY Zenon DEF CopyInv, Sole
  <1>10. Has(c, x, i)
    BY <1>9
  <1>11. ASSUME c = "fate"
         PROVE  fate[i] = {x} /\ Places(i) = {}
    <2>1. fate[i] = {x}
      <3>1. \A y : y \in fate[i] <=> y = x
        BY <1>8, <1>9, <1>11
      <3> QED  BY Zenon, <3>1
    <2>2. Q = {} /\ D = {} /\ F = {} /\ N = {} /\ I = {} /\ W = {}
      BY <1>2, <1>3, <1>4, <1>5, <1>6, <1>7, <1>9, <1>11
    <2> QED  BY Zenon, <1>1, <2>1, <2>2
  <1>12. ASSUME c # "fate", c # "unsent"
         PROVE  fate[i] = {} /\ \E p : Places(i) = {p}
    <2>1. fate[i] = {}
      <3>1. \A y : y \notin fate[i]
        BY <1>8, <1>9, <1>12
      <3> QED  BY Zenon, <3>1
    <2>2. /\ c # "queue" => Q = {}
          /\ c # "delayed" => D = {}
          /\ c # "firing" => F = {}
          /\ c # "dispatcher" => N = {}
          /\ c # "inbox" => I = {}
          /\ c # "handler" => W = {}
      BY <1>2, <1>3, <1>4, <1>5, <1>6, <1>7, <1>9
    <2>3. \/ c = "queue" /\ \E p : Q = {p}
          \/ c = "delayed" /\ \E p : D = {p}
          \/ c = "firing" /\ \E p : F = {p}
          \/ c = "dispatcher" /\ \E p : N = {p}
          \/ c = "inbox" /\ \E p : I = {p}
          \/ c = "handler" /\ \E p : W = {p}
      <3>1. /\ c \in {"queue", "delayed", "firing"} => x = NoWorker
            /\ c \in {"queue", "delayed", "firing", "dispatcher", "inbox",
                      "handler"}
        BY <1>10, <1>12 DEF Has
      <3> QED  BY Zenon, <1>2, <1>3, <1>4, <1>5, <1>6, <1>7, <1>10, <3>1
    <2>4. \E p : Places(i) = {p}
      BY Zenon, <1>1, <2>2, <2>3
    <2> QED  BY <2>1, <2>4
  <1> QED  BY <1>9, <1>10, <1>11, <1>12 DEF Has

\* Until a node crashes or a backend call fails, a message has one copy until
\* it settles, and one fate and no copy from then on.
THEOREM NeverDuplicated == Spec => []OneCopy
  <1>1. TypeOK /\ (Calm => CopyInv) => OneCopy
    <2> SUFFICES ASSUME TypeOK, CopyInv, NEW i \in sent
                 PROVE  \/ Singleton(Places(i)) /\ fate[i] = {}
                        \/ Places(i) = {} /\ Singleton(fate[i])
      BY Zenon DEF OneCopy
    <2>1. i \in Id /\ ~ Has("unsent", NoWorker, i)
      BY Zenon DEF TypeOK, HistType, Has
    <2>2. \/ Places(i) = {} /\ \E x : fate[i] = {x}
          \/ fate[i] = {} /\ \E p : Places(i) = {p}
      BY Zenon, <2>1, OnePlace
    <2> QED  BY Zenon, <2>2 DEF Singleton
  <1> QED  BY <1>1, CopyInvariant, TypeCorrect, PTL DEF Spec

-----------------------------------------------------------------------------
(***************************************************************************)
(* A message is handled as often as it asks for.                           *)
(***************************************************************************)

InSeq(s, m) == \E k \in DOMAIN s : s[k] = m

\* m is a copy that is still to be handled.
Live(m) ==
    \/ InSeq(queue, m)
    \/ m \in delayed \/ m \in firing
    \/ \E n \in Node : pc[n] \in Holding /\ held[n] = m
    \/ \E w \in Worker : InSeq(inbox[w], m)
    \/ \E w \in Worker : wpc[w] # "idle" /\ cur[w] = m

\* A copy carries the number of its successful runs, which are not yet enough.
Counted(m) == m.consumed = acks[m.id] /\ acks[m.id] < Need[m.id]

CountInv ==
    /\ \A m : Live(m) => Counted(m)
    /\ \A i \in Id : i \notin sent => acks[i] = 0
    /\ \A i \in Id : "done" \in fate[i] => acks[i] = Need[i]

\* m0 is a copy m comes from: the same message after as many runs.
From(m0, m) == Live(m0) /\ m0.id = m.id /\ m0.consumed = m.consumed
Derived(m) == \E m0 : From(m0, m)

\* Only a successful run counts; a message asks for at least one.
LEMMA CountOps ==
    /\ \A m \in Msg :
          /\ Attempted(m).consumed = m.consumed
          /\ \A w \in Worker : Stamped(m, w).consumed = m.consumed
          /\ Consumed(m).consumed = (m.consumed + 1) % CountMod
    /\ \A i, t : NewMsg(i, t).consumed = 0
    /\ \A i \in Id : Need[i] \in Nat /\ 0 < Need[i]
  <1>1. \A m \in Msg :
          /\ Attempted(m).consumed = m.consumed
          /\ \A w \in Worker : Stamped(m, w).consumed = m.consumed
          /\ Consumed(m).consumed = (m.consumed + 1) % CountMod
    BY DEF Msg, Attempted, Stamped, Consumed
  <1>2. \A i, t : NewMsg(i, t).consumed = 0
    BY DEF NewMsg
  <1>3. \A i \in Id : Need[i] \in Nat /\ 0 < Need[i]
    BY ConstantsAssumption DEF Need
  <1> QED  BY Zenon, <1>1, <1>2, <1>3

\* The entries of a queue or an inbox after an operation on it.
LEMMA SeqEntries ==
    ASSUME NEW s \in Seq(Msg)
    PROVE  /\ \A m : InSeq(s, m) => m \in Msg
           /\ \A a \in Msg : \A m : InSeq(Append(s, a), m) => InSeq(s, m) \/ m = a
           /\ s # <<>> => /\ InSeq(s, Head(s))
                          /\ \A m : InSeq(Tail(s), m) => InSeq(s, m)
           /\ \A m : ~ InSeq(<<>>, m)
  <1>1. \A m : InSeq(s, m) => m \in Msg
    BY DEF InSeq
  <1>2. ASSUME NEW a \in Msg, NEW m, InSeq(Append(s, a), m)
        PROVE  InSeq(s, m) \/ m = a
    <2>1. /\ DOMAIN Append(s, a) = DOMAIN s \cup {Len(s) + 1}
          /\ \A k \in DOMAIN s : Append(s, a)[k] = s[k]
          /\ Append(s, a)[Len(s) + 1] = a
      OBVIOUS
    <2> QED  BY Zenon, <1>2, <2>1 DEF InSeq
  <1>3. ASSUME s # <<>>
        PROVE  InSeq(s, Head(s)) /\ \A m : InSeq(Tail(s), m) => InSeq(s, m)
    <2>1. /\ 1 \in DOMAIN s /\ Head(s) = s[1]
          /\ \A k \in DOMAIN Tail(s) : /\ k + 1 \in DOMAIN s
                                       /\ Tail(s)[k] = s[k + 1]
      BY <1>3
    <2> QED  BY Zenon, <2>1 DEF InSeq
  <1>4. \A m : ~ InSeq(<<>>, m)
    BY DEF InSeq
  <1> QED  BY Zenon, <1>1, <1>2, <1>3, <1>4

\* Every live copy is a message.
LEMMA LiveType ==
    ASSUME TypeOK, NEW m, Live(m)
    PROVE  m \in Msg
  <1>1. /\ InSeq(queue, m) => m \in Msg
        /\ \A w \in Worker : InSeq(inbox[w], m) => m \in Msg
    <2>1. queue \in Seq(Msg) /\ \A w \in Worker : inbox[w] \in Seq(Msg)
      BY Zenon DEF TypeOK, BusType, WorkType
    <2> QED  BY Zenon, <2>1, SeqEntries
  <1>2. /\ \A n \in Node : pc[n] \in Holding => held[n] \in Msg
        /\ \A w \in Worker : wpc[w] # "idle" => cur[w] \in Msg
    <2>1. "off" \notin Holding /\ "claim" \notin Holding
      BY DEF Holding
    <2> QED  BY Zenon, <2>1 DEF TypeOK, DispType, WorkType
  <1>3. delayed \subseteq Msg /\ firing \subseteq Msg
    BY Zenon DEF TypeOK, BusType
  <1> QED  BY Zenon, <1>1, <1>2, <1>3 DEF Live

\* A step whose copies come from copies, and that completes no message.
LEMMA CountKept ==
    ASSUME CountInv, acks' = acks, sent \subseteq sent',
           \A m : Live(m)' => Derived(m),
           \A i \in Id : "done" \in fate'[i] => "done" \in fate[i]
    PROVE  CountInv'
  <1>1. ASSUME NEW m, Live(m)'
        PROVE  Counted(m)'
    <2>1. PICK m0 : Live(m0) /\ m0.id = m.id /\ m0.consumed = m.consumed
      BY Zenon, <1>1 DEF Derived, From
    <2> QED  BY Zenon, <2>1 DEF Counted, CountInv
  <1> QED  BY Zenon, <1>1 DEF CountInv

\* Sending adds a message that has not run yet.
LEMMA SendCounts ==
    ASSUME TypeOK, CountInv, NEW j \in Id, NEW t \in Targets,
           Send(j, t) \/ SendDelayed(j, t)
    PROVE  CountInv'
  <1>1. /\ NewMsg(j, t) \in Msg /\ NewMsg(j, t).id = j
        /\ NewMsg(j, t).consumed = 0 /\ acks[j] = 0 /\ 0 < Need[j]
    <2>1. acks[j] = 0
      BY Zenon DEF Send, SendDelayed, CountInv
    <2>2. NewMsg(j, t).consumed = 0 /\ 0 < Need[j]
      BY Zenon, CountOps
    <2> QED  BY Zenon, <2>1, <2>2, NewMsgType
  <1>2. /\ UNCHANGED <<firing, pc, held, inbox, cur, wpc, fate, acks>>
        /\ sent' = sent \cup {j}
    BY Zenon DEF Send, SendDelayed, dispVars, workVars
  <1>3. ASSUME NEW m, Live(m)'
        PROVE  Live(m) \/ m = NewMsg(j, t)
    <2>1. CASE Send(j, t)
      <3>1. \A a : InSeq(queue', a) => InSeq(queue, a) \/ a = NewMsg(j, t)
        BY Zenon, <1>1, <2>1, SeqEntries DEF Send, TypeOK, BusType
      <3>2. delayed' = delayed
        BY Zenon, <2>1 DEF Send
      <3> QED  BY Zenon, <1>2, <1>3, <3>1, <3>2 DEF Live
    <2>2. CASE SendDelayed(j, t)
      <3>1. queue' = queue /\ \A a \in delayed' : a \in delayed \/ a = NewMsg(j, t)
        BY Zenon, <2>2 DEF SendDelayed, Schedule
      <3> QED  BY Zenon, <1>2, <1>3, <3>1 DEF Live
    <2> QED  BY Zenon, <2>1, <2>2
  <1>4. \A m : Live(m)' => Counted(m)'
    BY Zenon, <1>1, <1>2, <1>3 DEF CountInv, Counted
  <1> QED  BY Zenon, <1>2, <1>4 DEF CountInv

\* The delay scheduler passes copies on.
LEMMA SchedulerCounts ==
    ASSUME TypeOK, CountInv, Calm, Calm', Scheduler
    PROVE  CountInv'
  <1>1. CASE FetchReady
    <2>1. /\ delayed' \subseteq delayed /\ firing' \subseteq delayed
          /\ UNCHANGED <<queue, pc, held, inbox, cur, wpc, sent, acks, fate>>
      BY Zenon, <1>1 DEF FetchReady, dispVars, workVars, histVars
    <2>2. \A m : Live(m)' => Derived(m)
      BY Zenon, <2>1 DEF Live, Derived, From
    <2> QED  BY Zenon, <2>1, <2>2, CountKept
  <1>2. ASSUME NEW a \in firing, FireDelayed(a)
        PROVE  CountInv'
    <2>1. /\ firing' \subseteq firing /\ queue' = Append(queue, a)
          /\ UNCHANGED <<delayed, pc, held, inbox, cur, wpc, sent, acks, fate>>
      <3>1. ~ Fault
        BY DEF Fault, Calm
      <3> QED  BY Zenon, <1>2, <3>1 DEF FireDelayed, dispVars, workVars
    <2>2. \A m : InSeq(queue', m) => InSeq(queue, m) \/ m \in firing
      BY Zenon, <2>1, SeqEntries DEF TypeOK, BusType
    <2>3. \A m : Live(m)' => Derived(m)
      BY Zenon, <2>1, <2>2 DEF Live, Derived, From
    <2> QED  BY Zenon, <2>1, <2>3, CountKept
  <1> QED  BY Zenon, <1>1, <1>2 DEF Scheduler

\* The dispatcher passes copies on.
LEMMA DispatcherCounts ==
    ASSUME TypeOK, CopyInv, CountInv, Calm, Calm', NEW n \in Node, Dispatcher(n)
    PROVE  CountInv'
  <1>1. ~ Fault
    BY DEF Fault, Calm
  <1>2. /\ pc \in [Node -> DispatcherPC] /\ held \in [Node -> Msg \cup {NoMsg}]
        /\ pc[n] \notin {"off", "claim"} => held[n] \in Msg
        /\ queue \in Seq(Msg) /\ inbox \in [Worker -> Seq(Msg)]
    BY Zenon DEF TypeOK, DispType, BusType, WorkType
  <1>3. CASE Claim(n)
    <2>1. /\ queue # <<>> /\ queue' = Tail(queue)
          /\ held' = [held EXCEPT ![n] = Head(queue)]
          /\ pc' = [pc EXCEPT ![n] = "load"]
          /\ UNCHANGED <<delayed, firing, inbox, cur, wpc, sent, acks, fate>>
      BY Zenon, <1>3 DEF Claim, CopyInv, workVars, histVars
    <2>2. \A m : InSeq(queue', m) \/ m = Head(queue) => InSeq(queue, m)
      BY Zenon, <1>2, <2>1, SeqEntries
    <2>3. \A m : Live(m)' => Derived(m)
      BY Zenon, <1>2, <2>1, <2>2 DEF Live, Derived, From
    <2> QED  BY Zenon, <2>1, <2>3, CountKept
  <1>4. CASE \/ LoadGeneration(n) \/ ReadNames(n) \/ FilterInboxes(n)
             \/ (\E w \in Worker : Refused(n, w)) \/ DropMiss(n)
    <2>1. /\ held' = held /\ \A x \in Node \ {n} : pc'[x] = pc[x]
          /\ UNCHANGED <<queue, delayed, firing, inbox, cur, wpc, sent, acks>>
      BY Zenon, <1>2, <1>4
         DEF LoadGeneration, ReadNames, FilterInboxes, Refused,
         DropMiss, busVars, workVars, histVars
    <2>2. pc[n] \in Holding
      BY <1>4 DEF LoadGeneration, ReadNames, FilterInboxes, Refused, DropMiss,
         Holding
    <2>3. \A i \in Id : "done" \in fate'[i] => "done" \in fate[i]
      <3>1. fate' = fate \/ Settle({held[n].id}, "dropped")
        BY Zenon, <1>4 DEF LoadGeneration, ReadNames, FilterInboxes, Refused,
           DropMiss, histVars
      <3> QED  BY Zenon, <3>1 DEF Settle
    <2>4. \A m : Live(m)' => Derived(m)
      BY Zenon, <2>1, <2>2 DEF Live, Derived, From
    <2> QED  BY Zenon, <2>1, <2>3, <2>4, CountKept
  <1>5. ASSUME NEW w \in Worker, Deliver(n, w)
        PROVE  CountInv'
    <2>1. /\ held' = held /\ pc[n] = "route" /\ pc' = [pc EXCEPT ![n] = "ack"]
          /\ inbox' = [inbox EXCEPT ![w] = Append(inbox[w], Stamped(held[n], w))]
          /\ UNCHANGED <<queue, delayed, firing, cur, wpc, sent, acks, fate>>
      BY Zenon, <1>5 DEF Deliver, busVars, histVars
    <2>2. pc[n] \in Holding /\ "ack" \notin Holding
      BY <2>1 DEF Holding
    <2>3. /\ held[n] \in Msg /\ Stamped(held[n], w) \in Msg
          /\ Stamped(held[n], w).id = held[n].id
          /\ Stamped(held[n], w).consumed = held[n].consumed
      BY Zenon, <1>2, <2>1, MsgOps, CountOps
    <2>4. \A x \in Worker, m \in Msg :
              InSeq(inbox'[x], m) => InSeq(inbox[x], m) \/ m = Stamped(held[n], w)
      BY Zenon, <1>2, <2>1, <2>3, SeqEntries
    <2>5. \A x \in Worker : \A m : InSeq(inbox'[x], m) => m \in Msg
      <3>1. \A x \in Worker : inbox'[x] \in Seq(Msg)
        BY Zenon, <1>2, <2>1, <2>3, MsgSeq
      <3> QED  BY Zenon, <3>1, SeqEntries
    <2>6. From(held[n], Stamped(held[n], w))
      BY Zenon, <2>2, <2>3 DEF From, Live
    <2>7. \A m : Live(m)' => Derived(m)
      BY Zenon, <1>2, <2>1, <2>2, <2>4, <2>5, <2>6 DEF Live, Derived, From
    <2> QED  BY Zenon, <2>1, <2>7, CountKept
  <1>6. CASE RelayMiss(n)
    <2>1. /\ held' = [held EXCEPT ![n] = Attempted(held[n])]
          /\ pc[n] = "route" /\ pc' = [pc EXCEPT ![n] = "relay"]
          /\ UNCHANGED <<queue, delayed, firing, inbox, cur, wpc, sent, acks, fate>>
      BY Zenon, <1>6 DEF RelayMiss, workVars, histVars
    <2>2. pc[n] \in Holding
      BY <2>1 DEF Holding
    <2>3. /\ Attempted(held[n]).id = held[n].id
          /\ Attempted(held[n]).consumed = held[n].consumed
      BY Zenon, <1>2, <2>1, MsgOps, CountOps
    <2>4. From(held[n], Attempted(held[n]))
      BY Zenon, <2>2, <2>3 DEF From, Live
    <2>5. \A m : Live(m)' => Derived(m)
      BY Zenon, <1>2, <2>1, <2>2, <2>4 DEF Live, Derived, From
    <2> QED  BY Zenon, <2>1, <2>5, CountKept
  <1>7. CASE Relay(n) \/ Nack(n)
    <2>1. /\ queue' = Append(queue, held[n])
          /\ pc'[n] \in {"ack", "claim"} /\ pc[n] \in {"relay", "nack"}
          /\ \A x \in Node \ {n} : pc'[x] = pc[x] /\ held'[x] = held[x]
          /\ UNCHANGED <<delayed, firing, inbox, cur, wpc, sent, acks, fate>>
      <3>1. CASE Relay(n)
        BY Zenon, <1>1, <1>2, <3>1 DEF Relay, NextClaim, workVars
      <3>2. CASE Nack(n)
        BY Zenon, <1>2, <3>2 DEF Nack, workVars, histVars
      <3> QED  BY Zenon, <1>7, <3>1, <3>2
    <2>2. pc[n] \in Holding /\ pc'[n] \notin Holding /\ held[n] \in Msg
      BY <1>2, <2>1 DEF Holding
    <2>3. \A m : InSeq(queue', m) => InSeq(queue, m) \/ m = held[n]
      BY Zenon, <1>2, <2>1, <2>2, SeqEntries
    <2>4. \A m : Live(m)' => Derived(m)
      BY Zenon, <2>1, <2>2, <2>3 DEF Live, Derived, From
    <2> QED  BY Zenon, <2>1, <2>4, CountKept
  <1>8. CASE Ack(n)
    <2>1. /\ held' = [held EXCEPT ![n] = NoMsg]
          /\ pc[n] = "ack" /\ pc' = [pc EXCEPT ![n] = "claim"]
          /\ UNCHANGED <<queue, delayed, firing, inbox, cur, wpc, sent, acks, fate>>
      BY Zenon, <1>8 DEF Ack, NextClaim, workVars
    <2>2. "claim" \notin Holding
      BY DEF Holding
    <2>3. \A m : Live(m)' => Derived(m)
      BY Zenon, <1>2, <2>1, <2>2 DEF Live, Derived, From
    <2> QED  BY Zenon, <2>1, <2>3, CountKept
  <1>9. ~ ClaimStale(n) /\ ~ NackFails(n)
    BY Zenon, <1>1 DEF ClaimStale, NackFails, CopyInv
  <1> QED
    BY Zenon, <1>3, <1>4, <1>5, <1>6, <1>7, <1>8, <1>9 DEF Dispatcher

\* The counter and the number of runs a message asks for.
LEMMA RunArithmetic ==
    ASSUME NEW i \in Id, NEW c \in Nat, c < Need[i]
    PROVE  /\ i \notin Repeated => c + 1 = Need[i]
           /\ i \in Repeated /\ (c + 1) % CountMod = Times[i] => c + 1 = Need[i]
           /\ i \in Repeated /\ (c + 1) % CountMod # Times[i]
                 => c + 1 < Need[i] /\ (c + 1) % CountMod = c + 1
  <1>1. CountMod \in Nat \ {0} /\ (i \in Repeated => Times[i] \in 0 .. CountMod - 1)
    BY ConstantsAssumption
  <1>2. Need[i] = IF i \notin Repeated THEN 1
                  ELSE IF Times[i] = 0 THEN CountMod ELSE Times[i]
    BY Zenon DEF Need
  <1>3. c + 1 < CountMod => (c + 1) % CountMod = c + 1
    BY <1>1
  <1>4. c + 1 = CountMod => (c + 1) % CountMod = 0
    BY <1>1
  <1> QED  BY <1>1, <1>2, <1>3, <1>4

\* Giving messages up completes none.
LEMMA SettleNotDone ==
    ASSUME NEW S, NEW f, f # "done", Settle(S, f)
    PROVE  \A i \in Id : "done" \in fate'[i] => "done" \in fate[i]
  <1> TAKE i \in Id
  <1>1. fate'[i] = IF i \in S THEN fate[i] \cup {f} ELSE fate[i]
    BY Zenon DEF Settle
  <1>2. CASE i \in S
    BY <1>1, <1>2
  <1>3. CASE i \notin S
    BY Zenon, <1>1, <1>3
  <1> QED  BY Zenon, <1>2, <1>3

\* A successful run is counted in the one copy, and completes the message when
\* it was the last one asked for.
LEMMA HandlerAckCounts ==
    ASSUME TypeOK, CopyInv, CountInv, NEW w \in Worker, HandlerAck(w)
    PROVE  CountInv'
  <1>1. /\ wpc[w] = "run" /\ cur[w] \in Msg
        /\ cur \in [Worker -> Msg \cup {NoMsg}]
        /\ wpc \in [Worker -> {"idle", "run", "send"}]
        /\ acks \in [Id -> Nat]
    BY Zenon DEF HandlerAck, TypeOK, WorkType, HistType
  <1>2. PICK j \in Id, c \in Nat, m \in Msg :
            /\ cur[w].id = j /\ m.id = j /\ m = Consumed(cur[w])
            /\ c = acks[j] /\ cur[w].consumed = c /\ c < Need[j]
            /\ m.consumed = (c + 1) % CountMod
    <2>1. /\ cur[w].id \in Id /\ Consumed(cur[w]) \in Msg
          /\ Consumed(cur[w]).id = cur[w].id
      BY Zenon, <1>1, MsgOps
    <2>2. Counted(cur[w])
      BY Zenon, <1>1 DEF CountInv, Live
    <2>3. Consumed(cur[w]).consumed = (acks[cur[w].id] + 1) % CountMod
      BY Zenon, <1>1, <2>2, CountOps DEF Counted
    <2>4. acks[cur[w].id] \in Nat
      BY Zenon, <1>1, <2>1
    <2> QED  BY Zenon, <2>1, <2>2, <2>3, <2>4 DEF Counted
  <1>3. /\ acks' = [acks EXCEPT ![j] = c + 1]
        /\ UNCHANGED <<queue, delayed, firing, pc, held, inbox, sent>>
        /\ \/ /\ j \in Repeated /\ m.consumed # Times[j] /\ fate' = fate
              /\ cur' = [cur EXCEPT ![w] = m] /\ wpc' = [wpc EXCEPT ![w] = "send"]
           \/ /\ ~ (j \in Repeated /\ m.consumed # Times[j])
              /\ Settle({j}, "done")
              /\ cur' = [cur EXCEPT ![w] = NoMsg]
              /\ wpc' = [wpc EXCEPT ![w] = "idle"]
    BY Zenon, <1>2 DEF HandlerAck, SendBack, Finish, dispVars
  <1>4. /\ \A i \in Id : i # j => acks'[i] = acks[i]
        /\ acks'[j] = c + 1
    BY Zenon, <1>1, <1>3
  <1>5. Has("handler", w, j)
    BY Zenon, <1>1, <1>2 DEF Has
  <1>6. ASSUME NEW a, Live(a)'
        PROVE  \/ a = m /\ wpc'[w] = "send"
               \/ Live(a) /\ a.id # j
    <2>1. CASE InSeq(queue, a)
      <3>1. Has("queue", NoWorker, a.id)
        BY Zenon, <2>1 DEF Has, HasId, InSeq
      <3>2. a.id # j
        BY <1>5, <3>1, SoleElse DEF CopyInv
      <3> QED  BY Zenon, <2>1, <3>2 DEF Live
    <2>2. CASE a \in delayed
      <3>1. Has("delayed", NoWorker, a.id)
        BY Zenon, <2>2 DEF Has
      <3>2. a.id # j
        BY <1>5, <3>1, SoleElse DEF CopyInv
      <3> QED  BY Zenon, <2>2, <3>2 DEF Live
    <2>3. CASE a \in firing
      <3>1. Has("firing", NoWorker, a.id)
        BY Zenon, <2>3 DEF Has
      <3>2. a.id # j
        BY <1>5, <3>1, SoleElse DEF CopyInv
      <3> QED  BY Zenon, <2>3, <3>2 DEF Live
    <2>4. ASSUME NEW n \in Node, pc[n] \in Holding, held[n] = a
          PROVE  Live(a) /\ a.id # j
      <3>1. Has("dispatcher", n, a.id)
        BY Zenon, <2>4 DEF Has
      <3>2. a.id # j
        BY <1>5, <3>1, SoleElse DEF CopyInv
      <3> QED  BY Zenon, <2>4, <3>2 DEF Live
    <2>5. ASSUME NEW x \in Worker, InSeq(inbox[x], a)
          PROVE  Live(a) /\ a.id # j
      <3>1. Has("inbox", x, a.id)
        BY Zenon, <2>5 DEF Has, HasId, InSeq
      <3>2. a.id # j
        BY <1>5, <3>1, SoleElse DEF CopyInv
      <3> QED  BY Zenon, <2>5, <3>2 DEF Live
    <2>6. ASSUME NEW x \in Worker, wpc'[x] # "idle", cur'[x] = a
          PROVE  \/ a = m /\ wpc'[w] = "send"
                 \/ Live(a) /\ a.id # j
      <3>1. CASE x = w
        BY Zenon, <1>1, <1>3, <2>6, <3>1
      <3>2. CASE x # w
        <4>1. wpc[x] # "idle" /\ cur[x] = a
          BY Zenon, <1>1, <1>3, <2>6, <3>2
        <4>2. Has("handler", x, a.id)
          BY Zenon, <4>1 DEF Has
        <4>3. a.id # j
          BY <1>5, <3>2, <4>2, SoleElse DEF CopyInv
        <4> QED  BY Zenon, <4>1, <4>3 DEF Live
      <3> QED  BY Zenon, <3>1, <3>2
    <2> QED
      BY Zenon, <1>3, <1>6, <2>1, <2>2, <2>3, <2>4, <2>5, <2>6 DEF Live
  <1>7. ASSUME NEW a, Live(a)'
        PROVE  Counted(a)'
    <2>1. CASE a = m /\ wpc'[w] = "send"
      <3>1. j \in Repeated /\ m.consumed # Times[j]
        BY Zenon, <1>1, <1>3, <2>1
      <3>2. c + 1 < Need[j] /\ m.consumed = c + 1
        BY Zenon, <1>2, <3>1, RunArithmetic
      <3> QED  BY Zenon, <1>2, <1>4, <2>1, <3>2 DEF Counted
    <2>2. CASE Live(a) /\ a.id # j
      <3>1. a.id \in Id
        BY Zenon, <2>2, LiveType, MsgOps
      <3> QED  BY Zenon, <1>4, <2>2, <3>1 DEF Counted, CountInv
    <2> QED  BY Zenon, <1>6, <1>7, <2>1, <2>2
  <1>8. ASSUME NEW i \in Id, i \notin sent'
        PROVE  acks'[i] = 0
    <2>1. Has("unsent", NoWorker, i)
      BY Zenon, <1>3, <1>8 DEF Has
    <2>2. i # j
      BY <1>5, <2>1, SoleElse DEF CopyInv
    <2> QED  BY Zenon, <1>3, <1>4, <1>8, <2>2 DEF CountInv
  <1>9. ASSUME NEW i \in Id, "done" \in fate'[i]
        PROVE  acks'[i] = Need[i]
    <2>1. CASE i = j
      <3>1. ~ Has("fate", "done", j)
        BY <1>5, SoleElse DEF CopyInv
      <3>2. "done" \notin fate[j]
        BY Zenon, <3>1 DEF Has
      <3>3. ~ (j \in Repeated /\ m.consumed # Times[j])
        BY Zenon, <1>3, <1>9, <2>1, <3>2
      <3>4. c + 1 = Need[j]
        BY Zenon, <1>2, <3>3, RunArithmetic
      <3> QED  BY Zenon, <1>4, <2>1, <3>4
    <2>2. CASE i # j
      <3>1. fate'[i] = fate[i]
        BY Zenon, <1>3, <2>2 DEF Settle
      <3> QED  BY Zenon, <1>4, <1>9, <2>2, <3>1 DEF CountInv
    <2> QED  BY Zenon, <2>1, <2>2
  <1> QED  BY Zenon, <1>7, <1>8, <1>9 DEF CountInv

\* What the worker does otherwise leaves the count of its message alone.
LEMMA WorkerCounts ==
    ASSUME TypeOK, CopyInv, CountInv, Calm, Calm', NEW w \in Worker, WorkerLoop(w)
    PROVE  CountInv'
  <1>1. ~ Fault
    BY DEF Fault, Calm
  <1>2. /\ cur \in [Worker -> Msg \cup {NoMsg}]
        /\ wpc \in [Worker -> {"idle", "run", "send"}]
        /\ queue \in Seq(Msg) /\ inbox \in [Worker -> Seq(Msg)]
        /\ wpc[w] # "idle" => cur[w] \in Msg
    BY Zenon DEF TypeOK, BusType, WorkType
  <1>3. CASE Receive(w)
    <2>1. /\ inbox[w] # <<>> /\ inbox' = [inbox EXCEPT ![w] = Tail(inbox[w])]
          /\ cur' = [cur EXCEPT ![w] = Head(inbox[w])]
          /\ wpc' = [wpc EXCEPT ![w] = "run"]
          /\ UNCHANGED <<queue, delayed, firing, pc, held, sent, acks, fate>>
      BY Zenon, <1>3 DEF Receive, busVars, dispVars, histVars
    <2>2. \A m : InSeq(Tail(inbox[w]), m) \/ m = Head(inbox[w]) => InSeq(inbox[w], m)
      BY Zenon, <1>2, <2>1, SeqEntries
    <2>3. \A m : Live(m)' => Derived(m)
      BY Zenon, <1>2, <2>1, <2>2 DEF Live, Derived, From
    <2> QED  BY Zenon, <2>1, <2>3, CountKept
  <1>4. CASE HandlerDead(w)
    <2>1. /\ cur' = [cur EXCEPT ![w] = NoMsg] /\ wpc' = [wpc EXCEPT ![w] = "idle"]
          /\ Settle({cur[w].id}, "dead")
          /\ UNCHANGED <<queue, delayed, firing, pc, held, inbox, sent, acks>>
      BY Zenon, <1>4 DEF HandlerDead, Finish, dispVars
    <2>2. \A m : Live(m)' => Derived(m)
      BY Zenon, <1>2, <2>1 DEF Live, Derived, From
    <2>3. \A i \in Id : "done" \in fate'[i] => "done" \in fate[i]
      BY Zenon, <2>1 DEF Settle
    <2> QED  BY Zenon, <2>1, <2>2, <2>3, CountKept
  <1>5. ASSUME NEW r \in RetryLimits, NEW later \in BOOLEAN,
               HandlerNoAck(w, r, later)
        PROVE  CountInv'
    <2>1. PICK a \in Msg : /\ a = Attempted(cur[w]) /\ wpc[w] = "run"
                           /\ a.id = cur[w].id /\ a.consumed = cur[w].consumed
      <3>1. wpc[w] = "run"
        BY Zenon, <1>5 DEF HandlerNoAck
      <3> QED  BY Zenon, <1>2, <3>1, MsgOps, CountOps
    <2>2. UNCHANGED <<queue, firing, pc, held, inbox, sent, acks>>
      BY Zenon, <1>5 DEF HandlerNoAck, Finish, SendBack, dispVars
    <2>3. From(cur[w], a)
      BY Zenon, <2>1 DEF From, Live
    <2>4. \/ /\ delayed' = delayed
             /\ fate' = fate \/ Settle({a.id}, "exhausted")
             /\ \/ /\ cur' = [cur EXCEPT ![w] = NoMsg]
                   /\ wpc' = [wpc EXCEPT ![w] = "idle"]
                \/ /\ cur' = [cur EXCEPT ![w] = a]
                   /\ wpc' = [wpc EXCEPT ![w] = "send"]
          \/ /\ delayed' = {d \in delayed : d.id # a.id} \cup {a}
             /\ fate' = fate
             /\ cur' = [cur EXCEPT ![w] = NoMsg]
             /\ wpc' = [wpc EXCEPT ![w] = "idle"]
      BY Zenon, <1>5, <2>1 DEF HandlerNoAck, Finish, SendBack, Schedule
    <2>5. \A i \in Id : "done" \in fate'[i] => "done" \in fate[i]
      <3>1. fate' = fate \/ Settle({a.id}, "exhausted")
        BY Zenon, <2>4
      <3>2. "exhausted" # "done"
        OBVIOUS
      <3> QED  BY Zenon, <3>1, <3>2, SettleNotDone
    <2>6. \A m : Live(m)' => Derived(m)
      <3>1. \A d \in delayed' : d \in delayed \/ d = a
        BY Zenon, <2>4
      <3>2. \A x \in Worker :
                wpc'[x] # "idle" => \/ wpc[x] # "idle" /\ cur'[x] = cur[x]
                                    \/ cur'[x] = a
        <4>1. \/ /\ cur' = [cur EXCEPT ![w] = NoMsg]
                 /\ wpc' = [wpc EXCEPT ![w] = "idle"]
              \/ cur' = [cur EXCEPT ![w] = a] /\ wpc' = [wpc EXCEPT ![w] = "send"]
          BY Zenon, <2>4
        <4> QED  BY Zenon, <1>2, <4>1
      <3> QED  BY Zenon, <2>2, <2>3, <3>1, <3>2 DEF Live, Derived, From
    <2> QED  BY Zenon, <2>2, <2>5, <2>6, CountKept
  <1>6. CASE Requeue(w)
    <2>1. /\ cur' = [cur EXCEPT ![w] = NoMsg] /\ wpc' = [wpc EXCEPT ![w] = "idle"]
          /\ wpc[w] # "idle" /\ queue' = Append(queue, cur[w])
          /\ UNCHANGED <<delayed, firing, pc, held, inbox, sent, acks, fate>>
      BY Zenon, <1>6 DEF Requeue, dispVars, histVars
    <2>2. \A m : InSeq(queue', m) => InSeq(queue, m) \/ m = cur[w]
      BY Zenon, <1>2, <2>1, SeqEntries
    <2>3. \A m : Live(m)' => Derived(m)
      BY Zenon, <1>2, <2>1, <2>2 DEF Live, Derived, From
    <2> QED  BY Zenon, <2>1, <2>3, CountKept
  <1>7. ~ ProcessFails(w) /\ ~ RequeueFails(w)
    BY Zenon, <1>1 DEF ProcessFails, RequeueFails
  <1> QED  BY Zenon, <1>3, <1>4, <1>5, <1>6, <1>7, HandlerAckCounts
           DEF WorkerLoop, Handle

\* Deleting a worker only takes copies away.
LEMMA AdministerCounts ==
    ASSUME TypeOK, CountInv, NEW w \in Worker, Administer(w)
    PROVE  CountInv'
  <1>1. /\ UNCHANGED <<queue, delayed, firing, held, sent, acks>>
        /\ fate' = fate \/ \E S : Settle(S, "lost")
    BY Zenon DEF Administer, CreateWorker, RegisterWorker, DelWorker, DelInbox,
       DelNames, CancelTask, CloseInbox, busVars, dispVars, histVars
  <1>2. \A n \in Node : pc'[n] \in Holding => pc[n] \in Holding
    <2>1. \A x \in Node : pc'[x] = pc[x] \/ pc'[x] = "claim"
      BY Zenon
         DEF Administer, CreateWorker, RegisterWorker, DelWorker, DelInbox,
         DelNames, CancelTask, CloseInbox, dispVars, TypeOK, DispType
    <2>2. "claim" \notin Holding
      BY DEF Holding
    <2> QED  BY Zenon, <2>1, <2>2
  <1>3. \A x \in Worker :
            /\ wpc'[x] # "idle" => wpc[x] # "idle" /\ cur'[x] = cur[x]
            /\ inbox'[x] = inbox[x] \/ inbox'[x] = <<>>
    <2>1. /\ \/ cur' = cur /\ wpc' = wpc
             \/ /\ cur' = [cur EXCEPT ![w] = NoMsg]
                /\ wpc' = [wpc EXCEPT ![w] = "idle"]
          /\ inbox' = inbox \/ inbox' = [inbox EXCEPT ![w] = <<>>]
      BY Zenon
         DEF Administer, CreateWorker, RegisterWorker, DelWorker, DelInbox,
         DelNames, CancelTask, CloseInbox, workVars
    <2> QED  BY Zenon, <2>1 DEF TypeOK, WorkType
  <1>4. \A m : ~ InSeq(<<>>, m)
    BY DEF InSeq
  <1>5. \A m : Live(m)' => Derived(m)
    BY Zenon, <1>1, <1>2, <1>3, <1>4 DEF Live, Derived, From
  <1>6. \A i \in Id : "done" \in fate'[i] => "done" \in fate[i]
    <2>1. "lost" # "done"
      OBVIOUS
    <2> QED  BY Zenon, <1>1, <2>1, SettleNotDone
  <1> QED  BY Zenon, <1>1, <1>5, <1>6, CountKept

\* Until something fails, the copies carry the right counts.
LEMMA CountInvariant == Spec => [](Calm => CountInv)
  <1>1. Init => CountInv
    <2> SUFFICES ASSUME Init PROVE CountInv
      OBVIOUS
    <2>1. /\ queue = <<>> /\ delayed = {} /\ firing = {}
          /\ \A x \in Node : pc[x] = "off"
          /\ \A x \in Worker : inbox[x] = <<>> /\ wpc[x] = "idle"
          /\ \A i \in Id : fate[i] = {} /\ acks[i] = 0
      BY Zenon DEF Init
    <2>2. "off" \notin Holding /\ \A m : ~ InSeq(<<>>, m)
      BY DEF Holding, InSeq
    <2> QED  BY Zenon, <2>1, <2>2 DEF CountInv, Live
  <1>2. ASSUME TypeOK, Calm => CopyInv, Calm => CountInv, [Next]_vars, Calm'
        PROVE  CountInv'
    <2>1. /\ Calm /\ CopyInv /\ CountInv /\ \A n \in Node : ~ Crash(n)
      BY Zenon, <1>2, CalmBefore
    <2>2. CASE \E i \in Id, t \in Targets : Send(i, t) \/ SendDelayed(i, t)
      BY Zenon, <1>2, <2>1, <2>2, SendCounts
    <2>3. CASE Scheduler
      BY Zenon, <1>2, <2>1, <2>3, SchedulerCounts
    <2>4. CASE \E n \in Node : Dispatcher(n) \/ Crash(n)
      BY Zenon, <1>2, <2>1, <2>4, DispatcherCounts
    <2>5. CASE \E w \in Worker : WorkerLoop(w) \/ Administer(w)
      BY Zenon, <1>2, <2>1, <2>5, WorkerCounts, AdministerCounts
    <2>6. CASE UNCHANGED vars
      <3>1. UNCHANGED <<queue, delayed, firing, pc, held, inbox, cur, wpc, sent,
                        acks, fate>>
        BY Zenon, <2>6 DEF vars, busVars, dispVars, workVars, histVars
      <3>2. \A m : Live(m)' => Derived(m)
        BY Zenon, <3>1 DEF Live, Derived, From
      <3> QED  BY Zenon, <2>1, <3>1, <3>2, CountKept
    <2> QED  BY Zenon, <1>2, <2>2, <2>3, <2>4, <2>5, <2>6 DEF Next
  <1>3. TypeOK /\ (Calm => CopyInv) /\ (Calm => CountInv) /\ [Next]_vars
            => (Calm => CountInv)'
    BY Zenon, <1>2
  <1> QED  BY <1>1, <1>3, CopyInvariant, TypeCorrect, PTL DEF Spec

\* Until a node crashes or a backend call fails, a completed message was
\* handled exactly as often as it asked for.
THEOREM HandledAsAsked == Spec => []HandledExactly
  <1>1. (Calm => CountInv) => HandledExactly
    BY Zenon DEF CountInv, HandledExactly
  <1> QED  BY <1>1, CountInvariant, PTL

-----------------------------------------------------------------------------
(***************************************************************************)
(* The promise to the sender is kept.                                      *)
(***************************************************************************)

\* The messages that are sent and have not ended.
Open == {i \in sent : fate[i] = {}}

\* A message that is somewhere between its sending and its end is open.
LEMMA OpenWhere ==
    ASSUME CopyInv, NEW i \in Id, NEW c, NEW x, Has(c, x, i), c # "unsent",
           c # "fate"
    PROVE  i \in Open
  <1>1. ~ Has("unsent", NoWorker, i) /\ \A f : ~ Has("fate", f, i)
    BY SoleElse DEF CopyInv
  <1>2. i \in sent /\ \A f : f \notin fate[i]
    BY Zenon, <1>1 DEF Has
  <1> QED  BY Zenon, <1>2 DEF Open

\* What a step in which nothing fails does to a message's history: nothing, or
\* it sends one, gives some up, or runs the handler of one.
LEMMA CalmHistory ==
    ASSUME TypeOK, CopyInv, Calm, Calm', [Next]_vars
    PROVE  \/ UNCHANGED <<sent, fate, acks>>
           \/ \E j \in Id : /\ j \notin sent /\ sent' = sent \cup {j}
                            /\ UNCHANGED <<fate, acks>>
           \/ \E S \in SUBSET Open, f \in Promise!GivenUp :
                  Settle(S, f) /\ UNCHANGED <<sent, acks>>
           \/ \E w \in Worker : HandlerAck(w)
  <1>1. ~ Fault /\ \A n \in Node : ~ Crash(n)
    <2>1. ~ Fault
      BY DEF Fault, Calm
    <2> QED  BY Zenon, <2>1, CalmBefore
  <1>2. /\ "dead" \in Promise!GivenUp /\ "exhausted" \in Promise!GivenUp
        /\ "dropped" \in Promise!GivenUp /\ "lost" \in Promise!GivenUp
    BY DEF Promise!GivenUp
  <1>3. ASSUME NEW w \in Worker, wpc[w] # "idle"
        PROVE  {cur[w].id} \in SUBSET Open
    <2>1. PICK j \in Id : cur[w].id = j
      <3>1. cur[w] \in Msg
        BY Zenon, <1>3 DEF TypeOK, WorkType
      <3> QED  BY Zenon, <3>1, MsgOps
    <2>2. Has("handler", w, j)
      BY Zenon, <1>3, <2>1 DEF Has
    <2>3. j \in Open
      BY <2>2, OpenWhere
    <2> QED  BY Zenon, <2>1, <2>3
  <1>4. CASE \E i \in Id, t \in Targets : Send(i, t) \/ SendDelayed(i, t)
    BY Zenon, <1>4 DEF Send, SendDelayed
  <1>5. CASE Scheduler
    BY Zenon, <1>1, <1>5 DEF Scheduler, FetchReady, FireDelayed, histVars
  <1>6. ASSUME NEW n \in Node, Dispatcher(n)
        PROVE  \/ UNCHANGED <<sent, fate, acks>>
               \/ \E S \in SUBSET Open, f \in Promise!GivenUp :
                      Settle(S, f) /\ UNCHANGED <<sent, acks>>
    <2>1. CASE DropMiss(n)
      <3>1. pc[n] = "route" /\ held[n] \in Msg
        BY Zenon, <2>1 DEF DropMiss, TypeOK, DispType
      <3>2. PICK j \in Id : held[n].id = j
        BY Zenon, <3>1, MsgOps
      <3>3. pc[n] \in Holding
        BY <3>1 DEF Holding
      <3>4. Has("dispatcher", n, j)
        BY Zenon, <3>2, <3>3 DEF Has
      <3>5. j \in Open
        BY <3>4, OpenWhere
      <3>6. {j} \in SUBSET Open
        BY Zenon, <3>5
      <3> QED  BY Zenon, <1>2, <2>1, <3>2, <3>6 DEF DropMiss
    <2>2. CASE \/ ClaimStale(n) \/ Claim(n) \/ LoadGeneration(n)
               \/ ReadNames(n) \/ FilterInboxes(n) \/ Nack(n) \/ RelayMiss(n)
      BY Zenon, <2>2 DEF ClaimStale, Claim, LoadGeneration, ReadNames,
         FilterInboxes, Nack, RelayMiss, histVars
    <2>3. CASE \/ \E w \in Worker : Deliver(n, w) \/ Refused(n, w)
               \/ Relay(n) \/ NackFails(n) \/ Ack(n)
      BY Zenon, <1>1, <2>3
         DEF Deliver, Refused, Relay, NackFails, Ack, NextClaim,
         histVars
    <2> QED  BY Zenon, <1>6, <2>1, <2>2, <2>3 DEF Dispatcher
  <1>7. ASSUME NEW w \in Worker, WorkerLoop(w)
        PROVE  \/ UNCHANGED <<sent, fate, acks>>
               \/ \E S \in SUBSET Open, f \in Promise!GivenUp :
                      Settle(S, f) /\ UNCHANGED <<sent, acks>>
               \/ HandlerAck(w)
    <2>1. CASE HandlerDead(w)
      <3>1. wpc[w] # "idle" /\ Settle({cur[w].id}, "dead") /\ UNCHANGED <<sent, acks>>
        BY Zenon, <2>1 DEF HandlerDead, Finish
      <3> QED  BY Zenon, <1>2, <1>3, <3>1
    <2>2. ASSUME NEW r \in RetryLimits, NEW later \in BOOLEAN,
                 HandlerNoAck(w, r, later)
          PROVE  \/ UNCHANGED <<sent, fate, acks>>
                 \/ \E S \in SUBSET Open, f \in Promise!GivenUp :
                        Settle(S, f) /\ UNCHANGED <<sent, acks>>
      <3>1. /\ wpc[w] # "idle" /\ UNCHANGED <<sent, acks>>
            /\ fate' = fate \/ Settle({Attempted(cur[w]).id}, "exhausted")
        BY Zenon, <2>2 DEF HandlerNoAck, Finish, SendBack
      <3>2. Attempted(cur[w]).id = cur[w].id
        BY ZenonT(60), <3>1, MsgOps DEF TypeOK, WorkType
      <3> QED  BY Zenon, <1>2, <1>3, <3>1, <3>2
    <2>3. CASE ProcessFails(w) \/ Receive(w) \/ Requeue(w) \/ RequeueFails(w)
      BY Zenon, <1>1, <2>3 DEF ProcessFails, Receive, Requeue, RequeueFails,
         histVars
    <2> QED  BY Zenon, <1>7, <2>1, <2>2, <2>3 DEF WorkerLoop, Handle
  <1>8. ASSUME NEW w \in Worker, Administer(w)
        PROVE  \/ UNCHANGED <<sent, fate, acks>>
               \/ \E S \in SUBSET Open, f \in Promise!GivenUp :
                      Settle(S, f) /\ UNCHANGED <<sent, acks>>
    <2>1. CASE \/ CreateWorker(w) \/ RegisterWorker(w) \/ DelWorker(w)
               \/ DelInbox(w) \/ DelNames(w)
      BY Zenon, <2>1 DEF CreateWorker, RegisterWorker, DelWorker, DelInbox,
         DelNames, histVars
    <2>2. CASE CancelTask(w)
      <3>1. (IF wpc[w] = "idle" THEN {} ELSE {cur[w].id}) \in SUBSET Open
        BY Zenon, <1>3
      <3> QED  BY Zenon, <1>2, <2>2, <3>1 DEF CancelTask
    <2>3. CASE CloseInbox(w)
      <3>1. ASSUME NEW j, j \in Ids(inbox[w])
            PROVE  j \in Open
        <4>1. HasId(inbox[w], j)
          BY Zenon, <3>1 DEF Ids, HasId
        <4>2. Has("inbox", w, j)
          BY Zenon, <4>1 DEF Has
        <4>3. j \in Id
          <5>1. \A k \in DOMAIN inbox[w] : inbox[w][k] \in Msg
            BY DEF TypeOK, WorkType
          <5> QED  BY Zenon, <4>1, <5>1, MsgOps DEF HasId
        <4> QED  BY <4>2, <4>3, OpenWhere
      <3>2. Ids(inbox[w]) \in SUBSET Open
        BY Zenon, <3>1
      <3> QED  BY Zenon, <1>2, <2>3, <3>2 DEF CloseInbox
    <2> QED  BY Zenon, <1>8, <2>1, <2>2, <2>3 DEF Administer
  <1>9. UNCHANGED vars => UNCHANGED <<sent, fate, acks>>
    BY Zenon DEF vars, histVars
  <1> QED  BY Zenon, <1>1, <1>4, <1>5, <1>6, <1>7, <1>8, <1>9 DEF Next

\* What the refinement mapping makes of a message's history.
LEMMA StatusOf ==
    ASSUME NEW i \in Id
    PROVE  /\ fate[i] = {} /\ i \in sent => Status[i] = "live"
           /\ fate[i] = {} /\ i \notin sent => Status[i] = "unsent"
           /\ \A f \in Fate : fate[i] = {f} => Status[i] = f
           /\ fate'[i] = {} /\ i \in sent' => Status'[i] = "live"
           /\ \A f \in Fate : fate'[i] = {f} => Status'[i] = f
           /\ fate'[i] = fate[i] /\ (i \in sent' <=> i \in sent)
                 => Status'[i] = Status[i]
  <1>1. Status[i] = IF fate[i] # {} THEN CHOOSE f \in Fate : f \in fate[i]
                    ELSE IF i \in sent THEN "live" ELSE "unsent"
    BY Zenon DEF Status
  <1>2. Status'[i] = IF fate'[i] # {} THEN CHOOSE f \in Fate : f \in fate'[i]
                     ELSE IF i \in sent' THEN "live" ELSE "unsent"
    BY Zenon DEF Status
  <1>3. \A f \in Fate : (CHOOSE g \in Fate : g \in {f}) = f
    OBVIOUS
  <1>4. \A f \in Fate : fate[i] = {f} => Status[i] = f
    BY Zenon, <1>1, <1>3
  <1>5. \A f \in Fate : fate'[i] = {f} => Status'[i] = f
    BY Zenon, <1>2, <1>3
  <1> QED  BY Zenon, <1>1, <1>2, <1>4, <1>5

\* The statuses are those of the promise.
LEMMA StatusDomain ==
    /\ Status = [i \in Id |-> Status[i]]
    /\ Status' = [i \in Id |-> Status'[i]]
  BY DEF Status

\* A step in which nothing fails is a step of the promise to the sender, or
\* changes nothing the sender could see.
LEMMA DeliveryStep ==
    ASSUME TypeOK, CopyInv, CountInv, Calm, Calm', [Next]_vars
    PROVE  [Promise!Next]_(Promise!vars)
  <1>1. CASE UNCHANGED <<sent, fate, acks>>
    <2>1. \A i \in Id : Status'[i] = Status[i]
      BY Zenon, <1>1, StatusOf
    <2>2. Status' = Status
      BY Zenon, <2>1, StatusDomain
    <2> QED  BY Zenon, <1>1, <2>2 DEF Promise!vars
  <1>2. ASSUME NEW j \in Id, j \notin sent, sent' = sent \cup {j},
               UNCHANGED <<fate, acks>>
        PROVE  Promise!Send(j)
    <2>1. fate[j] = {}
      <3>1. Has("unsent", NoWorker, j)
        BY Zenon, <1>2 DEF Has
      <3>2. \A f : ~ Has("fate", f, j)
        BY <3>1, SoleElse DEF CopyInv
      <3> QED  BY Zenon, <3>2 DEF Has
    <2>2. Status[j] = "unsent" /\ Status'[j] = "live"
      BY Zenon, <1>2, <2>1, StatusOf
    <2>3. \A i \in Id : i # j => Status'[i] = Status[i]
      BY Zenon, <1>2, StatusOf
    <2>4. Status' = [Status EXCEPT ![j] = "live"]
      BY Zenon, <2>2, <2>3, StatusDomain
    <2> QED  BY Zenon, <1>2, <2>2, <2>4 DEF Promise!Send
  <1>3. ASSUME NEW S \in SUBSET Open, NEW f \in Promise!GivenUp, Settle(S, f),
               UNCHANGED <<sent, acks>>
        PROVE  Promise!GiveUp \/ UNCHANGED Promise!vars
    <2>1. f \in Fate
      BY DEF Promise!GivenUp, Fate
    <2>2. \A i \in S : i \in Id /\ Status[i] = "live" /\ Status'[i] = f
      <3>1. \A i \in S : i \in Id /\ i \in sent /\ fate[i] = {}
        BY Zenon DEF Open, TypeOK, HistType
      <3>2. \A i \in S : fate'[i] = {f}
        BY Zenon, <1>3, <3>1 DEF Settle
      <3> QED  BY Zenon, <2>1, <3>1, <3>2, StatusOf
    <2>3. \A i \in Id : i \notin S => Status'[i] = Status[i]
      <3>1. \A i \in Id : i \notin S => fate'[i] = fate[i]
        BY Zenon, <1>3 DEF Settle
      <3> QED  BY Zenon, <1>3, <3>1, StatusOf
    <2>4. Status' = [i \in Id |-> IF i \in S THEN f ELSE Status[i]]
      BY Zenon, <2>2, <2>3, StatusDomain
    <2>5. CASE S = {}
      <3>1. Status' = Status
        BY Zenon, <2>4, <2>5, StatusDomain
      <3> QED  BY Zenon, <1>3, <3>1 DEF Promise!vars
    <2>6. CASE S # {}
      <3>1. S \in SUBSET {i \in Id : Status[i] = "live"}
        BY Zenon, <2>2
      <3> QED  BY Zenon, <1>3, <2>4, <2>6, <3>1 DEF Promise!GiveUp
    <2> QED  BY Zenon, <2>5, <2>6
  <1>4. ASSUME NEW w \in Worker, HandlerAck(w)
        PROVE  \E j \in Id : Promise!Handle(j)
    <2>1. wpc[w] = "run" /\ cur[w] \in Msg /\ acks \in [Id -> Nat]
      BY Zenon, <1>4 DEF HandlerAck, TypeOK, WorkType, HistType
    <2>2. PICK j \in Id : cur[w].id = j /\ Consumed(cur[w]).id = j
      BY Zenon, <2>1, MsgOps
    <2>3. Has("handler", w, j)
      BY Zenon, <2>1, <2>2 DEF Has
    <2>4. j \in sent /\ fate[j] = {} /\ sent' = sent
      <3>1. j \in Open
        BY <2>3, OpenWhere
      <3> QED  BY Zenon, <1>4, <3>1 DEF Open, HandlerAck, Finish, SendBack
    <2>5. Counted(cur[w])
      BY Zenon, <2>1 DEF CountInv, Live
    <2>6. cur[w].consumed = acks[j] /\ acks[j] < Need[j] /\ acks[j] \in Nat
      BY Zenon, <2>1, <2>2, <2>5 DEF Counted
    <2>7. acks' = [acks EXCEPT ![j] = acks[j] + 1]
      BY Zenon, <1>4, <2>2 DEF HandlerAck
    <2>8. Consumed(cur[w]).consumed = (acks[j] + 1) % CountMod
      BY Zenon, <2>1, <2>6, CountOps
    <2>9. \/ acks[j] + 1 # Need[j] /\ fate' = fate
          \/ acks[j] + 1 = Need[j] /\ Settle({j}, "done")
      <3>1. CASE j \in Repeated /\ Consumed(cur[w]).consumed # Times[j]
        <4>1. fate' = fate
          BY Zenon, <1>4, <2>2, <3>1 DEF HandlerAck
        <4>2. acks[j] + 1 < Need[j]
          BY Zenon, <2>6, <2>8, <3>1, RunArithmetic
        <4>3. Need[j] \in Nat
          BY Zenon, CountOps
        <4> QED  BY <2>6, <4>1, <4>2, <4>3
      <3>2. CASE ~ (j \in Repeated /\ Consumed(cur[w]).consumed # Times[j])
        <4>1. Settle({j}, "done")
          BY Zenon, <1>4, <2>2, <3>2 DEF HandlerAck
        <4>2. acks[j] + 1 = Need[j]
          BY Zenon, <2>6, <2>8, <3>2, RunArithmetic
        <4> QED  BY Zenon, <4>1, <4>2
      <3> QED  BY Zenon, <3>1, <3>2
    <2>10. Status[j] = "live"
      BY Zenon, <2>4, StatusOf
    <2>11. Status'[j] = IF acks[j] + 1 = Need[j] THEN "done" ELSE "live"
      <3>1. CASE acks[j] + 1 # Need[j] /\ fate' = fate
        BY Zenon, <2>4, <3>1, StatusOf
      <3>2. CASE acks[j] + 1 = Need[j] /\ Settle({j}, "done")
        <4>1. fate'[j] = {"done"}
          BY Zenon, <2>4, <3>2 DEF Settle
        <4>2. "done" \in Fate
          BY DEF Fate
        <4> QED  BY Zenon, <3>2, <4>1, <4>2, StatusOf
      <3> QED  BY Zenon, <2>9, <3>1, <3>2
    <2>12. \A i \in Id : i # j => Status'[i] = Status[i]
      <3>1. \A i \in Id : i # j => fate'[i] = fate[i]
        BY Zenon, <2>9 DEF Settle
      <3> QED  BY Zenon, <2>4, <3>1, StatusOf
    <2>13. Status' = [Status EXCEPT ![j] =
                         IF acks[j] + 1 = Need[j] THEN "done" ELSE "live"]
      BY Zenon, <2>11, <2>12, StatusDomain
    <2> QED  BY Zenon, <2>6, <2>7, <2>10, <2>13 DEF Promise!Handle
  <1> QED
    BY Zenon, <1>1, <1>2, <1>3, <1>4, CalmHistory DEF Promise!Next

\* A bus on which no node crashes and no backend call fails keeps its promise to
\* the sender: a message is handled as often as it asks for and then completed,
\* or given up, once, and never comes back.
THEOREM DeliveryImplemented == Spec /\ []Calm => ImplementsDelivery
  <1>1. Init => Promise!Init
    <2> SUFFICES ASSUME Init PROVE Promise!Init
      OBVIOUS
    <2>1. \A i \in Id : Status[i] = "unsent"
      <3>1. \A i \in Id : fate[i] = {} /\ i \notin sent
        BY Zenon DEF Init
      <3> QED  BY Zenon, <3>1, StatusOf
    <2>2. Status = [i \in Id |-> "unsent"]
      BY Zenon, <2>1, StatusDomain
    <2> QED  BY Zenon, <2>2 DEF Promise!Init, Init
  <1>2. TypeOK /\ (Calm => CopyInv) /\ (Calm => CountInv) /\ Calm /\ Calm'
            /\ [Next]_vars => [Promise!Next]_(Promise!vars)
    BY Zenon, DeliveryStep
  <1> QED
    BY <1>1, <1>2, TypeCorrect, CopyInvariant, CountInvariant, PTL
       DEF Spec, ImplementsDelivery, Promise!Spec
=============================================================================
