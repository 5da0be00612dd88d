-------------------------------- MODULE Bus --------------------------------
(***************************************************************************)
(* One process on an in-memory backend: the channels the queue factory     *)
(* makes, who reads them, and how topics and workers come and go.          *)
(*                                                                         *)
(* Crossfire makes a channel per registration of a topic and routes by a   *)
(* table; Flume and MPMC share one channel, number 0, between all topics   *)
(* and the main recv loop.  Administrative calls (create_worker,           *)
(* del_worker, del_workers, get_workers) run concurrently and are split    *)
(* where they wait for the local_topics or the worker_index lock; a call   *)
(* is known by what it does, and a lock by the call that holds it.  The    *)
(* lock around the whole router is the subject of Shutdown.                *)
(*                                                                         *)
(* Dispatch models the dispatcher's cache, handler outcomes and retries;   *)
(* here a dispatcher claims and decides on the current workers in one      *)
(* step, and a handler acknowledges.                                       *)
(***************************************************************************)
EXTENDS Naturals, Sequences, FiniteSets

CONSTANTS
    Backends,           \* the backends to consider
    Topic, System,      \* all topics; those named "_system."
    NoTopic,
    Cap, InboxCap,      \* capacity of a channel and of an inbox
    Batch,              \* batch_size of recv
    Hops,               \* MAX_TARGETED_HOPS
    MaxMsg, MaxChan,    \* bounds: messages sent, queues made,
    MaxWorker,          \* workers created, numbered in that order,
    MaxCalls, MaxAtOnce \* get and delete calls, calls at the same time

ASSUME BusAssumption ==
    /\ Backends \subseteq {"crossfire", "flume", "mpmc"}
    /\ System \subseteq Topic /\ NoTopic \notin Topic
    /\ {Cap, InboxCap, Batch} \subseteq Nat \ {0}
    /\ {Hops, MaxMsg, MaxChan, MaxWorker, MaxCalls, MaxAtOnce} \subseteq Nat

VARIABLES
    backend,            \* fixed at the start
    chan, made,         \* chan[c]: its messages; queues made so far
    routes,             \* crossfire's table: routes[t], 0 without a route
    tchan, reg,         \* local_topics: the queue of each registered topic
    names,              \* the workers of its entry, and dispatch_workers
    enabled,            \* dispatch_enabled
    worker,             \* each worker created: its topic and its producer
    index, boxes,       \* worker_index, local_inboxes
    inbox,              \* inbox[w]
    readers,            \* the dispatchers, in order of spawning
    main,               \* recv: its batch, what it waits for, what to nack
    calls, lock, begun, \* calls in progress, holders of the locks, a count
    sent, settled,      \* history: accepted messages, those that ended,
    spanned             \* topics deleted within a create_worker

queues == <<chan, made, routes>>
topics == <<tchan, reg, names, enabled>>
workers == <<worker, index, boxes, inbox>>
tasks == <<readers, main>>
admin == <<calls, lock, begun, spanned>>
hist == <<sent, settled>>
vars == <<backend, queues, topics, workers, tasks, admin, hist>>

Channel == 0 .. MaxChan
Worker == 1 .. MaxWorker
NoWorker == 0
Message == [id : 1 .. MaxMsg, topic : Topic, to : 0 .. MaxWorker,
            hops : 0 .. Hops]
Call == [at : {"flag", "register", "get", "purge", "unname"},
         w : 0 .. MaxWorker, t : Topic \cup {NoTopic}]
NoCall == [at |-> "none", w |-> NoWorker, t |-> NoTopic]
Lock == {"topics", "index"}

TypeOK ==
    /\ \A c \in Channel : Len(chan[c]) <= Cap
    /\ made \in Channel /\ tchan \in [Topic -> Channel]
    /\ routes \in [Topic -> Channel] /\ names \in [Topic -> SUBSET Worker]
    /\ reg \subseteq Topic /\ enabled \subseteq Topic
    /\ index \subseteq Worker /\ boxes \subseteq Worker
    /\ \A w \in Worker : Len(inbox[w]) <= InboxCap
    /\ \A r \in DOMAIN readers : \A i \in DOMAIN readers[r].back :
         readers[r].back[i] \in Message
    /\ main.want + Len(main.batch) <= Batch /\ Len(main.nacks) <= Batch
    /\ calls \subseteq Call /\ lock \in [Lock -> calls \cup {NoCall}]
    /\ begun \in 0 .. MaxCalls /\ settled \subseteq DOMAIN sent

Init ==
    /\ backend \in Backends
    /\ chan = [c \in Channel |-> << >>] /\ made = 0
    /\ routes = [t \in Topic |-> 0] /\ tchan = routes
    /\ reg = {} /\ names = [t \in Topic |-> {}] /\ enabled = {}
    /\ worker = << >> /\ index = {} /\ boxes = {}
    /\ inbox = [w \in Worker |-> << >>] /\ readers = << >>
    /\ main = [batch |-> << >>, want |-> 0, nacks |-> << >>]
    /\ calls = {} /\ lock = [l \in Lock |-> NoCall] /\ begun = 0
    /\ sent = << >> /\ settled = {} /\ spanned = {}
-----------------------------------------------------------------------------
(* Queues *)

crossfire == backend = "crossfire"
Room(c) == Len(chan[c]) < Cap
Free(l) == lock[l] = NoCall

\* Mutant: a send does not wait for room.
Put_Unbounded(c, m) == chan' = [chan EXCEPT ![c] = Append(@, m)]

\* A waiting send completes.
Put(c, m) == Room(c) /\ chan' = [chan EXCEPT ![c] = Append(@, m)]
Take(c) == chan[c] # << >> /\ chan' = [chan EXCEPT ![c] = Tail(@)]

\* No copy of m is left: a handler has had it, or it was given up.
Ends(m) == settled' = settled \cup {m.id}

\* Mutant: Crossfire, too, has one queue for all topics.
CreateQueue_Shared(t) ==
    /\ tchan' = [tchan EXCEPT ![t] = 1] /\ routes' = [routes EXCEPT ![t] = 1]
    /\ made < MaxChan /\ made' = made + 1 /\ UNCHANGED chan

\* create_queue: Flume and MPMC hand out the factory's own channel.
CreateQueue(t) ==
    LET c == IF crossfire THEN made' ELSE 0 IN
    /\ made < MaxChan /\ made' = made + 1
    /\ tchan' = [tchan EXCEPT ![t] = c] /\ routes' = [routes EXCEPT ![t] = c]
    /\ UNCHANGED chan

Accept(t, w) ==
    Len(sent) < MaxMsg /\ sent' = Append(sent, [topic |-> t, to |-> w])

\* The global producer: Crossfire's refuses a topic without a route, Flume's
\* and MPMC's take any topic.
Send(t, w) ==
    /\ Accept(t, w)
    /\ crossfire => routes[t] # 0
    /\ w # NoWorker => w \in DOMAIN worker /\ worker[w].topic = t
    /\ Put(routes[t], [id |-> Len(sent'), topic |-> t, to |-> w, hops |-> 0])
    /\ UNCHANGED <<backend, made, routes, topics, workers, tasks, admin,
                   settled>>

\* A "_system." message without a route is accepted and forgotten.
SendNowhere(t) ==
    /\ Accept(t, NoWorker) /\ t \in System /\ crossfire /\ routes[t] = 0
    /\ settled' = settled \cup {Len(sent')}
    /\ UNCHANGED <<backend, queues, topics, workers, tasks, admin>>
-----------------------------------------------------------------------------
(* Dispatchers *)

\* The workers of t whose inbox m may go to.
Choices(t, m) == {w \in names[t] \cap boxes : m.to \in {NoWorker, w}}

Claims(r, m) ==
    LET d == readers[r] IN
    d.back = << >> /\ Take(d.chan) /\ m = Head(chan[d.chan])
PutsBack(r, m) == readers' = [readers EXCEPT ![r].back = <<m>>]

\* Mutant: the nacked copy keeps the stamp of the worker that refused it.
Deliver_Stamped(r, w, m) ==
    /\ Claims(r, m) /\ w \in Choices(readers[r].topic, m)
    /\ IF Len(inbox[w]) < InboxCap
       THEN /\ inbox' = [inbox EXCEPT ![w] = Append(@, [m EXCEPT !.to = w])]
            /\ UNCHANGED readers
       ELSE PutsBack(r, [m EXCEPT !.to = w]) /\ UNCHANGED inbox
    /\ UNCHANGED <<backend, made, routes, topics, worker, index, boxes, main,
                   admin, hist>>

\* Deliver, then acknowledge; a full inbox, or no worker at all: nack.
Deliver(r, w, m) ==
    /\ Claims(r, m) /\ w \in Choices(readers[r].topic, m)
    /\ IF Len(inbox[w]) < InboxCap
       THEN /\ inbox' = [inbox EXCEPT ![w] = Append(@, [m EXCEPT !.to = w])]
            /\ UNCHANGED readers
       ELSE PutsBack(r, m) /\ UNCHANGED inbox
    /\ UNCHANGED <<backend, made, routes, topics, worker, index, boxes, main,
                   admin, hist>>

Nack(r, m) ==
    /\ Claims(r, m) /\ names[readers[r].topic] \cap boxes = {}
    /\ PutsBack(r, m)
    /\ UNCHANGED <<backend, made, routes, topics, workers, main, admin, hist>>

\* A target that is not here: one more hop, up to the cap.
Relay(r, m) ==
    LET t == readers[r].topic IN
    /\ Claims(r, m) /\ names[t] \cap boxes # {} /\ Choices(t, m) = {}
    /\ IF m.hops < Hops
       THEN PutsBack(r, [m EXCEPT !.hops = @ + 1]) /\ UNCHANGED settled
       ELSE Ends(m) /\ UNCHANGED readers
    /\ UNCHANGED <<backend, made, routes, topics, workers, main, admin,
                   sent>>

\* Mutant: the message is dropped when the channel is full.
SendBack_Drops(r) ==
    LET d == readers[r] IN
    /\ d.back # << >> /\ readers' = [readers EXCEPT ![r].back = << >>]
    /\ IF Room(d.chan) THEN Put(d.chan, Head(d.back)) ELSE UNCHANGED chan
    /\ UNCHANGED <<backend, made, routes, topics, workers, main, admin, hist>>

\* The sends of nack and of the relay wait for room.
SendBack(r) ==
    LET d == readers[r] IN
    /\ d.back # << >> /\ readers' = [readers EXCEPT ![r].back = << >>]
    /\ Put(d.chan, Head(d.back))
    /\ UNCHANGED <<backend, made, routes, topics, workers, main, admin, hist>>

\* A worker's inbox loop.
Handle(w) ==
    /\ inbox[w] # << >> /\ inbox' = [inbox EXCEPT ![w] = Tail(@)]
    /\ Ends(Head(inbox[w]))
    /\ UNCHANGED <<backend, queues, topics, worker, index, boxes, tasks,
                   admin, sent>>
-----------------------------------------------------------------------------
(* recv, the main loop: its channel stays empty on Crossfire. *)

Awake == main.want = 0 /\ main.batch # << >> /\ Free("topics")
First == Head(main.batch)
Local == First.topic \in reg
Rest == [main EXCEPT !.batch = Tail(@)]

\* claim_batch of Flume takes what is there; MPMC's counts what is there and
\* then waits until it has as many.
MainClaim ==
    LET k == IF Len(chan[0]) < Batch THEN Len(chan[0]) ELSE Batch IN
    /\ main.want = 0 /\ main.batch = << >> /\ main.nacks = << >> /\ k > 0
    /\ IF backend = "mpmc"
       THEN main' = [main EXCEPT !.want = k] /\ UNCHANGED chan
       ELSE /\ main' = [main EXCEPT !.batch = SubSeq(chan[0], 1, k)]
            /\ chan' = [chan EXCEPT ![0] = SubSeq(@, k + 1, Len(@))]
    /\ UNCHANGED <<backend, made, routes, topics, workers, readers, admin,
                   hist>>

MainTake ==
    /\ main.want > 0 /\ Take(0)
    /\ main' = [main EXCEPT !.want = @ - 1, !.batch = Append(@, Head(chan[0]))]
    /\ UNCHANGED <<backend, made, routes, topics, workers, readers, admin,
                   hist>>

\* A topic that is not registered: nack after the batch.
MainUnknown ==
    /\ Awake /\ ~Local /\ main' = [Rest EXCEPT !.nacks = Append(@, First)]
    /\ UNCHANGED <<backend, queues, topics, workers, readers, admin, hist>>

\* A target: through the worker's producer, or one hop on the topic's queue.
MainForward ==
    /\ Awake /\ Local /\ First.to # NoWorker /\ Free("index") /\ main' = Rest
    /\ \/ /\ First.to \in index /\ UNCHANGED settled
          /\ Put(worker[First.to].chan, First)
       \/ /\ First.to \notin index /\ First.hops < Hops /\ UNCHANGED settled
          /\ Put(tchan[First.topic], [First EXCEPT !.hops = @ + 1])
       \/ /\ First.to \notin index /\ First.hops >= Hops
          /\ Ends(First) /\ UNCHANGED chan
    /\ UNCHANGED <<backend, made, routes, topics, workers, readers, admin,
                   sent>>

\* No target: the idle pool is empty, since a worker with an inbox never
\* enters it, so an ephemeral worker of the topic handles the message, alone.
MainSpawn ==
    /\ Awake /\ Local /\ First.to = NoWorker /\ main' = Rest /\ Ends(First)
    /\ UNCHANGED <<backend, queues, topics, workers, readers, admin, sent>>

\* Mutant: only the first claim of the batch is nacked.
MainNack_First ==
    /\ main.want = 0 /\ main.batch = << >> /\ main.nacks # << >>
    /\ Put(0, Head(main.nacks)) /\ main' = [main EXCEPT !.nacks = << >>]
    /\ UNCHANGED <<backend, made, routes, topics, workers, readers, admin,
                   hist>>

\* nack of the refused messages, each waiting for room.
MainNack ==
    /\ main.want = 0 /\ main.batch = << >> /\ main.nacks # << >>
    /\ Put(0, Head(main.nacks)) /\ main' = [main EXCEPT !.nacks = Tail(@)]
    /\ UNCHANGED <<backend, made, routes, topics, workers, readers, admin,
                   hist>>
-----------------------------------------------------------------------------
(* Administration *)

Flow == UNCHANGED <<backend, chan, main, sent>>
Holds(c) == {l \in Lock : lock[l] = c}
Starts(c) ==
    Cardinality(calls) < MaxAtOnce /\ c \notin calls /\ calls' = calls \cup {c}
Counts == begun < MaxCalls /\ begun' = begun + 1
Returns(c) ==
    /\ c \in calls /\ Holds(c) = Lock /\ calls' = calls \ {c}
    /\ lock' = [l \in Lock |-> NoCall] /\ UNCHANGED begun

\* register: under local_topics alone.
Register(t) ==
    /\ t \notin reg /\ Free("topics") /\ CreateQueue(t) /\ reg' = reg \cup {t}
    /\ UNCHANGED <<names, enabled, workers, readers, admin, settled>> /\ Flow

\* create_worker reads the entry and builds the worker from it;
CreateWorker(t) ==
    LET w == Len(worker) + 1 IN
    /\ t \in reg /\ Free("topics") /\ w \in Worker
    /\ worker' = Append(worker, [topic |-> t, chan |-> tchan[t]])
    /\ Starts([at |-> "flag", w |-> w, t |-> t])
    /\ UNCHANGED <<made, routes, topics, index, boxes, inbox, readers, lock,
                   begun, spanned, settled>>
    /\ Flow

\* Whether the entry that the creation of w read is gone.
Spans(w, t) ==
    spanned' = IF t \in reg /\ worker[w].chan = tchan[t] THEN spanned
               ELSE spanned \cup {t}

Dispatcher(t, ch) == [topic |-> t, chan |-> ch, back |-> << >>]

\* then the inbox, and a dispatcher unless the topic is flagged to have one;
StartWorker(c) ==
    /\ c \in calls /\ c.at = "flag"
    /\ calls' = (calls \ {c}) \cup {[c EXCEPT !.at = "register"]}
    /\ boxes' = boxes \cup {c.w} /\ enabled' = enabled \cup {c.t}
    /\ readers' = IF c.t \in enabled THEN readers
                  ELSE Append(readers, Dispatcher(c.t, worker[c.w].chan))
    /\ Spans(c.w, c.t)
    /\ UNCHANGED <<made, routes, tchan, reg, names, worker, index, inbox, lock,
                   begun, settled>>
    /\ Flow

\* Mutant: get_workers takes the locks in the order of del_worker.
Order_Get(s) ==
    IF s \in {"unname", "get"} THEN <<"index", "topics">>
                               ELSE <<"topics", "index">>

\* The order in which a call takes the locks.
Order(s) ==
    IF s = "unname" THEN <<"index", "topics">> ELSE <<"topics", "index">>

\* The lock c waits for, if any.
Wants(c) ==
    IF c.at = "flag" THEN {}
    ELSE IF Holds(c) = {} THEN {Order(c.at)[1]}
    ELSE {Order(c.at)[2]} \ Holds(c)

Acquire(c, l) ==
    /\ c \in calls /\ l \in Wants(c) /\ Free(l)
    /\ lock' = [lock EXCEPT ![l] = c]
    /\ UNCHANGED <<made, routes, topics, workers, readers, calls, begun,
                   spanned, settled>>
    /\ Flow

\* and register_worker: in the index even when the topic is gone.
RegisterWorker(c) ==
    /\ c.at = "register" /\ Returns(c) /\ index' = index \cup {c.w}
    /\ names' = [t \in Topic |->
                    names[t] \cup IF t \in reg \cap {c.t} THEN {c.w} ELSE {}]
    /\ Spans(c.w, c.t)
    /\ UNCHANGED <<made, routes, tchan, reg, enabled, worker, boxes, inbox,
                   readers, settled>>
    /\ Flow

\* get_workers or del_workers has its first lock.
Begin(c) ==
    LET l == Order(c.at)[1] IN
    /\ Counts /\ Free(l) /\ c.t \in reg /\ Starts(c)
    /\ lock' = [lock EXCEPT ![l] = c]
    /\ UNCHANGED <<made, routes, topics, workers, readers, spanned, settled>>
    /\ Flow

GetWorkers(c) ==
    /\ c.at = "get" /\ Returns(c)
    /\ UNCHANGED <<made, routes, topics, workers, readers, spanned, settled>>
    /\ Flow

Ids(s) == {s[i].id : i \in DOMAIN s}

\* abort: the inbox goes, and with it what was in it.
Abort(S) ==
    /\ index' = index \ S /\ boxes' = boxes \ S
    /\ inbox' = [w \in Worker |-> IF w \in S THEN << >> ELSE inbox[w]]
    /\ settled' = settled \cup UNION {Ids(inbox[w]) : w \in S}

\* del_worker has the index and found the worker, before it waits for the
\* other lock; and after that.
DelWorker(w) ==
    LET c == [at |-> "unname", w |-> w, t |-> NoTopic]
        l == Order("unname")[1] IN
    /\ Counts /\ Free(l) /\ w \in index /\ Starts(c) /\ Abort({w})
    /\ lock' = [lock EXCEPT ![l] = c]
    /\ UNCHANGED <<made, routes, topics, worker, readers, spanned>>
    /\ Flow

Unname(c) ==
    /\ c.at = "unname" /\ Returns(c)
    /\ names' = [t \in Topic |-> names[t] \ {c.w}]
    /\ UNCHANGED <<made, routes, tchan, reg, enabled, workers, readers,
                   spanned, settled>>
    /\ Flow

\* Mutant: the flag stays when the topic goes.
DelWorkers_KeepFlag(c) ==
    /\ c.at = "purge" /\ Returns(c)
    /\ Abort(IF c.t \in reg THEN names[c.t] \cap index ELSE {})
    /\ reg' = reg \ {c.t} /\ names' = [names EXCEPT ![c.t] = {}]
    /\ UNCHANGED <<made, routes, tchan, enabled, worker, readers, spanned>>
    /\ Flow

\* del_workers: the topic goes; its dispatcher and its route stay.
DelWorkers(c) ==
    /\ c.at = "purge" /\ Returns(c)
    /\ Abort(IF c.t \in reg THEN names[c.t] \cap index ELSE {})
    /\ reg' = reg \ {c.t} /\ names' = [names EXCEPT ![c.t] = {}]
    /\ enabled' = enabled \ {c.t}
    /\ UNCHANGED <<made, routes, tchan, worker, readers, spanned>>
    /\ Flow
-----------------------------------------------------------------------------
ReaderLoop(r) ==
    \/ SendBack(r)
    \/ \E i \in DOMAIN chan[readers[r].chan] :
         LET m == chan[readers[r].chan][i] IN
         Nack(r, m) \/ Relay(r, m) \/ \E w \in Worker : Deliver(r, w, m)

Recv == \/ MainClaim \/ MainTake \/ MainUnknown \/ MainForward
        \/ MainSpawn \/ MainNack

Continue(c) ==
    \/ StartWorker(c) \/ RegisterWorker(c) \/ GetWorkers(c) \/ Unname(c)
    \/ DelWorkers(c) \/ \E l \in Lock : Acquire(c, l)

Next ==
    \/ \E t \in Topic : SendNowhere(t) \/ Register(t) \/ CreateWorker(t)
    \/ \E t \in Topic, w \in 0 .. MaxWorker : Send(t, w)
    \/ \E r \in DOMAIN readers : ReaderLoop(r)
    \/ \E w \in Worker : Handle(w) \/ DelWorker(w)
    \/ Recv
    \/ \E c \in calls : Continue(c)
    \/ \E s \in {"get", "purge"}, t \in Topic :
          Begin([at |-> s, w |-> NoWorker, t |-> t])

Spec == Init /\ [][Next]_vars

\* Every task that can run is polled eventually and every handler returns;
\* nothing makes anyone send, register, create or delete.
Fairness ==
    /\ WF_vars(Recv)
    /\ \A r \in Worker : WF_vars(r \in DOMAIN readers /\ ReaderLoop(r))
    /\ \A w \in Worker : WF_vars(Handle(w))
    /\ WF_vars(\E c \in calls : Continue(c))

FairSpec == Spec /\ Fairness
-----------------------------------------------------------------------------
(* Properties *)

OnChan == UNION {Ids(chan[c]) : c \in Channel}
InBox == UNION {Ids(inbox[w]) : w \in Worker}
InHand == UNION {Ids(readers[r].back) : r \in DOMAIN readers}
Somewhere == OnChan \cup InBox \cup InHand
               \cup Ids(main.batch) \cup Ids(main.nacks)

\* On every backend, an accepted message is in a channel, in a reader's hands,
\* or in an inbox until it is handled, dropped at the hop cap, accepted
\* without a route, or aborted with its worker: no registration, deletion or
\* nack between two readers forgets one.
Accounted == DOMAIN sent \subseteq Somewhere \cup settled

\* On Crossfire a message only ever reaches its own topic's workers,
\* also after the topic was deleted and registered again.
RightTopic ==
    crossfire => \A w \in Worker : \A i \in DOMAIN inbox[w] :
                     inbox[w][i].topic = worker[w].topic

\* On a channel, a message carries the address it was sent with: neither a
\* nack after an inbox refused it, nor a relay, nor recv leaves a stamp that
\* would bind an unaddressed message to a worker.
KeepsAddress ==
    \A c \in Channel : \A i \in DOMAIN chan[c] :
        chan[c][i].to = sent[chan[c][i].id].to

Served(t) == {r \in DOMAIN readers : readers[r].chan = tchan[t]}

\* The dispatcher is "the sole reader of a topic's queue while any of this
\* node's workers is alive": on Crossfire, a registered topic with a worker
\* has one dispatcher, on the channel senders are routed to, whatever was
\* deleted and registered before, unless a create_worker spanned a deletion
\* of the topic, and flagged or joined a queue other than the one it read.
OneReader ==
    crossfire => \A t \in reg : names[t] # {} /\ t \notin spanned =>
        routes[t] = tchan[t] /\ \E r \in Served(t) : Served(t) = {r}

Crossed(c, d) ==
    /\ \E l \in Wants(c) : lock[l] = d
    /\ \E l \in Wants(d) : lock[l] = c

\* Two administrative calls wait for each other only if one is del_worker,
\* the one call that takes worker_index before local_topics.
OnlyDelCrosses ==
    \A c, d \in calls : Crossed(c, d) => "unname" \in {c.at, d.at}

\* A dispatcher that has message i, in hand or on its channel, waits to put a
\* message back into that channel, which is full.
Wedged(i) ==
    \E r \in DOMAIN readers :
        LET d == readers[r] IN
        /\ d.back # << >> /\ ~Room(d.chan)
        /\ i \in Ids(d.back) \cup Ids(chan[d.chan])

\* Message i was left on the queue of a deleted topic that had no dispatcher.
Stranded(i) ==
    \E c \in Channel :
        /\ i \in Ids(chan[c]) /\ c # tchan[sent[i].topic]
        /\ \A r \in DOMAIN readers : readers[r].chan # c

\* On Crossfire a blocked consumer does not affect other topics: while a topic
\* has a dispatcher and a worker, its messages are handled or given up,
\* whatever another topic's wedged dispatcher or two deadlocked
\* administrative calls do.  Only its own dispatcher, waiting to put a message
\* back into its full channel, or a deletion before it had one can stop them.
Isolated ==
    \A i \in 1 .. MaxMsg :
        []<>(\/ ~crossfire \/ i \notin DOMAIN sent \/ i \in settled
             \/ Stranded(i) \/ Wedged(i)
             \/ LET t == sent[i].topic IN
                \/ t \notin reg \/ names[t] \cap boxes = {}
                \/ t \in spanned)
=============================================================================
