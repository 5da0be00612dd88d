------------------------------ MODULE Dispatch ------------------------------
(***************************************************************************)
(* One business topic of the bus: its queue, the dispatcher loop of every  *)
(* node (ConsumerRouter::spawn_topic_dispatcher), the inboxes and loops of *)
(* the workers (Worker::start, process_msg), worker creation and deletion  *)
(* (create_worker, register_worker, del_worker), the delay scheduler, and  *)
(* the loss of a node's memory on a shared, durable queue backend.         *)
(*                                                                         *)
(* The queue is seen through EProducer and EConsumer.  Crossfire is a      *)
(* bounded channel inside one process: QueueCap bites, nothing fails.      *)
(* Redis Streams is shared by several nodes: XADD never blocks (QueueCap   *)
(* is above what a run can hold), calls may fail, nodes may crash, and a   *)
(* claim that is never acknowledged stays in the group's pending list.     *)
(*                                                                         *)
(* Round-robin over the cached workers is abstracted to "any cached        *)
(* worker"; timers (reap interval, sleeps, deliver_at) to "some time".     *)
(* to_worker is the worker it resolves to: a bare name matches the same    *)
(* single worker as its node-qualified form.  Delayed messages are in one  *)
(* WAL, the process's own or the RedisWal the nodes share, and the Host    *)
(* process that runs the delay scheduler does not crash here.  A consumer  *)
(* is never idle long enough (TOPIC_REAP_MIN_IDLE) to be robbed of a claim *)
(* it still knows.                                                         *)
(***************************************************************************)
EXTENDS Integers, Sequences

CONSTANTS
    Node,          \* processes sharing the topic's queue
    Worker,        \* worker names; a name is used for one worker, ever
    Home,          \* Home[w]: the node whose name qualifies w
    Boot,          \* the workers created at start-up and never deleted
    Id,            \* message ids
    Targets,       \* values to_worker may have when a message is sent
    Repeated,      \* the ids sent with DeliveryMode::Repeated
    Times,         \* Times[i]: the count of Repeated(count)
    CountMod,      \* 2^32 in the code: consumed_count is a u32
    MaxHops,       \* MAX_TARGETED_HOPS, 64 in the code
    RetryLimits,   \* values of max_retries a handler may return
    QueueCap,      \* capacity of the topic's channel
    InboxCap,      \* capacity of a worker's inbox (batch_size * 4)
    MaxCrashes,    \* bound on node crashes
    MaxFaults,     \* bound on failed backend calls
    NoWorker,      \* to_worker = None
    NoMsg          \* no message held

Fate == {"done", "dead", "exhausted", "dropped", "lost"}
Msg == [id : Id, to : Worker \cup {NoWorker}, attempts : Nat, consumed : Nat]

ASSUME ConstantsAssumption ==
    /\ Home \in [Worker -> Node]
    /\ Boot \subseteq Worker
    /\ Targets \subseteq Worker \cup {NoWorker}
    /\ NoWorker \notin Worker
    /\ NoMsg \notin Msg
    /\ Repeated \subseteq Id
    /\ CountMod \in Nat \ {0}
    /\ Times \in [Repeated -> 0 .. CountMod - 1]
    /\ MaxHops \in Nat
    /\ RetryLimits \subseteq Nat
    /\ QueueCap \in Nat \ {0}
    /\ InboxCap \in Nat \ {0}
    /\ MaxCrashes \in Nat
    /\ MaxFaults \in Nat

VARIABLES
    queue,       \* the topic's queue
    orphans,     \* pending-list entries whose consumer no longer knows them
    delayed,     \* messages scheduled in the WAL, one per message id
    firing,      \* records fetch_ready has handed to the scheduler
    pc,          \* pc[n]: where n's dispatcher is ("off" before it is spawned)
    held,        \* held[n]: the message n's dispatcher works on
    reclaimed,   \* reclaimed[n]: stale claims waiting in n's dispatcher
    loaded,      \* loaded[n]: current_generation of the iteration
    seen,        \* seen[n]: seen_generation, NoGen for u64::MAX
    cached,      \* cached[n]: cached_workers
    names,       \* names[n]: dispatch_workers[topic]
    gen,         \* gen[n]: dispatch_generation
    inboxes,     \* workers with a sender in their node's local_inboxes
    admin,       \* admin[n]: the create_worker or del_worker in progress
    task,        \* task[w]: life cycle of w's task and channel
    inbox,       \* inbox[w]: the channel of w
    cur,         \* cur[w]: the message w processes
    wpc,         \* wpc[w]: "idle", "run" (pipeline), "send" (requeueing)
    sent,        \* history: ids accepted by the queue or the WAL
    target,      \* history: target[i] is the to_worker i was sent with
    acks,        \* history: acks[i] handler runs that returned Ack
    ackedBy,     \* history: the workers whose handler returned Ack
    fate,        \* history: how copies of i ended
    crashes, faults

busVars   == <<queue, orphans, delayed, firing>>
dispVars  == <<pc, held, reclaimed, loaded, seen, cached>>
adminVars == <<names, gen, inboxes, admin, task>>
workVars  == <<inbox, cur, wpc>>
histVars  == <<sent, target, acks, ackedBy, fate>>
vars == <<busVars, dispVars, adminVars, workVars, histVars, crashes, faults>>

NoGen == -1
Idle == [op |-> "idle", w |-> NoWorker]
DispatcherPC == {"off", "claim", "load", "read", "filter", "route", "nack",
                 "ack", "relay"}

\* Program points where the dispatcher holds the only copy it knows of; at
\* "ack" the message is already in an inbox, back on the queue, or dropped.
Holding == {"load", "read", "filter", "route", "nack", "relay"}
\* Program points at which the claim is still in the pending list.
Claimed == (Holding \ {"relay"}) \cup {"ack"}

BusType ==
    /\ queue \in Seq(Msg) /\ orphans \in Seq(Msg)
    /\ delayed \in SUBSET Msg /\ firing \in SUBSET Msg

DispType ==
    /\ pc \in [Node -> DispatcherPC]
    /\ held \in [Node -> Msg \cup {NoMsg}]
    /\ \A n \in Node : pc[n] \notin {"off", "claim"} => held[n] \in Msg
    /\ reclaimed \in [Node -> Seq(Msg)]
    /\ loaded \in [Node -> Nat]
    /\ seen \in [Node -> Nat \cup {NoGen}]
    /\ cached \in [Node -> SUBSET Worker]

AdminType ==
    /\ names \in [Node -> SUBSET Worker]
    /\ gen \in [Node -> Nat]
    /\ inboxes \in SUBSET Worker
    /\ admin \in [Node -> [op : {"idle", "register", "delinbox", "delnames"},
                           w : Worker \cup {NoWorker}]]
    /\ task \in [Worker -> {"none", "run", "aborted", "cancelled", "gone"}]

WorkType ==
    /\ inbox \in [Worker -> Seq(Msg)]
    /\ cur \in [Worker -> Msg \cup {NoMsg}]
    /\ wpc \in [Worker -> {"idle", "run", "send"}]
    /\ \A w \in Worker : (wpc[w] = "idle") <=> (cur[w] = NoMsg)

HistType ==
    /\ sent \in SUBSET Id
    /\ target \in [Id -> Worker \cup {NoWorker}]
    /\ acks \in [Id -> Nat]
    /\ ackedBy \in [Id -> SUBSET Worker]
    /\ fate \in [Id -> SUBSET Fate]
    /\ crashes \in 0 .. MaxCrashes /\ faults \in 0 .. MaxFaults

TypeOK == BusType /\ DispType /\ AdminType /\ WorkType /\ HistType

Init ==
    /\ queue = <<>> /\ orphans = <<>> /\ delayed = {} /\ firing = {}
    /\ pc = [n \in Node |-> "off"]
    /\ held = [n \in Node |-> NoMsg]
    /\ reclaimed = [n \in Node |-> <<>>]
    /\ loaded = [n \in Node |-> 0]
    /\ seen = [n \in Node |-> NoGen]
    /\ cached = [n \in Node |-> {}]
    /\ names = [n \in Node |-> {}]
    /\ gen = [n \in Node |-> 0]
    /\ inboxes = {}
    /\ admin = [n \in Node |-> Idle]
    /\ task = [w \in Worker |-> "none"]
    /\ inbox = [w \in Worker |-> <<>>]
    /\ cur = [w \in Worker |-> NoMsg]
    /\ wpc = [w \in Worker |-> "idle"]
    /\ sent = {}
    /\ target = [i \in Id |-> NoWorker]
    /\ acks = [i \in Id |-> 0]
    /\ ackedBy = [i \in Id |-> {}]
    /\ fate = [i \in Id |-> {}]
    /\ crashes = 0 /\ faults = 0
-----------------------------------------------------------------------------
(* Helpers *)

Room == Len(queue) < QueueCap

NewMsg(i, t) == [id |-> i, to |-> t, attempts |-> 0, consumed |-> 0]

Stamped(m, w) == [m EXCEPT !.to = w]
Attempted(m) == [m EXCEPT !.attempts = @ + 1]
Consumed(m) == [m EXCEPT !.consumed = (@ + 1) % CountMod]

Ids(s) == {s[k].id : k \in DOMAIN s}

\* The copies of S are gone for the reason f.
Settle(S, f) ==
    fate' = [i \in Id |-> IF i \in S THEN fate[i] \cup {f} ELSE fate[i]]

\* Wal::schedule keys the delayed records by message id.
Schedule(m) == delayed' = {d \in delayed : d.id # m.id} \cup {m}

\* A failed call to the backend.
Fault == faults < MaxFaults /\ faults' = faults + 1
-----------------------------------------------------------------------------
(* Producers: TopicRouter::send *)

Send(i, t) ==
    /\ i \notin sent
    /\ Room
    /\ queue' = Append(queue, NewMsg(i, t))
    /\ sent' = sent \cup {i}
    /\ target' = [target EXCEPT ![i] = t]
    /\ UNCHANGED <<orphans, delayed, firing, dispVars, adminVars, workVars,
                   acks, ackedBy, fate, crashes, faults>>

SendDelayed(i, t) ==
    /\ i \notin sent
    /\ Schedule(NewMsg(i, t))
    /\ sent' = sent \cup {i}
    /\ target' = [target EXCEPT ![i] = t]
    /\ UNCHANGED <<queue, orphans, firing, dispVars, adminVars, workVars,
                   acks, ackedBy, fate, crashes, faults>>

-----------------------------------------------------------------------------
(* The Host's delay scheduler: TopicRouter::run_delay_scheduler *)

FetchReady ==
    /\ firing = {}
    /\ \E S \in SUBSET delayed :
          /\ S # {}
          /\ firing' = S
          /\ delayed' = delayed \ S
    /\ UNCHANGED <<queue, orphans, dispVars, adminVars, workVars, histVars,
                   crashes, faults>>

FireDelayed(m) ==
    /\ m \in firing
    /\ firing' = firing \ {m}
    /\ \/ /\ Room
          /\ queue' = Append(queue, m)
          /\ UNCHANGED <<fate, faults>>
       \/ /\ Fault
          /\ Settle({m.id}, "lost")
          /\ UNCHANGED queue
    /\ UNCHANGED <<orphans, delayed, dispVars, adminVars, workVars,
                   sent, target, acks, ackedBy, crashes>>

-----------------------------------------------------------------------------
(* The dispatcher of node n: ConsumerRouter::spawn_topic_dispatcher *)

\* Mutant: the reclaimed entries are not kept.
ClaimStale_Forget(n) ==
    /\ pc[n] = "claim"
    /\ orphans # <<>>
    /\ orphans' = <<>>
    /\ UNCHANGED <<queue, delayed, firing, dispVars, adminVars, workVars,
                   histVars, crashes, faults>>

\* The periodic sweep of the pending list.
ClaimStale(n) ==
    /\ pc[n] = "claim"
    /\ orphans # <<>>
    /\ reclaimed' = [reclaimed EXCEPT ![n] = @ \o orphans]
    /\ orphans' = <<>>
    /\ UNCHANGED <<queue, delayed, firing, pc, held, loaded, seen, cached,
                   adminVars, workVars, histVars, crashes, faults>>

\* Reclaimed entries are drained ahead of fresh claims.
Claim(n) ==
    /\ pc[n] = "claim"
    /\ \/ /\ reclaimed[n] # <<>>
          /\ held' = [held EXCEPT ![n] = Head(reclaimed[n])]
          /\ reclaimed' = [reclaimed EXCEPT ![n] = Tail(@)]
          /\ UNCHANGED queue
       \/ /\ reclaimed[n] = <<>>
          /\ queue # <<>>
          /\ held' = [held EXCEPT ![n] = Head(queue)]
          /\ queue' = Tail(queue)
          /\ UNCHANGED reclaimed
    /\ pc' = [pc EXCEPT ![n] = "load"]
    /\ UNCHANGED <<orphans, delayed, firing, loaded, seen, cached, adminVars,
                   workVars, histVars, crashes, faults>>

LoadGeneration(n) ==
    /\ pc[n] = "load"
    /\ loaded' = [loaded EXCEPT ![n] = gen[n]]
    /\ pc' = [pc EXCEPT ![n] =
                 IF gen[n] # seen[n] \/ cached[n] = {} THEN "read" ELSE "route"]
    /\ UNCHANGED <<busVars, held, reclaimed, seen, cached, adminVars, workVars,
                   histVars, crashes, faults>>

\* worker_names: the names under the dispatch_workers lock ...
ReadNames(n) ==
    /\ pc[n] = "read"
    /\ cached' = [cached EXCEPT ![n] = names[n]]
    /\ pc' = [pc EXCEPT ![n] = "filter"]
    /\ UNCHANGED <<busVars, held, reclaimed, loaded, seen, adminVars, workVars,
                   histVars, crashes, faults>>

\* ... then the senders still present in local_inboxes.
FilterInboxes(n) ==
    /\ pc[n] = "filter"
    /\ cached' = [cached EXCEPT ![n] = @ \cap inboxes]
    /\ seen' = [seen EXCEPT ![n] = loaded[n]]
    /\ pc' = [pc EXCEPT ![n] = IF cached[n] \cap inboxes = {} THEN "nack"
                                                           ELSE "route"]
    /\ UNCHANGED <<busVars, held, reclaimed, loaded, adminVars, workVars,
                   histVars, crashes, faults>>

\* Mutant: a pre-set target is overwritten.
Selects_AnyWorker(n, w) == w \in cached[n]

\* w is the local match of a targeted message, or the turn of an untargeted one.
Selects(n, w) == w \in cached[n] /\ held[n].to \in {w, NoWorker}

Accepts(w) == task[w] # "gone" /\ Len(inbox[w]) < InboxCap

\* Mutant: the message is not stamped.
Deliver_Unstamped(n, w) ==
    /\ pc[n] = "route"
    /\ Selects(n, w)
    /\ Accepts(w)
    /\ inbox' = [inbox EXCEPT ![w] = Append(@, held[n])]
    /\ pc' = [pc EXCEPT ![n] = "ack"]
    /\ UNCHANGED <<busVars, held, reclaimed, loaded, seen, cached, adminVars,
                   cur, wpc, histVars, crashes, faults>>

Deliver(n, w) ==
    /\ pc[n] = "route"
    /\ Selects(n, w)
    /\ Accepts(w)
    /\ inbox' = [inbox EXCEPT ![w] = Append(@, Stamped(held[n], w))]
    /\ pc' = [pc EXCEPT ![n] = "ack"]
    /\ UNCHANGED <<busVars, held, reclaimed, loaded, seen, cached, adminVars,
                   cur, wpc, histVars, crashes, faults>>

\* try_send found the inbox full or closed: requeue, forget the cache.
Refused(n, w) ==
    /\ pc[n] = "route"
    /\ Selects(n, w)
    /\ ~ Accepts(w)
    /\ seen' = [seen EXCEPT ![n] = NoGen]
    /\ pc' = [pc EXCEPT ![n] = "nack"]
    /\ UNCHANGED <<busVars, held, reclaimed, loaded, cached, adminVars,
                   workVars, histVars, crashes, faults>>

Misses(n) == held[n].to # NoWorker /\ held[n].to \notin cached[n]

DropMiss(n) ==
    /\ pc[n] = "route"
    /\ Misses(n)
    /\ held[n].attempts >= MaxHops
    /\ Settle({held[n].id}, "dropped")
    /\ pc' = [pc EXCEPT ![n] = "ack"]
    /\ UNCHANGED <<busVars, held, reclaimed, loaded, seen, cached, adminVars,
                   workVars, sent, target, acks, ackedBy, crashes, faults>>

\* Mutant: the hop is not counted.
RelayMiss_Uncounted(n) ==
    /\ pc[n] = "route"
    /\ Misses(n)
    /\ held[n].attempts < MaxHops
    /\ pc' = [pc EXCEPT ![n] = "relay"]
    /\ UNCHANGED <<busVars, held, reclaimed, loaded, seen, cached, adminVars,
                   workVars, histVars, crashes, faults>>

\* Mutant: one relay past the cap.
RelayMiss_OneTooMany(n) ==
    /\ pc[n] = "route"
    /\ Misses(n)
    /\ held[n].attempts <= MaxHops
    /\ held' = [held EXCEPT ![n] = Attempted(@)]
    /\ pc' = [pc EXCEPT ![n] = "relay"]
    /\ UNCHANGED <<busVars, reclaimed, loaded, seen, cached, adminVars,
                   workVars, histVars, crashes, faults>>

\* Ack, then re-inject: between the two the message is in memory only.  The
\* ack's own failure is ignored, and leaves the claim in the pending list.
RelayMiss(n) ==
    /\ pc[n] = "route"
    /\ Misses(n)
    /\ held[n].attempts < MaxHops
    /\ held' = [held EXCEPT ![n] = Attempted(@)]
    /\ pc' = [pc EXCEPT ![n] = "relay"]
    /\ \/ UNCHANGED <<orphans, faults>>
       \/ Fault /\ orphans' = Append(orphans, held[n])
    /\ UNCHANGED <<queue, delayed, firing, reclaimed, loaded, seen, cached,
                   adminVars, workVars, histVars, crashes>>

\* Back to the top of the loop.
NextClaim(n) ==
    /\ pc' = [pc EXCEPT ![n] = "claim"]
    /\ held' = [held EXCEPT ![n] = NoMsg]
    /\ UNCHANGED <<delayed, firing, reclaimed, loaded, seen, cached, adminVars,
                   workVars, sent, target, acks, ackedBy, crashes>>

\* The sent copy goes back on the queue; a failed send is only logged.
Relay(n) ==
    /\ pc[n] = "relay"
    /\ NextClaim(n)
    /\ \/ /\ Room
          /\ queue' = Append(queue, held[n])
          /\ UNCHANGED <<fate, faults>>
       \/ /\ Fault
          /\ Settle({held[n].id}, "lost")
          /\ UNCHANGED queue
    /\ UNCHANGED orphans

\* Mutant: the loop goes on with the message it has just requeued.
Nack_Continues(n) ==
    /\ pc[n] = "nack"
    /\ Room
    /\ queue' = Append(queue, held[n])
    /\ pc' = [pc EXCEPT ![n] = "route"]
    /\ UNCHANGED <<orphans, delayed, firing, held, reclaimed, loaded, seen,
                   cached, adminVars, workVars, histVars, crashes, faults>>

\* EConsumer::nack: put the claimed message back, then release the claim.
Nack(n) ==
    /\ pc[n] = "nack"
    /\ Room
    /\ queue' = Append(queue, held[n])
    /\ pc' = [pc EXCEPT ![n] = "ack"]
    /\ UNCHANGED <<orphans, delayed, firing, held, reclaimed, loaded, seen,
                   cached, adminVars, workVars, histVars, crashes, faults>>

NackFails(n) ==
    /\ pc[n] = "nack"
    /\ Fault
    /\ orphans' = Append(orphans, held[n])
    /\ NextClaim(n)
    /\ UNCHANGED <<queue, fate>>

\* EConsumer::ack; the dispatcher ignores its failure.
Ack(n) ==
    /\ pc[n] = "ack"
    /\ NextClaim(n)
    /\ \/ UNCHANGED <<orphans, faults>>
       \/ Fault /\ orphans' = Append(orphans, held[n])
    /\ UNCHANGED <<queue, fate>>
-----------------------------------------------------------------------------
(* Worker w: Worker::start (inbox loop) and Worker::process_msg.  Every     *)
(* inbox message is stamped for its worker (see InboxAddressed), so the     *)
(* loop's is_misrouted branch is never taken and has no action.             *)

\* An aborted task may run on until its next suspension point.
Running(w) == task[w] \in {"run", "aborted"}

Receive(w) ==
    /\ Running(w)
    /\ wpc[w] = "idle"
    /\ inbox[w] # <<>>
    /\ cur' = [cur EXCEPT ![w] = Head(inbox[w])]
    /\ inbox' = [inbox EXCEPT ![w] = Tail(@)]
    /\ wpc' = [wpc EXCEPT ![w] = "run"]
    /\ UNCHANGED <<busVars, dispVars, adminVars, histVars, crashes, faults>>

\* process_msg has returned: the worker keeps nothing of the message.
Finish(w) ==
    /\ cur' = [cur EXCEPT ![w] = NoMsg]
    /\ wpc' = [wpc EXCEPT ![w] = "idle"]
    /\ UNCHANGED <<inbox, queue, orphans, firing, dispVars, adminVars, sent,
                   target, crashes>>

\* process_msg goes on to producer.send(m).
SendBack(w, m) ==
    /\ cur' = [cur EXCEPT ![w] = m]
    /\ wpc' = [wpc EXCEPT ![w] = "send"]
    /\ UNCHANGED <<inbox, queue, orphans, firing, dispVars, adminVars, sent,
                   target, crashes>>

\* Mutant: the count is compared before this run is added to it.
HandlerAck_OffByOne(w) ==
    LET m == Consumed(cur[w])
    IN  /\ Running(w)
        /\ wpc[w] = "run"
        /\ acks' = [acks EXCEPT ![m.id] = @ + 1]
        /\ ackedBy' = [ackedBy EXCEPT ![m.id] = @ \cup {w}]
        /\ IF m.id \in Repeated /\ cur[w].consumed # Times[m.id]
           THEN SendBack(w, m) /\ UNCHANGED fate
           ELSE Finish(w) /\ Settle({m.id}, "done")
        /\ UNCHANGED <<delayed, faults>>

HandlerAck(w) ==
    LET m == Consumed(cur[w])
    IN  /\ Running(w)
        /\ wpc[w] = "run"
        /\ acks' = [acks EXCEPT ![m.id] = @ + 1]
        /\ ackedBy' = [ackedBy EXCEPT ![m.id] = @ \cup {w}]
        /\ IF m.id \in Repeated /\ m.consumed # Times[m.id]
           THEN SendBack(w, m) /\ UNCHANGED fate
           ELSE Finish(w) /\ Settle({m.id}, "done")
        /\ UNCHANGED <<delayed, faults>>

\* Mutant: the dead-lettered message is requeued as well.
HandlerNoAck_NoReturn(w, retry, later) ==
    LET m == Attempted(cur[w])
    IN  /\ Running(w)
        /\ wpc[w] = "run"
        /\ SendBack(w, m)
        /\ Settle(IF m.attempts >= retry THEN {m.id} ELSE {}, "exhausted")
        /\ UNCHANGED <<delayed, acks, ackedBy, faults>>

\* retry is max_retries; later says whether retry_after is given.
HandlerNoAck(w, retry, later) ==
    LET m == Attempted(cur[w])
    IN  /\ Running(w)
        /\ wpc[w] = "run"
        /\ \/ /\ m.attempts >= retry
              /\ Finish(w)
              /\ Settle({m.id}, "exhausted")
              /\ UNCHANGED delayed
           \/ /\ m.attempts < retry
              /\ later
              /\ Finish(w)
              /\ Schedule(m)
              /\ UNCHANGED fate
           \/ /\ m.attempts < retry
              /\ ~ later
              /\ SendBack(w, m)
              /\ UNCHANGED <<delayed, fate>>
        /\ UNCHANGED <<acks, ackedBy, faults>>

\* Ack::Dead, or the worker's time_out elapsed.
HandlerDead(w) ==
    /\ Running(w)
    /\ wpc[w] = "run"
    /\ Finish(w)
    /\ Settle({cur[w].id}, "dead")
    /\ UNCHANGED <<delayed, acks, ackedBy, faults>>

\* A call process_msg depends on failed before the handler ran (mark_processing)
\* or after it returned (mark_complete, mark_pending, the WAL record of a retry,
\* the dead letter): process_msg returns the error, which is only logged.
ProcessFails(w) ==
    LET i == cur[w].id
    IN  /\ Running(w)
        /\ wpc[w] = "run"
        /\ Fault
        /\ \/ UNCHANGED <<acks, ackedBy>>
           \/ /\ acks' = [acks EXCEPT ![i] = @ + 1]
              /\ ackedBy' = [ackedBy EXCEPT ![i] = @ \cup {w}]
        /\ Finish(w)
        /\ Settle({i}, "lost")
        /\ UNCHANGED delayed

\* Mutant: the worker keeps the message it has sent back.
Requeue_Kept(w) ==
    /\ Running(w)
    /\ wpc[w] = "send"
    /\ Room
    /\ queue' = Append(queue, cur[w])
    /\ wpc' = [wpc EXCEPT ![w] = "idle"]
    /\ UNCHANGED <<orphans, delayed, firing, dispVars, adminVars, inbox, cur,
                   histVars, crashes, faults>>

Requeue(w) ==
    /\ Running(w)
    /\ wpc[w] = "send"
    /\ Room
    /\ queue' = Append(queue, cur[w])
    /\ cur' = [cur EXCEPT ![w] = NoMsg]
    /\ wpc' = [wpc EXCEPT ![w] = "idle"]
    /\ UNCHANGED <<orphans, delayed, firing, dispVars, adminVars, inbox,
                   histVars, crashes, faults>>

RequeueFails(w) ==
    /\ Running(w)
    /\ wpc[w] = "send"
    /\ Fault
    /\ Finish(w)
    /\ Settle({cur[w].id}, "lost")
    /\ UNCHANGED <<delayed, acks, ackedBy>>

-----------------------------------------------------------------------------
(* Worker creation and deletion on w's node.  Callers hold the router's     *)
(* write lock, so at most one of them is in progress per node.              *)

\* create_worker: the inbox, the topic's dispatcher, the worker's task.
CreateWorker(w) ==
    LET n == Home[w]
    IN  /\ task[w] = "none"
        /\ admin[n] = Idle
        /\ inboxes' = inboxes \cup {w}
        /\ pc' = [pc EXCEPT ![n] = IF @ = "off" THEN "claim" ELSE @]
        /\ task' = [task EXCEPT ![w] = "run"]
        /\ admin' = [admin EXCEPT ![n] = [op |-> "register", w |-> w]]
        /\ UNCHANGED <<busVars, held, reclaimed, loaded, seen, cached, names,
                       gen, workVars, histVars, crashes, faults>>

\* register_worker: the name and the generation under one lock.
RegisterWorker(w) ==
    LET n == Home[w]
    IN  /\ admin[n] = [op |-> "register", w |-> w]
        /\ names' = [names EXCEPT ![n] = @ \cup {w}]
        /\ gen' = [gen EXCEPT ![n] = @ + 1]
        /\ admin' = [admin EXCEPT ![n] = Idle]
        /\ UNCHANGED <<busVars, dispVars, inboxes, task, workVars, histVars,
                       crashes, faults>>

\* del_worker: abort the task, ...
DelWorker(w) ==
    LET n == Home[w]
    IN  /\ w \in names[n] \ Boot
        /\ admin[n] = Idle
        /\ task' = [task EXCEPT ![w] = "aborted"]
        /\ admin' = [admin EXCEPT ![n] = [op |-> "delinbox", w |-> w]]
        /\ UNCHANGED <<busVars, dispVars, names, gen, inboxes, workVars,
                       histVars, crashes, faults>>

\* ... remove the sender, ...
DelInbox(w) ==
    LET n == Home[w]
    IN  /\ admin[n] = [op |-> "delinbox", w |-> w]
        /\ inboxes' = inboxes \ {w}
        /\ admin' = [admin EXCEPT ![n] = [op |-> "delnames", w |-> w]]
        /\ UNCHANGED <<busVars, dispVars, names, gen, task, workVars, histVars,
                       crashes, faults>>

\* Mutant: the generation is not bumped.
DelNames_NoBump(w) ==
    LET n == Home[w]
    IN  /\ admin[n] = [op |-> "delnames", w |-> w]
        /\ names' = [names EXCEPT ![n] = @ \ {w}]
        /\ admin' = [admin EXCEPT ![n] = Idle]
        /\ UNCHANGED <<busVars, dispVars, gen, inboxes, task, workVars,
                       histVars, crashes, faults>>

\* ... then the name and the generation under one lock.
DelNames(w) ==
    LET n == Home[w]
    IN  /\ admin[n] = [op |-> "delnames", w |-> w]
        /\ names' = [names EXCEPT ![n] = @ \ {w}]
        /\ gen' = [gen EXCEPT ![n] = @ + 1]
        /\ admin' = [admin EXCEPT ![n] = Idle]
        /\ UNCHANGED <<busVars, dispVars, inboxes, task, workVars, histVars,
                       crashes, faults>>

\* The aborted task reaches a suspension point and is dropped.
CancelTask(w) ==
    /\ task[w] = "aborted"
    /\ task' = [task EXCEPT ![w] = "cancelled"]
    /\ cur' = [cur EXCEPT ![w] = NoMsg]
    /\ wpc' = [wpc EXCEPT ![w] = "idle"]
    /\ Settle(IF wpc[w] = "idle" THEN {} ELSE {cur[w].id}, "lost")
    /\ UNCHANGED <<busVars, dispVars, names, gen, inboxes, admin, inbox, sent,
                   target, acks, ackedBy, crashes, faults>>

\* The last Arc<Worker>, held by del_worker to its end, drops the receiver.
CloseInbox(w) ==
    /\ task[w] = "cancelled"
    /\ admin[Home[w]].w # w
    /\ task' = [task EXCEPT ![w] = "gone"]
    /\ inbox' = [inbox EXCEPT ![w] = <<>>]
    /\ Settle(Ids(inbox[w]), "lost")
    /\ UNCHANGED <<busVars, dispVars, names, gen, inboxes, admin, cur, wpc,
                   sent, target, acks, ackedBy, crashes, faults>>

-----------------------------------------------------------------------------
(* Node n loses its memory and starts again without workers; the shared     *)
(* queue keeps its entries and its pending list.                            *)

Local(n) == {w \in Worker : Home[w] = n}

Started(n) == {w \in Local(n) : task[w] # "none"}

\* Messages that only n's memory holds.
Waiting(n) == UNION {Ids(inbox[w]) : w \in Started(n)}
InHandler(n) == {cur[w].id : w \in {v \in Started(n) : wpc[v] # "idle"}}
Relayed(n) == IF pc[n] = "relay" THEN {held[n].id} ELSE {}

Crash(n) ==
    LET dead == Started(n)
    IN  /\ crashes < MaxCrashes
        /\ pc[n] # "off"
        /\ crashes' = crashes + 1
        /\ orphans' = (IF pc[n] \in Claimed THEN Append(orphans, held[n])
                                            ELSE orphans) \o reclaimed[n]
        /\ Settle(Waiting(n) \cup InHandler(n) \cup Relayed(n), "lost")
        /\ pc' = [pc EXCEPT ![n] = "off"]
        /\ held' = [held EXCEPT ![n] = NoMsg]
        /\ reclaimed' = [reclaimed EXCEPT ![n] = <<>>]
        /\ loaded' = [loaded EXCEPT ![n] = 0]
        /\ seen' = [seen EXCEPT ![n] = NoGen]
        /\ cached' = [cached EXCEPT ![n] = {}]
        /\ names' = [names EXCEPT ![n] = {}]
        /\ gen' = [gen EXCEPT ![n] = 0]
        /\ inboxes' = inboxes \ Local(n)
        /\ admin' = [admin EXCEPT ![n] = Idle]
        /\ task' = [w \in Worker |-> IF w \in dead THEN "gone" ELSE task[w]]
        /\ inbox' = [w \in Worker |-> IF w \in dead THEN <<>> ELSE inbox[w]]
        /\ cur' = [w \in Worker |-> IF w \in dead THEN NoMsg ELSE cur[w]]
        /\ wpc' = [w \in Worker |-> IF w \in dead THEN "idle" ELSE wpc[w]]
        /\ UNCHANGED <<queue, delayed, firing, sent, target, acks, ackedBy,
                       faults>>

-----------------------------------------------------------------------------
Dispatcher(n) ==
    \/ ClaimStale(n) \/ Claim(n) \/ LoadGeneration(n) \/ ReadNames(n)
    \/ FilterInboxes(n) \/ \E w \in Worker : Deliver(n, w) \/ Refused(n, w)
    \/ DropMiss(n) \/ RelayMiss(n) \/ Relay(n) \/ Nack(n) \/ NackFails(n)
    \/ Ack(n)

Handle(w) ==
    \/ HandlerAck(w) \/ HandlerDead(w) \/ ProcessFails(w)
    \/ \E r \in RetryLimits, later \in BOOLEAN : HandlerNoAck(w, r, later)

WorkerLoop(w) == Receive(w) \/ Handle(w) \/ Requeue(w) \/ RequeueFails(w)

Administer(w) ==
    \/ CreateWorker(w) \/ RegisterWorker(w) \/ DelWorker(w) \/ DelInbox(w)
    \/ DelNames(w) \/ CancelTask(w) \/ CloseInbox(w)

Scheduler == FetchReady \/ \E m \in firing : FireDelayed(m)

Next ==
    \/ \E i \in Id, t \in Targets : Send(i, t) \/ SendDelayed(i, t)
    \/ Scheduler
    \/ \E n \in Node : Dispatcher(n) \/ Crash(n)
    \/ \E w \in Worker : WorkerLoop(w) \/ Administer(w)

Spec == Init /\ [][Next]_vars

\* Every task of a running process is eventually polled and every handler
\* returns.  Redis serves the consumers blocked on a stream in turn, and a
\* dispatcher with nothing to do sleeps, so no node is starved of claims; the
\* sweep of the pending list runs on a timer at the top of the loop.
Fairness ==
    /\ WF_vars(Scheduler)
    /\ \A n \in Node : /\ WF_vars(Dispatcher(n))
                       /\ SF_vars(Claim(n))
                       /\ SF_vars(ClaimStale(n))
    /\ \A w \in Worker :
          /\ WF_vars(WorkerLoop(w))
          /\ WF_vars(RegisterWorker(w) \/ DelInbox(w) \/ DelNames(w))
          /\ WF_vars(CancelTask(w) \/ CloseInbox(w))
    /\ \A w \in Boot : WF_vars(CreateWorker(w))

FairSpec == Spec /\ Fairness
-----------------------------------------------------------------------------
(* Properties *)

HasId(s, i) == \E k \in DOMAIN s : s[k].id = i

OnBus(i) ==
    \/ HasId(queue, i) \/ HasId(orphans, i)
    \/ \E m \in delayed \cup firing : m.id = i
AtDispatcher(n, i) ==
    HasId(reclaimed[n], i) \/ (pc[n] \in Holding /\ held[n].id = i)
AtWorker(w, i) == HasId(inbox[w], i) \/ (wpc[w] # "idle" /\ cur[w].id = i)

Located(i) ==
    \/ OnBus(i)
    \/ \E n \in Node : AtDispatcher(n, i)
    \/ \E w \in Worker : AtWorker(w, i)

\* A message the bus accepted is somewhere (queued, claimed, scheduled, in an
\* inbox, in a handler) until it is completed, dead-lettered, dropped at the
\* hop cap, or destroyed by an abort, a crash or a failed send: the dispatcher
\* and the workers never forget one between two of their steps.
NoLoss == \A i \in sent : Located(i) \/ fate[i] # {}

At(place, s, i) == {<<place, k>> : k \in {j \in DOMAIN s : s[j].id = i}}

\* Where the copies of i are.
Places(i) ==
    At("queue", queue, i) \cup At("orphans", orphans, i)
    \cup {<<"delayed", m>> : m \in {d \in delayed : d.id = i}}
    \cup {<<"firing", m>> : m \in {d \in firing : d.id = i}}
    \cup (UNION {At(n, reclaimed[n], i) : n \in Node})
    \cup {<<n, 0>> : n \in {d \in Node : pc[d] \in Holding /\ held[d].id = i}}
    \cup (UNION {At(w, inbox[w], i) : w \in Worker})
    \cup {<<w, 0>> : w \in {d \in Worker : wpc[d] # "idle" /\ cur[d].id = i}}

Singleton(S) == \E x \in S : S = {x}

Calm == crashes = 0 /\ faults = 0

\* As long as no node crashed and no backend call failed, deliver-then-ack,
\* nack, relay and requeue neither duplicate nor forget a message: it has one
\* copy until it settles, one fate then, and no copy afterwards.
OneCopy ==
    Calm => \A i \in sent : \/ Singleton(Places(i)) /\ fate[i] = {}
                            \/ Places(i) = {} /\ Singleton(fate[i])

\* The stamp the dispatcher writes is the inbox it delivers to, so the
\* is_misrouted test of the worker's inbox loop never succeeds.
InboxAddressed ==
    \A w \in Worker : \A k \in DOMAIN inbox[w] : inbox[w][k].to = w

\* A message addressed to a worker is handled by no other, whatever is
\* relayed, retried, reclaimed or redelivered on the way.
TargetHonoured ==
    \A i \in Id : target[i] # NoWorker => ackedBy[i] \subseteq {target[i]}

\* A dispatcher that has seen the current generation routes over exactly the
\* registered workers: no creation or deletion slips past the cache.
CacheFresh ==
    \A n \in Node :
        (pc[n] # "filter" /\ seen[n] = gen[n] /\ admin[n] = Idle)
            => cached[n] = names[n]

Bounded(m) == m.attempts <= MaxHops \/ \E r \in RetryLimits : m.attempts < r

\* attempts, shared by retries and relay hops, stays bounded: relaying stops
\* at the hop cap and retrying below the largest max_retries.
AttemptsBounded ==
    /\ \A k \in DOMAIN queue : Bounded(queue[k])
    /\ \A w \in Worker : \A k \in DOMAIN inbox[w] : Bounded(inbox[w][k])
    /\ \A m \in delayed \cup firing : Bounded(m)

\* The successful handler runs a message takes: the count is compared after
\* the increment, so Repeated(0) ends when the u32 has wrapped.
Need == [i \in Id |-> IF i \notin Repeated THEN 1
                     ELSE IF Times[i] = 0 THEN CountMod ELSE Times[i]]

\* Repeated(n) completes after exactly n successful handler runs (Repeated(0)
\* after a full turn of the counter), any other message after one.
HandledExactly ==
    Calm => \A i \in Id : "done" \in fate[i] => acks[i] = Need[i]

\* Every accepted message reaches an end.
Settles == \A i \in Id : i \in sent ~> fate[i] # {}

-----------------------------------------------------------------------------
(* A statement of the documentation the code does not keep. *)

\* "a dead node's half-processed messages get re-driven by the fleet".
HalfProcessedRedriven ==
    \A i \in sent : Located(i) \/ fate[i] # {"lost"}

-----------------------------------------------------------------------------
(* Refinement *)

Status == [i \in Id |-> IF fate[i] # {} THEN CHOOSE f \in Fate : f \in fate[i]
                        ELSE IF i \in sent THEN "live" ELSE "unsent"]

Promise == INSTANCE Delivery WITH status <- Status, runs <- acks

\* While nothing crashes or fails, the topic keeps the promise to the sender: a
\* message is handled as often as it asks for and completed, or given up, once.
ImplementsDelivery == Promise!Spec
=============================================================================
