------------------------------- MODULE Topics -------------------------------
(***************************************************************************)
(* How the nodes of a fleet start and how their topic lists are brought    *)
(* together.                                                               *)
(*                                                                         *)
(* start_system_impl (event_base_macro_func/src/start_system.rs) registers *)
(* the system handlers, then the program's own #[handler]s, and announces  *)
(* the node's topics once on _system.topic_discovery.  The Host's          *)
(* TopicDiscovery handler merges them into its TopicRouter and publishes   *)
(* the merged list on _system.topic_sync, a fan-out topic on which every   *)
(* Worker's TopicSync handler merges in turn                               *)
(* (event_base_core/src/system_handlers/topic.rs).                         *)
(*                                                                         *)
(* All of them meet on the tokio RwLock around the node's TopicRouter:     *)
(* every send of the node needs a read guard, every merge a write guard,   *)
(* requests are served first come first served, and the Host's delay       *)
(* scheduler takes a read guard that it never gives back (topic.rs:237).   *)
(* A guard that is held only across list_topics, register_topic or one     *)
(* send is taken, used and dropped in one step: only readers can run       *)
(* beside it, and they change nothing another reader sees.                 *)
(***************************************************************************)
EXTENDS Naturals, Sequences, FiniteSets

CONSTANTS
  Node,       \* the nodes of the fleet
  Host,       \* the one whose role is Host
  Topic,      \* the program's own topics
  Declared,   \* Declared[n]: the topics the #[handler]s of n's program name
  Slots,      \* system workers of one topic (32 in the code)
  MaxTrouble  \* bound on process crashes and sends that return an error

ASSUME TopicsAssumption ==
  /\ Host \in Node
  /\ Declared \in [Node -> SUBSET Topic]
  /\ \A n \in Node : IsFiniteSet(Declared[n])
  /\ Slots \in Nat \ {0}
  /\ MaxTrouble \in Nat

VARIABLES
  phase,      \* phase[n]: how far start_system_impl has come
  left,       \* left[n]: entries of HANDLER_REGISTRY not yet registered
  topics,     \* topics[n]: TopicRouter::inner, the topics n knows
  queue,      \* queue[n]: requests waiting on the RwLock of n's TopicRouter
  sched,      \* sched[n]: n's delay scheduler holds its read guard
  job,        \* job[n][s]: what the system worker s of n is doing, the
              \* topics of its message, and those it still works on
  collector,  \* collector[n]: the NodeCollector of n
  disc,       \* the entries of _system.topic_discovery nobody has claimed
  group,      \* the nodes whose topic_sync group exists in Redis
  sync,       \* sync[n]: the entries of _system.topic_sync that n has not read
  crashes,    \* process crashes so far
  faults      \* failed sends so far

vars == <<phase, left, topics, queue, sched, job, collector, disc, group,
          sync, crashes, faults>>

Slot == 1..Slots

Worker(s) == <<"worker", s>>

Task == {<<"boot">>, <<"scheduler">>, <<"collector">>}
          \cup {Worker(s) : s \in Slot}

Request == Task \X {"read", "write"}

Idle == [step |-> "idle", told |-> {}, topics |-> {}]

Step == {"list", "write", "relist", "send"}

TypeOK ==
  /\ phase \in [Node -> {"down", "handlers", "announce", "up"}]
  /\ left \in [Node -> SUBSET Topic]
  /\ topics \in [Node -> SUBSET Topic]
  /\ queue \in [Node -> Seq(Request)]
  /\ sched \in [Node -> BOOLEAN]
  /\ job \in [Node -> [Slot -> {Idle} \cup [step : Step,
                                            told : SUBSET Topic,
                                            topics : SUBSET Topic]]]
  /\ collector \in [Node -> {"off", "collect", "send", "stopped"}]
  /\ disc \in Seq(SUBSET Topic)
  /\ group \subseteq Node \ {Host}
  /\ sync \in [Node -> Seq(SUBSET Topic)]
  /\ crashes \in 0..MaxTrouble
  /\ faults \in 0..(MaxTrouble - crashes)

Init ==
  /\ phase = [n \in Node |-> "down"]
  /\ left = Declared
  /\ topics = [n \in Node |-> {}]
  /\ queue = [n \in Node |-> <<>>]
  /\ sched = [n \in Node |-> FALSE]
  /\ job = [n \in Node |-> [s \in Slot |-> Idle]]
  /\ collector = [n \in Node |-> "off"]
  /\ disc = <<>>
  /\ group = {}
  /\ sync = [n \in Node |-> <<>>]
  /\ crashes = 0
  /\ faults = 0

-----------------------------------------------------------------------------
(* The RwLock of a node's TopicRouter (external).                          *)

(* Task t of node n waits for a guard of the given mode.                   *)
Waits(n, t, mode) == \E i \in DOMAIN queue[n] : queue[n][i] = <<t, mode>>

(* t is served: a reader when no writer came before it, a writer when it   *)
(* is the first in line and nobody holds a guard.                          *)
Served(n, t, mode) ==
  \E i \in DOMAIN queue[n] :
    /\ queue[n][i] = <<t, mode>>
    /\ mode = "read" => \A j \in 1..(i - 1) : queue[n][j][2] = "read"
    /\ mode = "write" => i = 1 /\ ~sched[n]

(* t has its guard, used it and dropped it; it waits in one place only.    *)
Leave(n, t) ==
  LET i == CHOOSE j \in DOMAIN queue[n] : queue[n][j][1] = t
  IN  [j \in 1..(Len(queue[n]) - 1) |->
         queue[n][IF j < i THEN j ELSE j + 1]]

Ask(n, t, mode) == queue' = [queue EXCEPT ![n] = Append(@, <<t, mode>>)]

(* Mutant: t asks for the next guard before it drops the one it has.       *)
AskAgain_Held(n, t, mode) ==
  queue' = [queue EXCEPT ![n] = Append(@, <<t, mode>>)]

(* t drops its guard and asks for the next one.                            *)
AskAgain(n, t, mode) ==
  queue' = [queue EXCEPT ![n] = Append(Leave(n, t), <<t, mode>>)]

Drop(n, t) == queue' = [queue EXCEPT ![n] = Leave(n, t)]

(* A send to Redis either arrives or returns an error.                     *)
Fault == crashes + faults < MaxTrouble /\ faults' = faults + 1

-----------------------------------------------------------------------------
(* start_system_impl.                                                      *)

(* Boot asks for the next guard: a write guard for every entry that is     *)
(* still to be registered, whether or not its topic is already known, and  *)
(* at last the read guard under which it lists its topics and sends them.  *)
GoOn(n, rest, waiting) ==
  /\ left' = [left EXCEPT ![n] = rest]
  /\ phase' = [phase EXCEPT ![n] =
       IF rest # {} THEN "handlers" ELSE "announce"]
  /\ queue' = [queue EXCEPT ![n] =
       Append(waiting, <<<<"boot">>, IF rest # {} THEN "write" ELSE "read">>)]

(* The globals are set, the routers initialised with no topics, and        *)
(* register_all gives the system handlers their workers, which take        *)
(* messages from here on, and spawns the NodeCollector.                    *)
Start(n) ==
  /\ phase[n] = "down"
  /\ GoOn(n, Declared[n], <<>>)
  /\ collector' = [collector EXCEPT ![n] = "collect"]
  /\ UNCHANGED <<topics, sched, job, disc, group, sync, crashes, faults>>

(* register_all_handlers: an entry registers its topic while it also holds *)
(* the ConsumerRouter's write guard.                                       *)
Register(n) ==
  /\ Served(n, <<"boot">>, "write")
  /\ \E t \in left[n] :
       /\ topics' = [topics EXCEPT ![n] = @ \cup {t}]
       /\ GoOn(n, left[n] \ {t}, Leave(n, <<"boot">>))
  /\ UNCHANGED <<sched, job, collector, disc, group, sync, crashes, faults>>

(* A failed announcement is logged; the node is up all the same.           *)
Announce(n) ==
  /\ Served(n, <<"boot">>, "read")
  /\ phase' = [phase EXCEPT ![n] = "up"]
  /\ Drop(n, <<"boot">>)
  /\ \/ disc' = Append(disc, topics[n]) /\ UNCHANGED faults
     \/ Fault /\ UNCHANGED disc
  /\ UNCHANGED <<left, topics, sched, job, collector, group, sync, crashes>>

(* The delay scheduler is spawned last, and on the Host only.              *)
Schedules(n) == n = Host /\ phase[n] = "up"

AskSchedule(n) ==
  /\ Schedules(n)
  /\ ~sched[n]
  /\ ~Waits(n, <<"scheduler">>, "read")
  /\ Ask(n, <<"scheduler">>, "read")
  /\ UNCHANGED <<phase, left, topics, sched, job, collector, disc, group,
                 sync, crashes, faults>>

(* run_delay_scheduler: the guard is taken outside the loop and kept.      *)
RunScheduler(n) ==
  /\ Served(n, <<"scheduler">>, "read")
  /\ sched' = [sched EXCEPT ![n] = TRUE]
  /\ Drop(n, <<"scheduler">>)
  /\ UNCHANGED <<phase, left, topics, job, collector, disc, group, sync,
                 crashes, faults>>

-----------------------------------------------------------------------------
(* The NodeCollector, a sender like any other.                             *)

(* collect needs the ConsumerRouter's read guard: boot holds the write     *)
(* guard while it registers a handler.                                     *)
Collect(n) ==
  /\ collector[n] = "collect"
  /\ ~Waits(n, <<"boot">>, "write")
  /\ collector' = [collector EXCEPT ![n] = "send"]
  /\ Ask(n, <<"collector">>, "read")
  /\ UNCHANGED <<phase, left, topics, sched, job, disc, group, sync, crashes,
                 faults>>

(* The sample is published; an error ends the loop for good.               *)
Publish(n) ==
  /\ Served(n, <<"collector">>, "read")
  /\ Drop(n, <<"collector">>)
  /\ \/ collector' = [collector EXCEPT ![n] = "collect"] /\ UNCHANGED faults
     \/ collector' = [collector EXCEPT ![n] = "stopped"] /\ Fault
  /\ UNCHANGED <<phase, left, topics, sched, job, disc, group, sync, crashes>>

-----------------------------------------------------------------------------
(* TopicDiscovery on the Host, TopicSync on the Workers.                   *)

Serving(n) == phase[n] # "down"

(* An idle system worker, the first one as they are all alike, takes a     *)
(* message and asks for the read guard of its first list_topics.           *)
Begin(n, s, told) ==
  /\ Serving(n)
  /\ job[n][s] = Idle
  /\ \A r \in 1..(s - 1) : job[n][r] # Idle
  /\ job' = [job EXCEPT ![n][s] = [step |-> "list", told |-> told,
                                        topics |-> told]]
  /\ Ask(n, Worker(s), "read")

TakeDiscovery(s) ==
  /\ disc # <<>>
  /\ Begin(Host, s, Head(disc))
  /\ disc' = Tail(disc)
  /\ UNCHANGED <<phase, left, topics, sched, collector, group, sync, crashes,
                 faults>>

TakeSync(n, s) ==
  /\ sync[n] # <<>>
  /\ Begin(n, s, Head(sync[n]))
  /\ sync' = [sync EXCEPT ![n] = Tail(@)]
  /\ UNCHANGED <<phase, left, topics, sched, collector, disc, group, crashes,
                 faults>>

(* s goes on with the given step; a merge that is over is followed, on the *)
(* Host, by a second list_topics and the answer.                           *)
Proceed(n, s, todo) ==
  \/ /\ todo # {}
     /\ job' = [job EXCEPT ![n][s] = [@ EXCEPT !.step = "write",
                                              !.topics = todo]]
     /\ AskAgain(n, Worker(s), "write")
  \/ /\ todo = {}
     /\ n = Host
     /\ job' = [job EXCEPT ![n][s] = [step |-> "relist", told |-> {},
                                     topics |-> {}]]
     /\ AskAgain(n, Worker(s), "read")
  \/ /\ todo = {}
     /\ n # Host
     /\ job' = [job EXCEPT ![n][s] = Idle]
     /\ Drop(n, Worker(s))

(* Mutant: the merge registers the topics that are already known.          *)
Unknown_Inverted(n, told) == told \cap topics[n]

(* Mutant: the merge registers every topic of the message.                 *)
Unknown_All(n, told) == told

(* The topics of the message that are missing from the list just read.     *)
Unknown(n, told) == told \ topics[n]

List(n, s) ==
  /\ job[n][s].step = "list"
  /\ Served(n, Worker(s), "read")
  /\ Proceed(n, s, Unknown(n, job[n][s].topics))
  /\ UNCHANGED <<phase, left, topics, sched, collector, disc, group, sync,
                 crashes, faults>>

(* One topic is registered under a write guard of its own; whether it is   *)
(* still missing is not looked at again.                                   *)
Write(n, s) ==
  /\ job[n][s].step = "write"
  /\ Served(n, Worker(s), "write")
  /\ \E t \in job[n][s].topics :
       /\ topics' = [topics EXCEPT ![n] = @ \cup {t}]
       /\ Proceed(n, s, job[n][s].topics \ {t})
  /\ UNCHANGED <<phase, left, sched, collector, disc, group, sync, crashes,
                 faults>>

Relist(s) ==
  /\ job[Host][s].step = "relist"
  /\ Served(Host, Worker(s), "read")
  /\ job' = [job EXCEPT ![Host][s] = [@ EXCEPT !.step = "send",
                                              !.topics = topics[Host]]]
  /\ AskAgain(Host, Worker(s), "read")
  /\ UNCHANGED <<phase, left, topics, sched, collector, disc, group, sync,
                 crashes, faults>>

(* The answer goes to every group that exists; a failed send is logged.    *)
Answer(s) ==
  /\ job[Host][s].step = "send"
  /\ Served(Host, Worker(s), "read")
  /\ job' = [job EXCEPT ![Host][s] = Idle]
  /\ Drop(Host, Worker(s))
  /\ \/ /\ sync' = [n \in Node |-> IF n \in group
                                   THEN Append(sync[n], job[Host][s].topics)
                                   ELSE sync[n]]
        /\ UNCHANGED faults
     \/ Fault /\ UNCHANGED sync
  /\ UNCHANGED <<phase, left, topics, sched, collector, disc, group, crashes>>

(* The dispatcher of _system.topic_sync creates the node's group on its    *)
(* first claim, at "$": entries from before are never read by n.  The      *)
(* Host's own TopicSync returns at once: its group makes no difference.    *)
EnsureGroup(n) ==
  /\ Serving(n)
  /\ n \notin group \cup {Host}
  /\ group' = group \cup {n}
  /\ UNCHANGED <<phase, left, topics, queue, sched, job, collector, disc, sync,
                 crashes, faults>>

(* The process dies and is started again by its operator; what Redis holds *)
(* stays, the message a system worker was busy with was acknowledged when  *)
(* it entered the inbox.                                                   *)
Crash(n) ==
  /\ phase[n] # "down"
  /\ crashes + faults < MaxTrouble
  /\ crashes' = crashes + 1
  /\ phase' = [phase EXCEPT ![n] = "down"]
  /\ left' = [left EXCEPT ![n] = Declared[n]]
  /\ topics' = [topics EXCEPT ![n] = {}]
  /\ queue' = [queue EXCEPT ![n] = <<>>]
  /\ sched' = [sched EXCEPT ![n] = FALSE]
  /\ job' = [job EXCEPT ![n] = [s \in Slot |-> Idle]]
  /\ collector' = [collector EXCEPT ![n] = "off"]
  /\ UNCHANGED <<disc, group, sync, faults>>

Boot(n) == Start(n) \/ Register(n) \/ Announce(n)

Scheduler(n) == AskSchedule(n) \/ RunScheduler(n)

Collector(n) == Collect(n) \/ Publish(n)

Work(n) ==
  \E s \in Slot :
    \/ TakeSync(n, s)
    \/ List(n, s)
    \/ Write(n, s)
    \/ n = Host /\ (TakeDiscovery(s) \/ Relist(s) \/ Answer(s))

Next ==
  \E n \in Node : \/ Boot(n)
                  \/ Scheduler(n)
                  \/ Collector(n)
                  \/ Work(n)
                  \/ EnsureGroup(n)
                  \/ Crash(n)

Spec == Init /\ [][Next]_vars

(* tokio runs every task that is ready, and a node that is down is started *)
(* again.  The scheduler exists only once boot is over, and a node gets    *)
(* finitely many topic messages, so one condition serves each pair.        *)
FairSpec ==
  /\ Spec
  /\ \A n \in Node : /\ WF_vars(Boot(n) \/ Scheduler(n))
                     /\ WF_vars(Collector(n))
                     /\ WF_vars(Work(n) \/ EnsureGroup(n))

-----------------------------------------------------------------------------
(* A writer waits behind the guard that n's delay scheduler keeps: neither *)
(* it nor any request after it is ever served.                             *)
Stuck(n) == sched[n] /\ \E i \in DOMAIN queue[n] : queue[n][i][2] = "write"

(* The delay scheduler's guard only ever stops the merge of a message that *)
(* names a topic the Host's own program does not declare.  A merge compares*)
(* with a list that boot may since have completed, and then asks for the   *)
(* write guard in vain, once per topic; but it takes turns with boot,      *)
(* which has as many topics to register, and ends before boot announces.   *)
StuckOnForeign ==
  sched[Host] =>
    \A i \in DOMAIN queue[Host] :
      queue[Host][i][2] = "write" =>
        \E s \in Slot : /\ queue[Host][i][1] = Worker(s)
                        /\ ~(job[Host][s].told \subseteq Declared[Host])

(* A Worker that has joined _system.topic_sync by the time the Host        *)
(* announces itself comes to know every topic of the Host's program, also  *)
(* when the Host's first answers were sent before its handlers had         *)
(* registered, when answers overtake each other and when either node       *)
(* restarts; unless a send failed or the Host is stuck.                    *)
LearnsHostTopics ==
  \A n \in Node \ {Host} :
    (n \in group /\ phase[Host] = "announce")
      ~> (Declared[Host] \subseteq topics[n] \/ faults > 0 \/ Stuck(Host))

(* A send is never held up for ever by the TopicRouter's lock: the         *)
(* collector's request for a read guard is served although writers come    *)
(* and go.  The one exception is a stuck Host.                             *)
SendsFlow ==
  \A n \in Node :
    collector[n] = "send" ~> (collector[n] # "send" \/ (n = Host /\ Stuck(n)))

(* TopicDiscovery "merges any new topics into the local router, and        *)
(* responds with a `TopicSyncMessage`": a handler that has begun ends.     *)
DiscoveryAnswered ==
  \A s \in Slot : job[Host][s] # Idle ~> job[Host][s] = Idle

=============================================================================
