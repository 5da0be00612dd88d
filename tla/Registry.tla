------------------------------ MODULE Registry ------------------------------
(***************************************************************************)
(* The Host's WorkerRegistry: discovery announcements, the heartbeat loop  *)
(* of every node, shutdown acknowledgments, the sweep for stale entries    *)
(* and the copy kept in the WAL.                                           *)
(*                                                                         *)
(* The registry maps a listed worker to its age: the time since its last   *)
(* heartbeat, in heartbeat intervals, negative if the clock was set back.  *)
(* A coordination message is a kind and a worker.  wire holds the messages *)
(* under way: 32 workers per system topic handle them in any order, and    *)
(* two equal messages count as one.  try_send drops a message when the     *)
(* queue is full.                                                          *)
(*                                                                         *)
(* A wedged node is one whose ConsumerRouter lock has a writer queued      *)
(* behind the guard of recv() (module Shutdown): its workers go on, its    *)
(* heartbeat loop waits for a read guard for ever.                         *)
(*                                                                         *)
(* prompt is fixed at the start.  If TRUE, only behaviours are considered  *)
(* in which time passes no faster than nodes beat and the Host handles     *)
(* what they sent; otherwise delays are arbitrary.                         *)
(***************************************************************************)
EXTENDS Integers, FiniteSets

CONSTANTS
    Node, Host,      \* the processes, and the one with the Host role
    Worker,          \* worker names
    Stale,           \* WORKER_STALE_TIMEOUT in heartbeat intervals (6)
    Every,           \* DISCOVERY_REANNOUNCE_EVERY (10)
    MaxFaults, MaxRestarts, MaxBack   \* bounds: dropped sends and failed
                                    \* saves, Host restarts, clock set back

ASSUME RegistryAssumption ==
    /\ Host \in Node
    /\ Stale \in Nat \ {0} /\ Every \in Nat \ {0}
    /\ MaxFaults \in Nat /\ MaxRestarts \in Nat /\ MaxBack \in Nat

VARIABLES
    reg,        \* the registry: age of every listed worker
    saved,      \* the copy in the WAL
    unsaved,    \* TRUE if the last save failed
    wire,       \* coordination messages under way to the Host
    home,       \* home[w]: the node w lives on; fixed at the start
    life,       \* life[w]: "none", "live", "stopping" (acked), "gone"
    node,       \* node[n]: "up", "wedged" or "down"
    pass,       \* pass[n]: the workers heartbeat_once has still to send for;
                \* TRUE for those found missing from the registry
    cycle,      \* cycle[n]: the loop's counter, modulo Every
    beaten,     \* nodes whose loop ran in this interval
    prompt, back, faults, restarts,
    evicted     \* history: workers swept although they lived and beat

regVars  == <<reg, saved, unsaved>>
nodeVars == <<home, life, node>>
beatVars == <<pass, cycle, beaten>>
envVars  == <<prompt, back, restarts>>
vars == <<regVars, wire, nodeVars, beatVars, envVars, faults, evicted>>

Age == (0 - MaxBack) .. (Stale + 1)
Message == [kind : {"discovery", "heartbeat", "ack"}, w : Worker]
IsListing(r) == \A w \in DOMAIN r : w \in Worker /\ r[w] \in Age
None == [w \in {} |-> 0]

TypeOK ==
    /\ IsListing(reg) /\ IsListing(saved) /\ unsaved \in BOOLEAN
    /\ wire \subseteq Message
    /\ home \in [Worker -> Node]
    /\ life \in [Worker -> {"none", "live", "stopping", "gone"}]
    /\ node \in [Node -> {"up", "wedged", "down"}]
    /\ \A n \in Node : \A w \in DOMAIN pass[n] :
         w \in Worker /\ pass[n][w] \in BOOLEAN
    /\ cycle \in [Node -> 0 .. Every - 1] /\ beaten \subseteq Node
    /\ prompt \in BOOLEAN /\ back \in 0 .. MaxBack
    /\ faults \in 0 .. MaxFaults /\ restarts \in 0 .. MaxRestarts
    /\ evicted \subseteq Worker

\* Where the heartbeat counters may stand; only nodes with workers beat.
Phases == {c \in [Node -> 0 .. Every - 1] :
             \A n \in Node : c[n] = 0 \/ \E w \in Worker : home[w] = n}

Init ==
    /\ reg = None /\ saved = None /\ unsaved = FALSE /\ wire = {}
    /\ home \in [Worker -> Node]
    /\ life = [w \in Worker |-> "none"] /\ node = [n \in Node |-> "up"]
    /\ pass = [n \in Node |-> [w \in {} |-> FALSE]]
    /\ cycle \in Phases /\ beaten = {}
    /\ prompt \in BOOLEAN /\ back = 0 /\ faults = 0 /\ restarts = 0
    /\ evicted = {}

-----------------------------------------------------------------------------
(* Nodes: workers come and go, the heartbeat loop. *)

Up(w) == life[w] \in {"live", "stopping"}

\* send_system with try_send: each message is under way, or dropped.
Send(ms) == \E lost \in SUBSET ms :
    /\ faults' = faults + Cardinality(lost) /\ faults' <= MaxFaults
    /\ wire' = wire \cup (ms \ lost)

Discovery(w) == [kind |-> "discovery", w |-> w]
Heartbeat(w) == [kind |-> "heartbeat", w |-> w]

\* create_worker ends in announce_worker; a failed send is only logged.
Create(w) ==
    /\ life[w] = "none" /\ node[home[w]] = "up"
    /\ life' = [life EXCEPT ![w] = "live"]
    /\ Send({Discovery(w)})
    /\ UNCHANGED <<regVars, home, node, beatVars, envVars, evicted>>

\* Worker::shutdown publishes its ack while the worker is still in the index.
SendAck(w) ==
    /\ life[w] = "live" /\ node[home[w]] = "up"
    /\ life' = [life EXCEPT ![w] = "stopping"]
    /\ Send({[kind |-> "ack", w |-> w]})
    /\ UNCHANGED <<regVars, home, node, beatVars, envVars, evicted>>

\* The strategy goes on to del_worker, or waits for its write guard for ever.
Delete(w) ==
    /\ life[w] = "stopping" /\ node[home[w]] = "up"
    /\ life' = [life EXCEPT ![w] = "gone"]
    /\ UNCHANGED <<regVars, wire, home, node, beatVars, envVars, faults,
                   evicted>>

Wedge(n) ==
    /\ node[n] = "up" /\ \E w \in Worker : home[w] = n /\ life[w] = "stopping"
    /\ node' = [node EXCEPT ![n] = "wedged"]
    /\ UNCHANGED <<regVars, wire, home, life, beatVars, envVars, faults,
                   evicted>>

Workless(n) ==
    [w \in Worker |-> IF home[w] = n /\ life[w] # "none" THEN "gone"
                                                         ELSE life[w]]
Crash(n) ==
    /\ n # Host /\ node[n] # "down"
    /\ node' = [node EXCEPT ![n] = "down"]
    /\ life' = Workless(n)
    /\ pass' = [pass EXCEPT ![n] = [w \in {} |-> FALSE]]
    /\ UNCHANGED <<regVars, wire, home, cycle, beaten, envVars, faults,
                   evicted>>

\* Mutant: a deleted worker stays in the index the heartbeat pass reads.
Local_Kept(n) == {w \in Worker : home[w] = n /\ life[w] # "none"}

\* The business workers in n's index; a pass over none of them sends nothing.
Local(n) == {w \in Worker : home[w] = n /\ Up(w)}

\* What a node's own WorkerRegistry lists: the Host's is the registry; a
\* Worker's is what it loaded at start-up, none of the workers it created.
Known(n) == IF n = Host THEN DOMAIN reg ELSE {}

\* Mutant: on a re-announce cycle no worker is found to be missing.
Missing_None(n, w) == FALSE

Missing(n, w) == cycle[n] = Every - 1 /\ w \notin Known(n)

\* Mutant: the counter starts again at one, not at zero.
NextCycle_FromOne(c) == (c % Every) + 1

NextCycle(c) == (c + 1) % Every

\* heartbeat_once takes its snapshot of the local workers ...
BeatStart(n) ==
    /\ node[n] = "up" /\ DOMAIN pass[n] = {} /\ Local(n) # {}
    /\ prompt => n \notin beaten
    /\ pass' = [pass EXCEPT ![n] =
                  [w \in Local(n) |-> Missing(n, w)]]
    /\ cycle' = [cycle EXCEPT ![n] = NextCycle(@)]
    /\ beaten' = beaten \cup {n}
    /\ UNCHANGED <<regVars, wire, nodeVars, envVars, faults, evicted>>

\* ... and sends for one after the other, whatever became of them meanwhile.
\* Only the snapshot needs the router's lock: a pass outlives the wedge.
BeatSend(n, w) ==
    /\ w \in DOMAIN pass[n]
    /\ Send({Heartbeat(w)} \cup (IF pass[n][w] THEN {Discovery(w)} ELSE {}))
    /\ pass' = [pass EXCEPT ![n] = [v \in DOMAIN @ \ {w} |-> @[v]]]
    /\ UNCHANGED <<regVars, nodeVars, cycle, beaten, envVars, evicted>>

-----------------------------------------------------------------------------
(* The Host. *)

\* save_worker_registry writes the whole map; an error leaves memory changed.
Save ==
    \/ saved' = reg' /\ unsaved' = FALSE /\ UNCHANGED faults
    \/ /\ faults < MaxFaults /\ faults' = faults + 1
       /\ UNCHANGED saved /\ unsaved' = TRUE

Without(S) == [w \in DOMAIN reg \ S |-> reg[w]]

Listing(w) == [v \in DOMAIN reg \cup {w} |-> IF v = w THEN 0 ELSE reg[v]]

\* What the ack of w's shutdown leaves.
Unregistered(w) == Without({w})

Beaten(w) == IF w \in DOMAIN reg THEN Listing(w) ELSE reg

\* The handlers of discovery, heartbeat and shutdown_ack: register, heartbeat
\* and unregister under the registry's write guard, each ending in a save.
Handle(m) ==
    /\ m \in wire
    /\ wire' = wire \ {m}
    /\ reg' = CASE m.kind = "discovery" -> Listing(m.w)
                [] m.kind = "heartbeat" -> Beaten(m.w)
                [] m.kind = "ack"       -> Unregistered(m.w)
    /\ Save
    /\ UNCHANGED <<nodeVars, beatVars, envVars, evicted>>

\* Mutant: an entry exactly as old as the timeout is swept, too.
IsStale_OnTime(a) == a >= Stale \/ a < 0

\* A heartbeat in the future has no duration_since: it counts as infinite.
IsStale(a) == a > Stale \/ a < 0

\* Mutant: only the map in memory is swept.
Saving_Skipped == UNCHANGED <<saved, unsaved, faults>>

Saving == Save

Cleanup ==
    LET stale == {w \in DOMAIN reg : IsStale(reg[w])} IN
    /\ stale # {} \/ saved # reg
    /\ reg' = Without(stale)
    /\ Saving
    /\ evicted' = evicted \cup
                    {w \in stale : life[w] = "live" /\ node[home[w]] = "up"}
    /\ UNCHANGED <<wire, nodeVars, beatVars, envVars>>

\* The Host process restarts: WorkerRegistry::init loads what the WAL kept,
\* which is nothing for a MemoryWal and for a PersistentWal, whose registry
\* handle nobody flushes.  Its own workers are gone.
Restart ==
    /\ restarts < MaxRestarts /\ restarts' = restarts + 1
    /\ reg' \in {saved, None} /\ saved' = reg' /\ unsaved' = FALSE
    /\ life' = Workless(Host)
    /\ node' = [node EXCEPT ![Host] = "up"]
    /\ pass' = [pass EXCEPT ![Host] = [w \in {} |-> FALSE]]
    /\ cycle' \in {c \in Phases : \A n \in Node \ {Host} : c[n] = cycle[n]}
    /\ UNCHANGED <<wire, home, beaten, prompt, back, faults, evicted>>

-----------------------------------------------------------------------------
(* Time. *)

Older(r, d) == [w \in DOMAIN r |-> IF r[w] > Stale /\ d > 0 THEN r[w]
                                                            ELSE r[w] + d]
Tick ==
    /\ DOMAIN reg \cup DOMAIN saved \cup beaten # {}
    /\ prompt => /\ wire = {}
                 /\ \A n \in Node : node[n] = "up" /\ Local(n) # {} =>
                                      n \in beaten /\ DOMAIN pass[n] = {}
    /\ reg' = Older(reg, 1) /\ saved' = Older(saved, 1)
    /\ beaten' = {}
    /\ UNCHANGED <<unsaved, wire, nodeVars, pass, cycle, envVars, faults,
                   evicted>>

ClockBack ==
    /\ back < MaxBack /\ back' = back + 1
    /\ \A w \in DOMAIN reg : reg[w] <= Stale /\ reg[w] - 1 \in Age
    /\ \A w \in DOMAIN saved : saved[w] <= Stale /\ saved[w] - 1 \in Age
    /\ reg' = Older(reg, -1) /\ saved' = Older(saved, -1)
    /\ UNCHANGED <<unsaved, wire, nodeVars, beatVars, prompt, faults,
                   restarts, evicted>>

-----------------------------------------------------------------------------
Next ==
    \/ \E w \in Worker : Create(w) \/ SendAck(w) \/ Delete(w)
    \/ \E n \in Node : Wedge(n) \/ Crash(n) \/ BeatStart(n)
    \/ \E n \in Node, w \in Worker : BeatSend(n, w)
    \/ \E m \in Message : Handle(m)
    \/ Cleanup \/ Restart \/ Tick \/ ClockBack

Spec == Init /\ [][Next]_vars

\* Loops on timers run again, messages are handled, time passes.
Fairness ==
    /\ \A n \in Node : WF_vars(BeatStart(n))
    /\ \A n \in Node, w \in Worker : WF_vars(BeatSend(n, w))
    /\ \A m \in Message : WF_vars(Handle(m))
    /\ WF_vars(Cleanup) /\ WF_vars(Tick)
FairSpec == Spec /\ Fairness

-----------------------------------------------------------------------------
(* Properties. *)

Silent(w) == life[w] = "gone" \/ node[home[w]] = "wedged"

\* What the WAL keeps is the registry in memory unless the last save failed,
\* so a Host that restarts does not bring back workers that had been swept or
\* unregistered (register, unregister, heartbeat and cleanup_stale all save).
Persisted == ~unsaved => saved = reg

\* worker.rs sizes WORKER_STALE_TIMEOUT so that missed heartbeats do not evict
\* live workers: with fewer dropped messages and failed saves than the timeout
\* has intervals, prompt handling and a clock that is not set back, none ever
\* is, not even by a Host that starts again from the copy in the WAL.
NoLiveEviction == prompt /\ back = 0 /\ faults < Stale => evicted = {}

\* Workers that were deleted, died with their node, or sit on a wedged node
\* are unlisted for good in the end, whatever announcements are still under
\* way (run_registry_cleanup_loop).
GhostsFade ==
    \A w \in Worker : Silent(w) ~> [](w \notin DOMAIN reg)

\* A dropped announcement heals: a worker that stays alive on a node that is
\* up is listed again and again (the re-announce cycle of the heartbeat loop).
LiveListed ==
    \A w \in Worker :
        life[w] = "live" ~> (w \in DOMAIN reg \/ life[w] # "live" \/ Silent(w))
=============================================================================
