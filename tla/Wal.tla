-------------------------------- MODULE Wal --------------------------------
(***************************************************************************)
(* The write-ahead log and the delay store: the three Wal implementations, *)
(* the status updates workers publish on _system.wal_sync, the Host's      *)
(* delay scheduler, and replay after a restart.                            *)
(*                                                                         *)
(* Bootstrap builds two handles: "registry" (WorkerRegistry::wal, used by  *)
(* schedule, fetch_ready and replay, and by applications that append) and  *)
(* "sync" (WalSyncHandler).  Two MemoryWals share nothing; two             *)
(* PersistentWals share a file, read once and overwritten as a whole by    *)
(* flush; two RedisWals are one store.  Several Hosts may share a RedisWal *)
(* and then each of them runs a scheduler on it.                           *)
(*                                                                         *)
(* A record is reduced to its status and a delayed record to whether its   *)
(* deliver_at has passed.  What happens to a message between the queue and *)
(* its worker is module Dispatch; here only the number of its copies and   *)
(* the updates they cause are kept.  Updates under way are a set: two      *)
(* equal ones count as one.                                                *)
(***************************************************************************)
EXTENDS Naturals, FiniteSets

CONSTANTS
    Msg,                 \* message ids
    Backends,            \* WAL backends to consider
    Main, Peer,          \* the modelled Host, others that share its RedisWal
    NoMsg,               \* no claim under way
    MaxTries, MaxCrashes, MaxFaults, MaxCopies    \* bounds

ASSUME WalAssumption ==
    /\ Backends \subseteq {"Memory", "Persistent", "Redis"}
    /\ Main \notin Peer /\ IsFiniteSet(Peer) /\ NoMsg \notin Msg
    /\ MaxTries \in Nat /\ MaxCrashes \in Nat /\ MaxFaults \in Nat
    /\ MaxCopies \in Nat \ {0}

VARIABLES
    backend, hosts, durable,  \* fixed at the start: the WAL backend, who runs
                              \* a scheduler, do queues survive a crash
    store,      \* store[hd]: records and delayed records of a handle
    payload,    \* ids in the delays hash of Redis (its index is in store)
    disk,       \* the file of the PersistentWals
    wire,       \* WAL-sync updates under way to the Host
    phase,      \* phase[m]: "new", "appended" or "sent" by the application
    at,         \* at[m]: deliver_at of the message: "none", "future" or "due"
    queued, busy,     \* number of copies of m in the queue, in a worker
    out,        \* out[m]: "open", "done" or "dead"
    tries,      \* tries[m]: times m was sent back
    fetch,      \* fetch[f]: what Host f's scheduler is doing
    todo,       \* records replay has still to send; replayed: it may run
    replays, crashes, faults,
    scheduled, fired,  \* history: schedulings and scheduler sends of m
    merged, early      \* history: scheduled while scheduled; fired too early

fixed    == <<backend, hosts, durable>>
walVars  == <<store, payload, disk>>
msgVars  == <<phase, at, queued, busy, out, tries>>
runVars  == <<todo, replays, crashes>>
histVars == <<scheduled, fired, merged, early>>
vars == <<fixed, walVars, wire, msgVars, fetch, runVars, faults, histVars>>

Status == {"Pending", "Processing", "Complete", "Failed"}
Empty == [rec |-> [m \in Msg |-> "none"], delay |-> [m \in Msg |-> "none"]]
Store == [rec : [Msg -> Status \cup {"none"}],
          delay : [Msg -> {"none", "future", "due"}]]
Handle == {"registry", "sync"}
Host == {Main} \cup Peer

\* A scheduler between two rounds: no id left of the range it read, no claim
\* under way, no record to send.
Idle == [due |-> {}, cur |-> NoMsg, found |-> FALSE, step |-> "idle",
         ready |-> {}]

TypeOK ==
    /\ backend \in Backends /\ durable \in BOOLEAN
    /\ Main \in hosts /\ hosts \subseteq Host
    /\ store \in [Handle -> Store] /\ disk \in Store /\ payload \subseteq Msg
    /\ wire \subseteq Msg \X Status
    /\ phase \in [Msg -> {"new", "appended", "sent"}]
    /\ at \in [Msg -> {"none", "future", "due"}]
    /\ queued \in [Msg -> 0 .. MaxCopies] /\ busy \in [Msg -> 0 .. MaxCopies]
    /\ out \in [Msg -> {"open", "done", "dead"}]
    /\ tries \in [Msg -> 0 .. MaxTries]
    /\ fetch \in [Host -> [due : SUBSET Msg, cur : Msg \cup {NoMsg},
                           found : BOOLEAN, ready : SUBSET Msg,
                           step : {"idle", "claimed", "read"}]]
    /\ crashes \in 0 .. MaxCrashes /\ faults \in 0 .. MaxFaults
    /\ todo \subseteq Msg /\ replays \in 0 .. crashes
    /\ scheduled \in [Msg -> Nat] /\ fired \in [Msg -> Nat]
    /\ merged \subseteq Msg /\ early \subseteq Msg

Init ==
    /\ backend \in Backends /\ durable \in BOOLEAN
    /\ hosts \in {{Main}, IF backend = "Redis" THEN Host ELSE {Main}}
    /\ store = [hd \in Handle |-> Empty] /\ disk = Empty /\ payload = {}
    /\ wire = {} /\ phase = [m \in Msg |-> "new"]
    /\ at \in [Msg -> {"none", "future"}]
    /\ queued = [m \in Msg |-> 0] /\ busy = queued /\ tries = queued
    /\ out = [m \in Msg |-> "open"] /\ fetch = [f \in Host |-> Idle]
    /\ todo = {} /\ replays = 0 /\ crashes = 0 /\ faults = 0
    /\ scheduled = queued /\ fired = queued /\ merged = {} /\ early = {}

-----------------------------------------------------------------------------
(* The operations of the trait Wal. *)

\* The handle that stands for hd: RedisWals have no state of their own.
Of(hd) == IF backend = "Redis" THEN "sync" ELSE hd

Delay(m) == store[Of("registry")].delay[m]
Record(m) == store[Of("registry")].rec[m]

Fault == faults < MaxFaults /\ faults' = faults + 1

\* update_state: an unknown id is an error, or a placeholder in a MemoryWal.
Updated(rec, m, s) ==
    IF rec[m] = "none" /\ backend # "Memory" THEN rec
                                              ELSE [rec EXCEPT ![m] = s]

\* flush of a PersistentWal: this handle's records and delays become the file.
Flushed(st) == IF backend = "Persistent" THEN st ELSE disk

\* Mutant: the payload is written, the index is not.
Indexed_Payload(m, d) == UNCHANGED store

Indexed(m, d) == store' = [store EXCEPT ![Of("registry")].delay[m] = d]

InFetch(f) == fetch[f].due \cup fetch[f].ready \cup ({fetch[f].cur} \ {NoMsg})

\* schedule: d tells whether deliver_at has passed already.  Keyed by id, so a
\* second one replaces the first.
Schedule(m, d) ==
    /\ Indexed(m, d)
    /\ payload' = IF backend = "Redis" THEN payload \cup {m} ELSE payload
    /\ scheduled' = [scheduled EXCEPT ![m] = @ + 1]
    /\ merged' = IF Delay(m) # "none" \/ \E f \in Host : m \in InFetch(f)
                 THEN merged \cup {m} ELSE merged
    /\ UNCHANGED <<disk, fired, early>>

\* Mutant: every indexed record counts as due.
Due_All == {m \in Msg : Delay(m) # "none"}

Due == {m \in Msg : Delay(m) = "due"}

Unindexed(S) ==
    store' = [store EXCEPT ![Of("registry")].delay =
                [m \in Msg |-> IF m \in S THEN "none" ELSE @[m]]]

-----------------------------------------------------------------------------
(* Applications and workers. *)

\* An application that wants durability appends before it sends ...
Append(m) ==
    /\ phase[m] = "new" /\ phase' = [phase EXCEPT ![m] = "appended"]
    /\ store' = [store EXCEPT ![Of("registry")].rec[m] = "Pending"]
    /\ UNCHANGED <<fixed, payload, disk, wire, at, queued, busy, out, tries,
                   fetch, runVars, faults, histVars>>

\* ... and may flush the handle it can reach.
Flush ==
    /\ disk' = Flushed(store["registry"]) /\ disk' # disk
    /\ UNCHANGED <<fixed, store, payload, wire, msgVars, fetch, runVars,
                   faults, histVars>>

More(q, m) == q[m] < MaxCopies /\ queued' = [q EXCEPT ![m] = @ + 1]

\* TopicRouter::send: schedule with a deliver_at, else the producer.  Nothing
\* in it appends.
Send(m) ==
    /\ phase[m] # "sent" /\ phase' = [phase EXCEPT ![m] = "sent"]
    /\ \/ at[m] # "none" /\ Schedule(m, at[m]) /\ UNCHANGED queued
       \/ at[m] = "none" /\ More(queued, m) /\ UNCHANGED <<walVars, histVars>>
    /\ UNCHANGED <<fixed, wire, at, busy, out, tries, fetch, runVars, faults>>

\* mark_processing, before the handler runs; if it fails the copy is lost.
Take(m) ==
    /\ queued[m] > 0 /\ busy[m] < MaxCopies
    /\ queued' = [queued EXCEPT ![m] = @ - 1]
    /\ \/ /\ busy' = [busy EXCEPT ![m] = @ + 1]
          /\ wire' = wire \cup {<<m, "Processing">>} /\ UNCHANGED faults
       \/ Fault /\ UNCHANGED <<busy, wire>>
    /\ UNCHANGED <<fixed, walVars, phase, at, out, tries, fetch, runVars,
                   histVars>>

\* Mutant: a message that is done is marked as if it were sent back.
Marks_Swapped(o) == IF o = "done" THEN {"Pending"} ELSE {"Failed"}

\* What the end of processing publishes: Ack, Dead, or NoAck at its last retry,
\* which marks the message pending and then failed.
Marks(o) ==
    CASE o = "done" -> {"Complete"}
      [] o = "dead" -> {"Failed"}
      [] o = "exhausted" -> {"Pending", "Failed"}

Leaves(m) == busy[m] > 0 /\ busy' = [busy EXCEPT ![m] = @ - 1]

\* The first mark that cannot be sent ends it with `?`.
Finish(m, o) ==
    /\ Leaves(m)
    /\ out' = [out EXCEPT ![m] = IF "done" \in {@, o} THEN "done" ELSE "dead"]
    /\ \/ wire' = wire \cup {<<m, s>> : s \in Marks(o)} /\ UNCHANGED faults
       \/ /\ Fault
          /\ \E S \in SUBSET (Marks(o) \cap {"Pending"}) :
                wire' = wire \cup {<<m, s>> : s \in S}
    /\ UNCHANGED <<fixed, walVars, phase, at, queued, tries, fetch, runVars,
                   histVars>>

\* NoAck with retries left, and Repeated: pending again, then the queue at
\* once, or the delay store, or, if that or the mark fails, nothing.
SendBack(m) ==
    /\ Leaves(m) /\ tries[m] < MaxTries
    /\ tries' = [tries EXCEPT ![m] = @ + 1]
    /\ wire' \in {wire, wire \cup {<<m, "Pending">>}}
    /\ \/ /\ <<m, "Pending">> \in wire' /\ UNCHANGED faults
          /\ \/ More(queued, m) /\ UNCHANGED <<walVars, histVars>>
             \/ Schedule(m, "future") /\ UNCHANGED queued
       \/ Fault /\ UNCHANGED <<queued, walVars, histVars>>
    /\ UNCHANGED <<fixed, phase, at, out, fetch, runVars>>

\* WalSyncHandler: update_state, then flush, even if the update failed.  In a
\* RedisWal the update may fail, in a PersistentWal the flush; that is only
\* logged.  The 32 workers of the topic take the updates in any order.
Sync(m, s) ==
    LET st == [store["sync"] EXCEPT !.rec = Updated(@, m, s)] IN
    /\ <<m, s>> \in wire /\ wire' = wire \ {<<m, s>>}
    /\ \/ /\ store' = [store EXCEPT !["sync"] = st]
          /\ disk' = Flushed(st) /\ UNCHANGED faults
       \/ /\ Fault /\ UNCHANGED disk
          /\ \/ backend = "Redis" /\ UNCHANGED store
             \/ /\ backend = "Persistent"
                /\ store' = [store EXCEPT !["sync"] = st]
    /\ UNCHANGED <<fixed, payload, msgVars, fetch, runVars, histVars>>

-----------------------------------------------------------------------------
(* The delay scheduler: fetch_ready, then one send after the other. *)

\* The in-memory stores hand out what is due under their lock; a RedisWal
\* only reads the ids whose score has passed.
FetchReady(f) ==
    /\ f \in hosts /\ fetch[f] = Idle /\ Due # {}
    /\ \/ /\ backend = "Redis" /\ fetch' = [fetch EXCEPT ![f].due = Due]
          /\ UNCHANGED store
       \/ /\ backend # "Redis" /\ fetch' = [fetch EXCEPT ![f].ready = Due]
          /\ Unindexed(Due)
    /\ UNCHANGED <<fixed, payload, disk, wire, msgVars, runVars, faults,
                   histVars>>

\* Mutant: the claim counts although ZREM removed nothing.
Claimed_Always(m) == TRUE

\* ZREM answers 1 to exactly one caller.
Claimed(m) == Delay(m) # "none"

Zrem(f, m) ==
    /\ m \in fetch[f].due /\ fetch[f].step = "idle"
    /\ fetch' = [fetch EXCEPT ![f].due = @ \ {m},
                              ![f].cur = IF Claimed(m) THEN m ELSE @,
                              ![f].step = IF Claimed(m) THEN "claimed" ELSE @]
    /\ Unindexed({m})
    /\ early' = IF Delay(m) = "future" THEN early \cup {m} ELSE early
    /\ UNCHANGED <<fixed, payload, disk, wire, msgVars, runVars, faults,
                   scheduled, fired, merged>>

Hget(f) ==
    /\ fetch[f].step = "claimed"
    /\ fetch' = [fetch EXCEPT ![f].found = fetch[f].cur \in payload,
                              ![f].step = "read"]
    /\ UNCHANGED <<fixed, walVars, wire, msgVars, runVars, faults, histVars>>

\* Mutant: the payload of a claimed record is left in the hash.
Deleted_Kept(m) == payload

Deleted(m) == payload \ {m}

Hdel(f) ==
    LET m == fetch[f].cur IN
    /\ fetch[f].step = "read"
    /\ payload' = Deleted(m)
    /\ fetch' = [fetch EXCEPT ![f].cur = NoMsg, ![f].step = "idle",
                              ![f].found = FALSE,
                              ![f].ready = IF fetch[f].found THEN @ \cup {m}
                                                             ELSE @]
    /\ UNCHANGED <<fixed, store, disk, wire, msgVars, runVars, faults,
                   histVars>>

\* An error in any of the round trips ends fetch_ready with `?`; the scheduler
\* goes on with an empty list, whatever had been claimed.
FetchFails(f) ==
    /\ fetch[f].due # {} \/ fetch[f].cur # NoMsg
    /\ Fault /\ fetch' = [fetch EXCEPT ![f] = Idle]
    /\ UNCHANGED <<fixed, walVars, wire, msgVars, runVars, histVars>>

\* The scheduler clears deliver_at and sends; an error is only logged.
Fire(f, m) ==
    /\ m \in fetch[f].ready /\ fetch[f].due = {} /\ fetch[f].step = "idle"
    /\ fetch' = [fetch EXCEPT ![f].ready = @ \ {m}]
    /\ \/ More(queued, m) /\ UNCHANGED faults
       \/ Fault /\ UNCHANGED queued
    /\ fired' = [fired EXCEPT ![m] = @ + 1]
    /\ UNCHANGED <<fixed, walVars, wire, phase, at, busy, out, tries, runVars,
                   scheduled, merged, early>>

-----------------------------------------------------------------------------
(* Restart and replay. *)

\* What a new process finds: nothing, the file, or the keys in Redis.
Reloaded ==
    CASE backend = "Memory"     -> [hd \in Handle |-> Empty]
      [] backend = "Persistent" -> [hd \in Handle |-> disk]
      [] backend = "Redis"      -> store

\* An application that died between append and send leaves that to replay.
GivenUp ==
    [m \in Msg |-> IF phase[m] = "appended" THEN "sent" ELSE phase[m]]

\* Host f dies with what it had in hand.  Queues on Redis Streams hand out
\* again those copies in workers that the dispatcher had not acknowledged yet.
Crash(f) ==
    /\ f \in hosts /\ crashes < MaxCrashes /\ crashes' = crashes + 1
    /\ fetch' = [fetch EXCEPT ![f] = Idle]
    /\ \/ /\ f # Main
          /\ UNCHANGED <<store, wire, phase, queued, busy, todo, replays>>
       \/ /\ f = Main /\ store' = Reloaded
          /\ todo' = {} /\ replays' = replays + 1
          /\ busy' = [m \in Msg |-> 0] /\ phase' = GivenUp
          /\ \/ /\ durable /\ UNCHANGED wire
                /\ \E again \in SUBSET Msg :
                     queued' = [m \in Msg |-> IF m \in again
                                               THEN queued[m] + busy[m]
                                               ELSE queued[m]]
                /\ \A m \in Msg : queued'[m] <= MaxCopies
             \/ ~durable /\ wire' = {} /\ queued' = busy'
    /\ UNCHANGED <<fixed, payload, disk, at, out, tries, faults, histVars>>

\* TopicRouter::replay, called by hand after a restart: a snapshot ...
ReplayPending == {m \in Msg : Record(m) = "Pending"}

Replay ==
    /\ replays > 0 /\ replays' = replays - 1
    /\ todo' = ReplayPending
    /\ UNCHANGED <<fixed, walVars, wire, msgVars, fetch, crashes, faults,
                   histVars>>

\* ... then every record of it is scheduled or sent; errors are collected.
ReplayOne(m) ==
    /\ m \in todo /\ todo' = todo \ {m}
    /\ \/ /\ at[m] = "future" /\ Schedule(m, at[m])
          /\ UNCHANGED <<queued, faults>>
       \/ /\ at[m] # "future" /\ UNCHANGED <<walVars, histVars>>
          /\ \/ More(queued, m) /\ UNCHANGED faults
             \/ Fault /\ UNCHANGED queued
    /\ UNCHANGED <<fixed, wire, phase, at, busy, out, tries, fetch, replays,
                   crashes>>

-----------------------------------------------------------------------------
Ripe(d) == [m \in Msg |-> IF d[m] = "future" THEN "due" ELSE d[m]]

\* Time passes: every deliver_at so far is reached.
Ripen ==
    /\ \E m \in Msg : at[m] = "future" \/ \E hd \in Handle :
                        store[hd].delay[m] = "future"
    /\ at' = Ripe(at)
    /\ store' = [hd \in Handle |-> [store[hd] EXCEPT !.delay = Ripe(@)]]
    /\ disk' = [disk EXCEPT !.delay = Ripe(@)]
    /\ UNCHANGED <<fixed, payload, wire, phase, queued, busy, out, tries,
                   fetch, runVars, faults, histVars>>

Next ==
    \/ \E m \in Msg : Append(m) \/ Send(m) \/ Take(m) \/ SendBack(m)
                        \/ ReplayOne(m)
    \/ \E m \in Msg, o \in {"done", "dead", "exhausted"} : Finish(m, o)
    \/ \E m \in Msg, s \in Status : Sync(m, s)
    \/ \E f \in Host : \/ FetchReady(f) \/ Hget(f) \/ Hdel(f) \/ FetchFails(f)
                       \/ Crash(f)
                       \/ \E m \in Msg : Zrem(f, m) \/ Fire(f, m)
    \/ Flush \/ Replay \/ Ripen

Spec == Init /\ [][Next]_vars

\* The scheduler's loop goes on, time passes, workers take what is queued and
\* end what they took.
Fairness ==
    /\ WF_vars(Ripen)
    /\ \A f \in Host : /\ WF_vars(FetchReady(f))
                       /\ WF_vars(Hget(f)) /\ WF_vars(Hdel(f))
                       /\ \A m \in Msg : /\ WF_vars(Zrem(f, m))
                                          /\ WF_vars(Fire(f, m))
    /\ \A m \in Msg : WF_vars(Take(m)) /\ WF_vars(Finish(m, "done"))
FairSpec == Spec /\ Fairness

-----------------------------------------------------------------------------
(* Properties. *)

NoFault == crashes = 0 /\ faults = 0

\* However many Hosts run a scheduler on one RedisWal, and whatever is sent
\* back meanwhile, a scheduled record is sent at most once (the claim by ZREM
\* of RedisWal::fetch_ready; the lock of the other two).
FiredOnce ==
    backend = "Redis" \/ crashes = 0 =>
        \A m \in Msg : fired[m] <= scheduled[m]

\* A single scheduler never sends a message before its deliver_at, if it is
\* not scheduled over itself (replay makes a second copy of a delayed message).
\* Two on one RedisWal may: the ids one of them read can have been claimed,
\* sent and scheduled anew by the time it claims them.
NotEarly == hosts = {Main} => early \subseteq merged

\* In Redis every indexed record has its payload, and a payload without an
\* index belongs to a claim under way, unless a crash or an error cut one
\* short or the id was scheduled again while it was scheduled
\* (SCHEDULE_LUA, fetch_ready).
DelayPaired ==
    backend = "Redis" /\ NoFault =>
        \A m \in Msg \ merged :
            m \in payload <=> \/ Delay(m) # "none"
                             \/ \E f \in hosts : fetch[f].cur = m

\* Once a message that was never sent back is done and its updates have been
\* applied, in whatever order, replay does not find it pending, if no update
\* was lost on its way or failed.  Holds for the RedisWal only: the updates of
\* the others go to a handle replay never reads.
DoneNotReplayed ==
    \A m \in Msg :
        /\ backend = "Redis" /\ out[m] = "done" /\ tries[m] = 0
        /\ NoFault /\ phase[m] = "sent"
        /\ \A s \in Status : <<m, s>> \notin wire
        => m \notin ReplayPending

\* A scheduled message is sent in the end, as often as it was scheduled, if
\* nothing fails and it is not scheduled over itself (run_delay_scheduler).
DelayFires ==
    \A m \in Msg :
        scheduled[m] > fired[m] ~>
            fired[m] = scheduled[m] \/ ~NoFault \/ m \in merged
=============================================================================
