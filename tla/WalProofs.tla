----------------------------- MODULE WalProofs -----------------------------
(***************************************************************************)
(* Safety of the delay store, for any messages, any number of Hosts that   *)
(* share a RedisWal, and any number of crashes and failed commands.        *)
(***************************************************************************)
EXTENDS Wal, FiniteSetTheorems, TLAPS

\* What scheduler f is doing.
DueIds(f) == fetch[f].due
Claim(f) == fetch[f].cur
Ready(f) == fetch[f].ready
Step(f) == fetch[f].step

\* The schedulers that have claimed a scheduling of m and not sent it yet.
Holders(m) == {f \in Host : m \in Ready(f) \/ Claim(f) = m}

\* Where a scheduler is in fetch_ready: it claims no id twice in one round.
FetchInv(f) ==
    /\ Claim(f) = NoMsg <=> Step(f) = "idle"
    /\ DueIds(f) \cap Ready(f) = {}
    /\ Claim(f) \notin DueIds(f) \cup Ready(f)
    /\ f \notin hosts => Claim(f) = NoMsg /\ DueIds(f) \cup Ready(f) = {}
    /\ backend # "Redis" => DueIds(f) = {} /\ Claim(f) = NoMsg

\* The ids a single scheduler has read stay due until it claims them.
DueInv(m) ==
    hosts = {Main} /\ m \notin merged =>
        /\ m \in DueIds(Main) => Delay(m) = "due"
        /\ m \notin early

\* A claim under way excludes the index and any other claim.
PairInv(m) ==
    backend = "Redis" /\ NoFault /\ m \notin merged =>
        /\ m \in payload <=> (Delay(m) # "none" \/ \E f \in Host : Claim(f) = m)
        /\ \A f \in Host : Claim(f) = m =>
             /\ Delay(m) = "none"
             /\ \A g \in Host : Claim(g) = m => g = f

DelayInv ==
    /\ TypeOK
    /\ \A f \in Host : FetchInv(f)
    /\ \A m \in Msg : DueInv(m) /\ PairInv(m)

USE WalAssumption DEF Handle, Host, Status
-----------------------------------------------------------------------------
(* Types. *)

WalType ==
    store \in [Handle -> Store] /\ disk \in Store /\ payload \subseteq Msg
HistType ==
    /\ scheduled \in [Msg -> Nat] /\ fired \in [Msg -> Nat]
    /\ merged \subseteq Msg /\ early \subseteq Msg

\* A store with other records is a store.
LEMMA RecordsStored ==
    ASSUME NEW st \in Store, NEW r \in [Msg -> Status \cup {"none"}]
    PROVE  [st EXCEPT !.rec = r] \in Store
  BY Zenon DEF Store

\* schedule writes a well-typed delayed record.
LEMMA ScheduleType ==
    ASSUME TypeOK, NEW m \in Msg, NEW d \in {"future", "due"}, Schedule(m, d)
    PROVE  WalType' /\ HistType'
  <1>1. store' \in [Handle -> Store]
    BY DEF TypeOK, Schedule, Indexed, Of, Store
  <1>2. disk' \in Store /\ payload' \subseteq Msg
    BY Zenon DEF TypeOK, Schedule
  <1>3. HistType'
    BY DEF TypeOK, Schedule, HistType
  <1> QED  BY Zenon, <1>1, <1>2, <1>3 DEF WalType

\* Taking ids out of the index leaves a well-typed store.
LEMMA UnindexedType ==
    ASSUME TypeOK, NEW S, Unindexed(S)
    PROVE  store' \in [Handle -> Store]
  BY DEF TypeOK, Unindexed, Of, Store

\* A copy is added to the queue within its bound.
LEMMA MoreType ==
    ASSUME TypeOK, NEW m \in Msg, More(queued, m)
    PROVE  queued' \in [Msg -> 0 .. MaxCopies]
  BY DEF TypeOK, More

\* The steps of applications and workers keep the types.
LEMMA WorkType ==
    ASSUME TypeOK, NEW m \in Msg,
           \/ Append(m) \/ Send(m) \/ Take(m) \/ SendBack(m) \/ ReplayOne(m)
           \/ \E o \in {"done", "dead", "exhausted"} : Finish(m, o)
           \/ \E s \in Status : Sync(m, s)
    PROVE  TypeOK'
  <1>1. CASE Append(m)
    <2>1. store' \in [Handle -> Store]
      <3> DEFINE h == Of("registry")
                 r == [store[h].rec EXCEPT ![m] = "Pending"]
      <3>1. h \in Handle
        BY Zenon DEF Of
      <3>2. store \in [Handle -> Store]
        BY Zenon DEF TypeOK
      <3>3. store[h] \in Store /\ r \in [Msg -> Status \cup {"none"}]
        BY Zenon, <3>1, <3>2 DEF Store
      <3>4. [store[h] EXCEPT !.rec = r] \in Store
        BY Zenon, <3>3, RecordsStored
      <3>5. store' = [store EXCEPT ![h] = [store[h] EXCEPT !.rec = r]]
        BY Zenon, <1>1 DEF Append
      <3> HIDE DEF h, r
      <3> QED  BY Zenon, <3>1, <3>2, <3>4, <3>5
    <2> QED  BY Zenon, <1>1, <2>1 DEF TypeOK, Append, fixed, runVars, histVars
  <1>2. CASE Send(m)
    <2>1. CASE at[m] # "none" /\ Schedule(m, at[m]) /\ UNCHANGED queued
      <3>1. at[m] \in {"future", "due"}
        BY Zenon, <2>1 DEF TypeOK
      <3>2. WalType' /\ HistType'
        BY Zenon, <2>1, <3>1, ScheduleType
      <3> QED  BY Zenon, <1>2, <2>1, <3>2 DEF TypeOK, Send, fixed, runVars,
                  WalType, HistType
    <2>2. CASE More(queued, m) /\ UNCHANGED <<walVars, histVars>>
      <3>1. queued' \in [Msg -> 0 .. MaxCopies]
        BY Zenon, <2>2, MoreType
      <3> QED  BY Zenon, <1>2, <2>2, <3>1 DEF TypeOK, Send, fixed, walVars,
                  runVars, histVars
    <2> QED  BY Zenon, <1>2, <2>1, <2>2 DEF Send
  <1>3. CASE Take(m)
    <2>1. queued' \in [Msg -> 0 .. MaxCopies]
      BY <1>3 DEF TypeOK, Take
    <2>2. CASE /\ busy' = [busy EXCEPT ![m] = @ + 1]
               /\ wire' = wire \cup {<<m, "Processing">>} /\ UNCHANGED faults
      <3>1. /\ busy' \in [Msg -> 0 .. MaxCopies]
            /\ wire' \subseteq Msg \X Status
        BY <1>3, <2>2 DEF TypeOK, Take
      <3> QED  BY Zenon, <1>3, <2>1, <2>2, <3>1 DEF TypeOK, Take, fixed,
                  walVars, runVars, histVars
    <2>3. CASE Fault /\ UNCHANGED <<busy, wire>>
      <3>1. faults' \in 0 .. MaxFaults
        BY <2>3 DEF TypeOK, Fault
      <3> QED  BY Zenon, <1>3, <2>1, <2>3, <3>1 DEF TypeOK, Take, fixed,
                  walVars, runVars, histVars
    <2> QED  BY Zenon, <1>3, <2>2, <2>3 DEF Take
  <1>4. CASE SendBack(m)
    <2>1. /\ busy' \in [Msg -> 0 .. MaxCopies]
          /\ tries' \in [Msg -> 0 .. MaxTries] /\ wire' \subseteq Msg \X Status
      BY <1>4 DEF TypeOK, SendBack, Leaves
    <2>2. CASE /\ More(queued, m) /\ UNCHANGED <<walVars, histVars>>
               /\ UNCHANGED faults
      BY Zenon, <1>4, <2>1, <2>2, MoreType DEF TypeOK, SendBack, fixed,
         walVars, runVars, histVars
    <2>3. CASE Schedule(m, "future") /\ UNCHANGED <<queued, faults>>
      <3>1. WalType' /\ HistType'
        BY Zenon, <2>3, ScheduleType
      <3> QED  BY Zenon, <1>4, <2>1, <2>3, <3>1 DEF TypeOK, SendBack, fixed,
                  runVars, WalType, HistType
    <2>4. CASE Fault /\ UNCHANGED <<queued, walVars, histVars>>
      BY <1>4, <2>1, <2>4 DEF TypeOK, SendBack, Fault, fixed, walVars,
         runVars, histVars
    <2> QED  BY Zenon, <1>4, <2>2, <2>3, <2>4 DEF SendBack
  <1>5. CASE ReplayOne(m)
    <2>1. todo' \subseteq Msg
      BY Zenon, <1>5 DEF TypeOK, ReplayOne
    <2>2. CASE at[m] = "future" /\ Schedule(m, at[m]) /\ UNCHANGED <<queued, faults>>
      <3>1. WalType' /\ HistType'
        BY Zenon, <2>2, ScheduleType
      <3> QED  BY Zenon, <1>5, <2>1, <2>2, <3>1 DEF TypeOK, ReplayOne,
                  fixed, WalType, HistType
    <2>3. CASE /\ UNCHANGED <<walVars, histVars>>
               /\ \/ More(queued, m) /\ UNCHANGED faults
                  \/ Fault /\ UNCHANGED queued
      <3>1. queued' \in [Msg -> 0 .. MaxCopies] /\ faults' \in 0 .. MaxFaults
        BY <2>3, MoreType DEF TypeOK, Fault
      <3> QED  BY Zenon, <1>5, <2>1, <2>3, <3>1 DEF TypeOK, ReplayOne,
                  fixed, walVars, histVars
    <2> QED  BY Zenon, <1>5, <2>2, <2>3 DEF ReplayOne
  <1>6. ASSUME NEW o \in {"done", "dead", "exhausted"}, Finish(m, o)
        PROVE  TypeOK'
    <2>1. Marks(o) \subseteq Status
      BY Zenon DEF Marks
    <2>2. ASSUME NEW S \in SUBSET Marks(o),
                 wire' = wire \cup {<<m, s>> : s \in S}
          PROVE  wire' \subseteq Msg \X Status
      BY <2>1, <2>2 DEF TypeOK
    <2>3. wire' \subseteq Msg \X Status
      BY Zenon, <1>6, <2>2 DEF Finish
    <2>4. faults' \in 0 .. MaxFaults
      BY <1>6 DEF TypeOK, Finish, Fault
    <2>5. /\ busy' \in [Msg -> 0 .. MaxCopies]
          /\ out' \in [Msg -> {"open", "done", "dead"}]
      BY <1>6 DEF TypeOK, Finish, Leaves
    <2> QED  BY Zenon, <1>6, <2>3, <2>4, <2>5 DEF TypeOK, Finish, fixed,
                walVars, runVars, histVars
  <1>7. ASSUME NEW s \in Status, Sync(m, s)
        PROVE  TypeOK'
    <2> DEFINE r == Updated(store["sync"].rec, m, s)
               st == [store["sync"] EXCEPT !.rec = r]
    <2>1. st \in Store
      <3>1. store["sync"] \in Store
        BY Zenon DEF TypeOK
      <3>2. r \in [Msg -> Status \cup {"none"}]
        BY Zenon, <3>1 DEF Store, Updated
      <3> QED  BY Zenon, <3>1, <3>2, RecordsStored
    <2>2. /\ store' = [store EXCEPT !["sync"] = st] \/ UNCHANGED store
          /\ \/ disk' = Flushed(st) /\ UNCHANGED faults
             \/ Fault /\ UNCHANGED disk
          /\ wire' = wire \ {<<m, s>>}
      BY Zenon, <1>7 DEF Sync
    <2> HIDE DEF st
    <2>3. /\ store' \in [Handle -> Store] /\ disk' \in Store
          /\ faults' \in 0 .. MaxFaults /\ wire' \subseteq Msg \X Status
      BY <2>1, <2>2 DEF TypeOK, Flushed, Fault
    <2> QED  BY Zenon, <1>7, <2>3 DEF TypeOK, Sync, fixed, msgVars, runVars,
                histVars
  <1> QED  BY Zenon, <1>1, <1>2, <1>3, <1>4, <1>5, <1>6, <1>7

Round == [due : SUBSET Msg, cur : Msg \cup {NoMsg}, found : BOOLEAN,
          ready : SUBSET Msg, step : {"idle", "claimed", "read"}]

\* A scheduler between two rounds is well typed.
LEMMA IdleType == Idle \in Round
  BY Zenon DEF Idle, Round

\* The steps of the schedulers keep the types.
LEMMA FetchType ==
    ASSUME TypeOK, NEW f \in Host, FetchInv(f),
           \/ FetchReady(f) \/ Hget(f) \/ Hdel(f) \/ FetchFails(f)
           \/ \E m \in Msg : Zrem(f, m) \/ Fire(f, m)
    PROVE  TypeOK'
  <1>0. fetch \in [Host -> Round] /\ fetch[f] \in Round
    BY Zenon DEF TypeOK, Round
  <1>1. CASE FetchReady(f)
    <2>1. Due \subseteq Msg
      BY Zenon DEF Due
    <2>2. fetch' \in [Host -> Round]
      BY <1>0, <1>1, <2>1 DEF FetchReady, Round
    <2>3. store' \in [Handle -> Store]
      BY Zenon, <1>1, UnindexedType DEF FetchReady, TypeOK
    <2> QED  BY Zenon, <1>1, <2>2, <2>3 DEF TypeOK, FetchReady, Round,
                fixed, msgVars, runVars, histVars
  <1>2. CASE Hget(f)
    <2>1. fetch' \in [Host -> Round]
      BY <1>0, <1>2 DEF Hget, Round
    <2> QED  BY Zenon, <1>2, <2>1 DEF TypeOK, Hget, Round, fixed, walVars,
                msgVars, runVars, histVars
  <1>3. CASE Hdel(f)
    <2>1. payload' \subseteq Msg
      BY Zenon, <1>3 DEF TypeOK, Hdel, Deleted
    <2>2. fetch' \in [Host -> Round]
      <3> DEFINE q == [fetch[f] EXCEPT !.cur = NoMsg, !.step = "idle",
                         !.found = FALSE,
                         !.ready = IF fetch[f].found
                                   THEN Ready(f) \cup {Claim(f)}
                                   ELSE Ready(f)]
      <3>1. fetch' = [fetch EXCEPT ![f] = q] /\ Step(f) = "read"
        BY Zenon, <1>0, <1>3 DEF Hdel, Step, Claim, Ready
      <3>2. Claim(f) \in Msg
        BY Zenon, <1>0, <3>1 DEF FetchInv, Round, Claim
      <3>3. q \in Round
        BY Zenon, <1>0, <3>2 DEF Round, Ready
      <3> HIDE DEF q
      <3> QED  BY Zenon, <1>0, <3>1, <3>3
    <2> QED  BY Zenon, <1>3, <2>1, <2>2 DEF TypeOK, Hdel, Round, fixed,
                msgVars, runVars, histVars
  <1>4. CASE FetchFails(f)
    <2>1. fetch' \in [Host -> Round]
      BY Zenon, <1>0, <1>4, IdleType DEF FetchFails
    <2>2. faults' \in 0 .. MaxFaults
      BY <1>4 DEF FetchFails, Fault, TypeOK
    <2> QED  BY Zenon, <1>4, <2>1, <2>2 DEF TypeOK, FetchFails, Round,
                fixed, walVars, msgVars, runVars, histVars
  <1>5. ASSUME NEW m \in Msg, Zrem(f, m)
        PROVE  TypeOK'
    <2>1. fetch' \in [Host -> Round]
      BY Zenon, <1>0, <1>5 DEF Zrem, Round
    <2>2. store' \in [Handle -> Store]
      BY Zenon, <1>5, UnindexedType DEF Zrem
    <2>3. early' \subseteq Msg
      BY Zenon, <1>5 DEF Zrem, TypeOK
    <2> QED  BY Zenon, <1>5, <2>1, <2>2, <2>3 DEF TypeOK, Zrem, Round,
                fixed, msgVars, runVars
  <1>6. ASSUME NEW m \in Msg, Fire(f, m)
        PROVE  TypeOK'
    <2>1. fetch' \in [Host -> Round]
      BY Zenon, <1>0, <1>6 DEF Fire, Round
    <2>2. /\ queued' \in [Msg -> 0 .. MaxCopies] /\ faults' \in 0 .. MaxFaults
          /\ fired' \in [Msg -> Nat]
      BY <1>6, MoreType DEF Fire, Fault, TypeOK
    <2> QED  BY Zenon, <1>6, <2>1, <2>2 DEF TypeOK, Fire, Round, fixed,
                walVars, runVars
  <1> QED  BY Zenon, <1>1, <1>2, <1>3, <1>4, <1>5, <1>6

\* So do a crash, a flush, a replay and the passing of time.
LEMMA SystemType ==
    ASSUME TypeOK, Flush \/ Replay \/ Ripen \/ \E f \in Host : Crash(f)
    PROVE  TypeOK'
  <1>1. CASE Flush
    BY Zenon, <1>1 DEF TypeOK, Flush, Flushed, fixed, msgVars, runVars,
       histVars
  <1>2. CASE Replay
    <2>1. todo' \subseteq Msg /\ replays' \in 0 .. crashes
      BY <1>2 DEF TypeOK, Replay, ReplayPending
    <2> QED  BY Zenon, <1>2, <2>1 DEF TypeOK, Replay, fixed, walVars, msgVars,
                histVars
  <1>3. CASE Ripen
    <2>1. /\ \A d \in [Msg -> {"none", "future", "due"}] :
                Ripe(d) \in [Msg -> {"none", "future", "due"}]
          /\ \A st \in Store : [st EXCEPT !.delay = Ripe(@)] \in Store
      BY Zenon DEF Ripe, Store
    <2>2. /\ at' \in [Msg -> {"none", "future", "due"}]
          /\ disk' \in Store
      BY Zenon, <1>3, <2>1 DEF Ripen, TypeOK
    <2>3. store' \in [Handle -> Store]
      BY Zenon, <1>3, <2>1 DEF Ripen, TypeOK
    <2> QED  BY Zenon, <1>3, <2>2, <2>3 DEF TypeOK, Ripen, fixed, runVars,
                histVars
  <1>4. ASSUME NEW f \in Host, Crash(f)
        PROVE  TypeOK'
    <2>1. fetch' \in [Host -> Round] /\ crashes' \in 0 .. MaxCrashes
      BY <1>4, IdleType DEF TypeOK, Crash, Round
    <2>2. CASE f # Main
      BY <1>4, <2>1, <2>2 DEF TypeOK, Crash, Round, fixed, histVars
    <2>3. CASE f = Main
      <3>1. Empty \in Store
        BY Zenon DEF Empty, Store
      <3>2. Reloaded \in {[hd \in Handle |-> Empty], [hd \in Handle |-> disk], store}
        BY Zenon DEF Reloaded, TypeOK
      <3>3. store' \in [Handle -> Store]
        BY <1>4, <2>3, <3>1, <3>2 DEF Crash, TypeOK
      <3>4. /\ busy' \in [Msg -> 0 .. MaxCopies] /\ wire' \subseteq Msg \X Status
            /\ phase' \in [Msg -> {"new", "appended", "sent"}]
            /\ todo' \subseteq Msg /\ replays' \in 0 .. crashes'
        BY <1>4, <2>3 DEF Crash, TypeOK, GivenUp
      <3>5. queued' \in [Msg -> 0 .. MaxCopies]
        BY <1>4, <2>3, <3>4 DEF Crash, TypeOK
      <3> QED  BY Zenon, <1>4, <2>1, <3>3, <3>4, <3>5 DEF TypeOK, Crash,
                  Round, fixed, histVars
    <2> QED  BY Zenon, <2>2, <2>3
  <1> QED  BY Zenon, <1>1, <1>2, <1>3, <1>4

-----------------------------------------------------------------------------
(* What the steps do to the index and to the schedulers. *)

HIDE WalAssumption DEF Handle, Host, Status

\* The modelled Host is a Host, and the scheduler's empty hand is no message.
LEMMA MainHost == Main \in Host /\ NoMsg \notin Msg
  BY Zenon, WalAssumption DEF Host

\* schedule puts m into the index and touches no other id.
LEMMA ScheduleIndex ==
    ASSUME TypeOK, NEW m \in Msg, NEW d, Schedule(m, d), UNCHANGED backend,
           NEW x \in Msg
    PROVE  Delay(x)' = IF x = m THEN d ELSE Delay(x)
  BY DEF TypeOK, Handle, Store, Schedule, Indexed, Of, Delay

\* A claim takes exactly its ids out of the index.
LEMMA UnindexedIndex ==
    ASSUME TypeOK, NEW S, Unindexed(S), UNCHANGED backend, NEW x \in Msg
    PROVE  Delay(x)' = IF x \in S THEN "none" ELSE Delay(x)
  BY DEF TypeOK, Handle, Store, Unindexed, Of, Delay

\* Two stores with the same delays have the same index.
LEMMA SameIndex ==
    ASSUME UNCHANGED backend,
           \A hd \in Handle : store'[hd].delay = store[hd].delay,
           NEW x \in Msg
    PROVE  Delay(x)' = Delay(x)
  BY Zenon DEF Delay, Of, Handle

SameRound(f) ==
    /\ DueIds(f)' = DueIds(f) /\ Claim(f)' = Claim(f)
    /\ Ready(f)' = Ready(f) /\ Step(f)' = Step(f)
Alone(f) == \A g \in Host \ {f} : SameRound(g)

\* A scheduler that starts afresh has nothing in hand.
LEMMA IdleRound ==
    ASSUME NEW f, fetch[f] = Idle
    PROVE  /\ DueIds(f) = {} /\ Ready(f) = {} /\ Claim(f) = NoMsg
           /\ Step(f) = "idle"
  BY DEF Idle, DueIds, Ready, Claim, Step

\* A step may forget a scheduling of m, add one, let one scheduler claim it
\* from the index, or let its holder send it.
Forgets(m) ==
    /\ scheduled'[m] = scheduled[m] /\ fired'[m] = fired[m]
    /\ Holders(m)' \subseteq Holders(m)
    /\ Delay(m)' # "none" => Delay(m) # "none"
Adds(m) ==
    /\ scheduled'[m] = scheduled[m] + 1 /\ fired'[m] = fired[m]
    /\ Holders(m)' \subseteq Holders(m)
Claims(m) ==
    /\ scheduled'[m] = scheduled[m] /\ fired'[m] = fired[m]
    /\ \E f \in Host : Holders(m)' = Holders(m) \cup {f}
    /\ Delay(m) # "none" /\ Delay(m)' = "none"
Sends(m) ==
    /\ scheduled'[m] = scheduled[m] /\ fired'[m] = fired[m] + 1
    /\ \E f \in Holders(m) : Holders(m)' = Holders(m) \ {f}
    /\ Delay(m)' # "none" => Delay(m) # "none"

\* What every step does; a crash may also wipe an index that is not in Redis.
Moves(m) ==
    \/ Forgets(m) \/ Adds(m) \/ Claims(m) \/ Sends(m)
    \/ backend # "Redis" /\ crashes' # 0

MsgInv(m) == DueInv(m) /\ PairInv(m)
Kept(m) == DueInv(m)' /\ PairInv(m)' /\ Moves(m)
Keeps == (\A f \in Host : FetchInv(f)') /\ (\A m \in Msg : Kept(m))

-----------------------------------------------------------------------------
(* The steps that leave the schedulers alone. *)

Calm == NoFault' => NoFault

\* A step that neither schedules nor claims; records may become due.
Quiet ==
    /\ UNCHANGED <<backend, hosts, payload, scheduled, fired, merged, early>>
    /\ \A f \in Host : SameRound(f)
    /\ Calm
    /\ \A x \in Msg : Delay(x)' = Delay(x)
                       \/ (Delay(x) = "future" /\ Delay(x)' = "due")

\* Such a step keeps everything.
LEMMA QuietKeeps ==
    ASSUME DelayInv, Quiet
    PROVE  Keeps
  <1>1. ASSUME NEW f \in Host
        PROVE  FetchInv(f)'
    BY Zenon DEF DelayInv, FetchInv, Quiet, SameRound
  <1>2. ASSUME NEW m \in Msg
        PROVE  Kept(m)
    <2>1. MsgInv(m)
      BY Zenon DEF DelayInv, MsgInv
    <2>2. Holders(m)' = Holders(m)
      BY Zenon DEF Quiet, SameRound, Holders
    <2>3. Forgets(m)
      BY Zenon, <2>2 DEF Quiet, Forgets
    <2>4. DueInv(m)'
      BY Zenon, <2>1, MainHost DEF MsgInv, DueInv, Quiet, SameRound
    <2>5. PairInv(m)'
      BY Zenon, <2>1 DEF MsgInv, PairInv, Quiet, Calm, SameRound
    <2> QED  BY Zenon, <2>3, <2>4, <2>5 DEF Kept, Moves
  <1> QED  BY Zenon, <1>1, <1>2 DEF Keeps

\* schedule, as a step of its own.
Schedules(x, d) ==
    /\ Schedule(x, d)
    /\ UNCHANGED <<backend, hosts, crashes, faults>>
    /\ \A f \in Host : SameRound(f)

\* So does schedule: a second scheduling of a message counts as merged.
LEMMA ScheduleKeeps ==
    ASSUME DelayInv, NEW x \in Msg, NEW d \in {"future", "due"},
           Schedules(x, d)
    PROVE  Keeps
  <1>1. TypeOK /\ Schedule(x, d)
        /\ UNCHANGED <<backend, hosts, crashes, faults, fired, early>>
    BY Zenon DEF DelayInv, Schedules, Schedule
  <1>2. ASSUME NEW f \in Host
        PROVE  FetchInv(f)'
    BY Zenon, <1>1 DEF DelayInv, FetchInv, Schedules, SameRound
  <1>3. /\ payload' = IF backend = "Redis" THEN payload \cup {x} ELSE payload
        /\ merged \subseteq merged' /\ merged' \subseteq merged \cup {x}
        /\ x \notin merged' => /\ Delay(x) = "none"
                               /\ \A f \in Host : x \notin InFetch(f)
    BY Zenon DEF Schedules, Schedule
  <1>4. x \notin merged' => \A f \in Host : x \notin DueIds(f) /\ Claim(f) # x
    BY Zenon, <1>3, MainHost DEF InFetch, DueIds, Claim
  <1>5. ASSUME NEW m \in Msg
        PROVE  Kept(m)
    <2>1. MsgInv(m) /\ Delay(m)' = IF m = x THEN d ELSE Delay(m)
      BY Zenon, <1>1, ScheduleIndex DEF DelayInv, MsgInv
    <2>2. Holders(m)' = Holders(m)
      BY Zenon DEF Schedules, SameRound, Holders
    <2>3. scheduled'[m] = IF m = x THEN scheduled[m] + 1 ELSE scheduled[m]
      BY Zenon, <1>1 DEF Schedule, TypeOK
    <2>4. Forgets(m) \/ Adds(m)
      BY Zenon, <1>1, <2>1, <2>2, <2>3 DEF Forgets, Adds
    <2>5. DueInv(m)'
      BY Zenon, <1>1, <1>3, <1>4, <2>1, MainHost DEF MsgInv, DueInv, Schedules,
         SameRound
    <2>6. PairInv(m)'
      <3>1. NoFault' = NoFault
        BY Zenon, <1>1 DEF NoFault
      <3> QED  BY Zenon, <1>1, <1>3, <1>4, <2>1, <3>1 DEF MsgInv, PairInv,
                  Schedules, SameRound
    <2> QED  BY Zenon, <2>4, <2>5, <2>6 DEF Kept, Moves
  <1> QED  BY Zenon, <1>2, <1>5 DEF Keeps

\* The steps of applications and workers, and of the system apart from crashes.
LEMMA WorkKeeps ==
    ASSUME DelayInv,
           \/ \E x \in Msg :
                \/ Append(x) \/ Send(x) \/ Take(x) \/ SendBack(x)
                \/ ReplayOne(x)
                \/ \E o \in {"done", "dead", "exhausted"} : Finish(x, o)
                \/ \E s \in Status : Sync(x, s)
           \/ Flush \/ Replay \/ Ripen
    PROVE  Keeps
  <1> DEFINE Scheduling == \E x \in Msg, d \in {"future", "due"} : Schedules(x, d)
  <1>0. TypeOK
    BY Zenon DEF DelayInv
  <1>1. SUFFICES Quiet \/ Scheduling
    BY Zenon, <1>1, QuietKeeps, ScheduleKeeps
  <1>2. ASSUME UNCHANGED fetch
        PROVE  \A f \in Host : SameRound(f)
    BY Zenon, <1>2 DEF SameRound, DueIds, Claim, Ready, Step
  <1>3. ASSUME UNCHANGED crashes, UNCHANGED faults \/ Fault
        PROVE  Calm
    <2>1. faults \in Nat
      BY <1>0 DEF TypeOK
    <2> QED  BY <1>3, <2>1 DEF Calm, NoFault, Fault
  <1>4. ASSUME UNCHANGED <<fixed, fetch, payload, histVars, crashes>>,
               UNCHANGED faults \/ Fault,
               \A hd \in Handle : store'[hd].delay = store[hd].delay
        PROVE  Quiet
    BY Zenon, <1>2, <1>3, <1>4, SameIndex DEF Quiet, fixed, histVars
  <1>5. ASSUME UNCHANGED <<fixed, fetch, walVars, histVars, crashes>>,
               UNCHANGED faults \/ Fault
        PROVE  Quiet
    BY Zenon, <1>4, <1>5 DEF walVars
  <1>6. ASSUME NEW x \in Msg, NEW d \in {"future", "due"}, Schedule(x, d),
               UNCHANGED <<fixed, fetch, crashes, faults>>
        PROVE  Scheduling
    BY Zenon, <1>2, <1>6 DEF Schedules, fixed
  <1> HIDE DEF Scheduling
  <1>7. ASSUME NEW x \in Msg, Append(x)
        PROVE  Quiet
    <2>1. \A hd \in Handle : store'[hd].delay = store[hd].delay
      BY <1>0, <1>7 DEF Append, Of, TypeOK, Store, Handle
    <2> QED  BY Zenon, <1>4, <1>7, <2>1 DEF Append, runVars
  <1>8. ASSUME NEW x \in Msg, Send(x)
        PROVE  Quiet \/ Scheduling
    <2>1. at[x] \in {"none", "future", "due"}
      BY Zenon, <1>0 DEF TypeOK
    <2>2. CASE at[x] # "none" /\ Schedule(x, at[x])
      BY Zenon, <1>6, <1>8, <2>1, <2>2 DEF Send, runVars
    <2>3. CASE UNCHANGED <<walVars, histVars>>
      BY Zenon, <1>5, <1>8, <2>3 DEF Send, runVars
    <2> QED  BY Zenon, <1>8, <2>2, <2>3 DEF Send
  <1>9. ASSUME NEW x \in Msg, SendBack(x)
        PROVE  Quiet \/ Scheduling
    BY Zenon, <1>5, <1>6, <1>9 DEF SendBack, runVars
  <1>10. ASSUME NEW x \in Msg, ReplayOne(x)
         PROVE  Quiet \/ Scheduling
    BY Zenon, <1>5, <1>6, <1>10 DEF ReplayOne
  <1>11. ASSUME NEW x \in Msg,
                Take(x) \/ \E o \in {"done", "dead", "exhausted"} : Finish(x, o)
         PROVE  Quiet
    BY Zenon, <1>5, <1>11 DEF Take, Finish, runVars
  <1>12. ASSUME NEW x \in Msg, NEW s \in Status, Sync(x, s)
         PROVE  Quiet
    <2>1. /\ \/ store' = [store EXCEPT !["sync"] =
                            [store["sync"] EXCEPT !.rec =
                               Updated(store["sync"].rec, x, s)]]
             \/ UNCHANGED store
          /\ UNCHANGED faults \/ Fault
          /\ UNCHANGED <<fixed, fetch, payload, histVars, crashes>>
      BY <1>12, Zenon DEF Sync, runVars
    <2>2. store \in [Handle -> Store]
      BY Zenon, <1>0 DEF TypeOK
    <2>3. \A hd \in Handle : store'[hd].delay = store[hd].delay
      BY ZenonT(60), <2>1, <2>2 DEF Store
    <2> QED  BY ZenonT(60), <1>4, <2>1, <2>3
  <1>13. CASE Flush
    BY Zenon, <1>4, <1>13 DEF Flush, runVars
  <1>14. CASE Replay
    BY Zenon, <1>5, <1>14 DEF Replay
  <1>15. CASE Ripen
    <2>1. \A hd \in Handle, y \in Msg :
            store'[hd].delay[y] = IF store[hd].delay[y] = "future"
                                  THEN "due" ELSE store[hd].delay[y]
      BY <1>0, <1>15 DEF Ripen, Ripe, TypeOK, Store
    <2>2. /\ UNCHANGED <<fixed, payload, fetch, histVars, crashes, faults>>
          /\ UNCHANGED backend
      BY Zenon, <1>15 DEF Ripen, runVars, fixed
    <2>3. \A y \in Msg : Delay(y)' = Delay(y)
                       \/ (Delay(y) = "future" /\ Delay(y)' = "due")
      BY Zenon, <2>1, <2>2 DEF Delay, Of, Handle
    <2> QED  BY Zenon, <1>2, <1>3, <2>2, <2>3 DEF Quiet, fixed, histVars
  <1> QED  BY Zenon, <1>7, <1>8, <1>9, <1>10, <1>11, <1>12, <1>13, <1>14, <1>15

-----------------------------------------------------------------------------
(* The steps of the schedulers. *)

\* A step of f alone keeps what is claimed of the other schedulers.
LEMMA OtherFetch ==
    ASSUME DelayInv, NEW f \in Host, UNCHANGED <<backend, hosts>>, Alone(f),
           FetchInv(f)'
    PROVE  \A g \in Host : FetchInv(g)'
  BY Zenon DEF DelayInv, FetchInv, Alone, SameRound

\* A step of f writes no other scheduler's round.
LEMMA OthersAlone ==
    ASSUME NEW f \in Host, \A g \in Host \ {f} : fetch'[g] = fetch[g]
    PROVE  Alone(f)
  BY Zenon DEF Alone, SameRound, DueIds, Claim, Ready, Step

\* The types the schedulers' steps rely on.
LEMMA RoundTypes ==
    ASSUME DelayInv
    PROVE  TypeOK /\ fetch \in [Host -> Round]
  BY Zenon DEF DelayInv, TypeOK, Round

\* The round that a step of f leaves it in.
Becomes(f, due, claim, ready, step) ==
    /\ DueIds(f)' = due /\ Claim(f)' = claim
    /\ Ready(f)' = ready /\ Step(f)' = step

\* fetch_ready reads the ids that are due, or takes them under the lock.
LEMMA FetchReadyKeeps ==
    ASSUME DelayInv, NEW f \in Host, FetchReady(f)
    PROVE  Keeps
  <1>1. TypeOK /\ fetch \in [Host -> Round]
    BY Zenon, RoundTypes
  <1>2. /\ DueIds(f) = {} /\ Ready(f) = {} /\ Claim(f) = NoMsg
        /\ Step(f) = "idle"
    BY Zenon, IdleRound DEF FetchReady
  <1>3. /\ UNCHANGED <<backend, hosts, crashes, faults, payload, scheduled,
                       fired, merged, early>>
        /\ f \in hosts
    BY Zenon DEF FetchReady, fixed, runVars, histVars
  <1>4. Alone(f)
    <2>1. \A g \in Host \ {f} : fetch'[g] = fetch[g]
      BY Zenon, <1>1 DEF FetchReady
    <2> QED  BY Zenon, <2>1, OthersAlone
  <1>5. CASE backend = "Redis"
    <2>1. Becomes(f, Due, Claim(f), Ready(f), Step(f)) /\ UNCHANGED store
      BY <1>1, <1>5 DEF FetchReady, Round, Becomes, DueIds, Claim, Ready, Step
    <2>2. FetchInv(f)'
      BY Zenon, <1>2, <1>3, <1>5, <2>1, MainHost DEF FetchInv, Due, Becomes
    <2>3. ASSUME NEW m \in Msg
          PROVE  Kept(m)
      <3>1. MsgInv(m) /\ Delay(m)' = Delay(m)
        BY Zenon, <1>3, <2>1 DEF DelayInv, MsgInv, Delay, Of
      <3>2. Holders(m)' = Holders(m)
        BY Zenon, <1>4, <2>1 DEF Holders, Alone, SameRound, Becomes
      <3>3. Forgets(m)
        BY Zenon, <1>3, <3>1, <3>2 DEF Forgets
      <3>4. DueInv(m)'
        <4>1. m \in DueIds(Main)' => m \in DueIds(Main) \/ Delay(m) = "due"
          BY Zenon, <1>4, <2>1, MainHost DEF Alone, SameRound, Becomes, Due
        <4> QED  BY Zenon, <1>3, <3>1, <4>1 DEF MsgInv, DueInv
      <3>5. PairInv(m)'
        <4>1. \A g \in Host : Claim(g)' = Claim(g)
          BY Zenon, <1>4, <2>1 DEF Alone, SameRound, Becomes
        <4> QED  BY Zenon, <1>3, <3>1, <4>1 DEF MsgInv, PairInv, NoFault
      <3> QED  BY Zenon, <3>3, <3>4, <3>5 DEF Kept, Moves
    <2> QED  BY Zenon, <1>3, <1>4, <2>2, <2>3, OtherFetch DEF Keeps
  <1>6. CASE backend # "Redis"
    <2>1. Becomes(f, DueIds(f), Claim(f), Due, Step(f)) /\ Unindexed(Due)
      BY ZenonT(60), <1>1, <1>6 DEF FetchReady, Round, Becomes, DueIds, Claim,
         Ready, Step
    <2>2. FetchInv(f)'
      BY Zenon, <1>2, <1>3, <1>6, <2>1, MainHost DEF FetchInv, Due, Becomes
    <2>3. ASSUME NEW m \in Msg
          PROVE  Kept(m)
      <3>1. MsgInv(m) /\ Delay(m)' = IF m \in Due THEN "none" ELSE Delay(m)
        BY Zenon, <1>1, <1>3, <2>1, UnindexedIndex DEF DelayInv, MsgInv
      <3>2. Holders(m)' = IF m \in Due THEN Holders(m) \cup {f} ELSE Holders(m)
        BY Zenon, <1>2, <1>4, <2>1, MainHost DEF Holders, Alone, SameRound,
           Becomes
      <3>3. Forgets(m) \/ Claims(m)
        BY Zenon, <1>3, <3>1, <3>2 DEF Forgets, Claims, Due
      <3>4. DueInv(m)'
        <4>1. DueIds(Main)' = {}
          BY Zenon, <1>2, <1>4, <1>6, <2>1, MainHost DEF Alone, SameRound,
             Becomes, DelayInv, FetchInv
        <4> QED  BY Zenon, <1>3, <3>1, <4>1 DEF MsgInv, DueInv
      <3>5. PairInv(m)'
        BY Zenon, <1>3, <1>6 DEF PairInv
      <3> QED  BY Zenon, <3>3, <3>4, <3>5 DEF Kept, Moves
    <2> QED  BY Zenon, <1>3, <1>4, <2>2, <2>3, OtherFetch DEF Keeps
  <1> QED  BY Zenon, <1>5, <1>6

\* The claim: ZREM takes the id from the index for exactly one scheduler.
LEMMA ZremKeeps ==
    ASSUME DelayInv, NEW f \in Host, NEW x \in Msg, Zrem(f, x)
    PROVE  Keeps
  <1>1. TypeOK /\ fetch \in [Host -> Round] /\ FetchInv(f)
    BY Zenon, RoundTypes DEF DelayInv
  <1>2. x \in DueIds(f) /\ Step(f) = "idle"
    BY Zenon DEF Zrem, DueIds, Step
  <1>3. /\ x \notin Ready(f) /\ Claim(f) = NoMsg
        /\ f \in hosts /\ backend = "Redis" /\ x # NoMsg
    BY Zenon, <1>1, <1>2, MainHost DEF FetchInv
  <1>4. /\ UNCHANGED <<backend, hosts, crashes, faults, payload, scheduled,
                       fired, merged>>
        /\ Unindexed({x})
        /\ early' = IF Delay(x) = "future" THEN early \cup {x} ELSE early
    BY Zenon DEF Zrem, fixed, runVars
  <1>5. Alone(f)
    <2>1. \A g \in Host \ {f} : fetch'[g] = fetch[g]
      BY Zenon, <1>1 DEF Zrem
    <2> QED  BY Zenon, <2>1, OthersAlone
  <1>6. Becomes(f, DueIds(f) \ {x}, IF Claimed(x) THEN x ELSE Claim(f),
                Ready(f), IF Claimed(x) THEN "claimed" ELSE Step(f))
    BY ZenonT(60), <1>1 DEF Zrem, Round, Becomes, DueIds, Claim, Ready, Step
  <1>7. FetchInv(f)'
    BY ZenonT(60), <1>1, <1>2, <1>3, <1>4, <1>6 DEF FetchInv, Becomes
  <1>8. ASSUME NEW m \in Msg
        PROVE  Kept(m)
    <2>1. MsgInv(m) /\ Delay(m)' = IF m = x THEN "none" ELSE Delay(m)
      BY Zenon, <1>1, <1>4, UnindexedIndex DEF DelayInv, MsgInv
    <2>2. Holders(m)' = IF m = x /\ Claimed(x) THEN Holders(m) \cup {f}
                                               ELSE Holders(m)
      BY Zenon, <1>3, <1>5, <1>6, MainHost DEF Holders, Alone, SameRound,
         Becomes
    <2>3. Forgets(m) \/ Claims(m)
      BY Zenon, <1>4, <2>1, <2>2 DEF Forgets, Claims, Claimed
    <2>4. DueInv(m)'
      <3>1. /\ DueIds(Main)' \subseteq DueIds(Main)
            /\ hosts = {Main} => f = Main /\ x \notin DueIds(Main)'
        BY Zenon, <1>3, <1>5, <1>6, MainHost DEF Alone, SameRound, Becomes
      <3> QED  BY Zenon, <1>2, <1>4, <2>1, <3>1 DEF MsgInv, DueInv
    <2>5. PairInv(m)'
      <3>1. \A g \in Host : Claim(g)' = IF g = f /\ Claimed(x) THEN x
                                                               ELSE Claim(g)
        BY Zenon, <1>5, <1>6 DEF Alone, SameRound, Becomes
      <3> QED  BY Zenon, <1>3, <1>4, <2>1, <3>1, MainHost DEF MsgInv, PairInv,
                  NoFault, Claimed
    <2> QED  BY Zenon, <2>3, <2>4, <2>5 DEF Kept, Moves
  <1> QED  BY Zenon, <1>4, <1>5, <1>7, <1>8, OtherFetch DEF Keeps

\* HGET: the claim is only looked up.
LEMMA HgetKeeps ==
    ASSUME DelayInv, NEW f \in Host, Hget(f)
    PROVE  Keeps
  <1>1. TypeOK /\ fetch \in [Host -> Round] /\ FetchInv(f)
    BY Zenon, RoundTypes DEF DelayInv
  <1>2. /\ UNCHANGED <<backend, hosts, crashes, faults, store, payload, scheduled,
                       fired, merged, early>>
        /\ Step(f) = "claimed"
    BY Zenon DEF Hget, fixed, walVars, runVars, histVars, Step
  <1>3. Alone(f)
    <2>1. \A g \in Host \ {f} : fetch'[g] = fetch[g]
      BY Zenon, <1>1 DEF Hget
    <2> QED  BY Zenon, <2>1, OthersAlone
  <1>4. Becomes(f, DueIds(f), Claim(f), Ready(f), "read")
    BY Zenon, <1>1 DEF Hget, Round, Becomes, DueIds, Claim, Ready, Step
  <1>5. FetchInv(f)'
    BY Zenon, <1>1, <1>2, <1>4 DEF FetchInv, Becomes
  <1>6. ASSUME NEW m \in Msg
        PROVE  Kept(m)
    <2>1. MsgInv(m) /\ Delay(m)' = Delay(m)
      BY Zenon, <1>2 DEF DelayInv, MsgInv, Delay, Of
    <2>2. Holders(m)' = Holders(m)
      BY Zenon, <1>3, <1>4 DEF Holders, Alone, SameRound, Becomes
    <2>3. Forgets(m)
      BY Zenon, <1>2, <2>1, <2>2 DEF Forgets
    <2>4. /\ DueIds(Main)' = DueIds(Main)
          /\ \A g \in Host : Claim(g)' = Claim(g)
      BY Zenon, <1>3, <1>4, MainHost DEF Alone, SameRound, Becomes
    <2>5. DueInv(m)'
      BY Zenon, <1>2, <2>1, <2>4 DEF MsgInv, DueInv
    <2>6. PairInv(m)'
      BY Zenon, <1>2, <2>1, <2>4 DEF MsgInv, PairInv, NoFault
    <2> QED  BY Zenon, <2>3, <2>5, <2>6 DEF Kept, Moves
  <1> QED  BY Zenon, <1>2, <1>3, <1>5, <1>6, OtherFetch DEF Keeps

\* HDEL: payload and claim go together.
LEMMA HdelKeeps ==
    ASSUME DelayInv, NEW f \in Host, Hdel(f)
    PROVE  Keeps
  <1> DEFINE x == Claim(f)
  <1>1. TypeOK /\ fetch \in [Host -> Round] /\ FetchInv(f)
    BY Zenon, RoundTypes DEF DelayInv
  <1>2. /\ UNCHANGED <<backend, hosts, crashes, faults, store, scheduled, fired,
                       merged, early>>
        /\ Step(f) = "read" /\ payload' = payload \ {x}
    BY Zenon DEF Hdel, Deleted, fixed, runVars, histVars, Step, Claim
  <1>3. Alone(f)
    <2>1. \A g \in Host \ {f} : fetch'[g] = fetch[g]
      BY Zenon, <1>1 DEF Hdel
    <2> QED  BY Zenon, <2>1, OthersAlone
  <1>4. PICK r \in {Ready(f), Ready(f) \cup {x}} :
          Becomes(f, DueIds(f), NoMsg, r, "idle")
    BY ZenonT(60), <1>1 DEF Hdel, Round, Becomes, DueIds, Claim, Ready, Step
  <1>5. x \in Msg
    BY Zenon, <1>1, <1>2 DEF FetchInv, Round, Claim
  <1> HIDE DEF x
  <1>6. FetchInv(f)'
    <2>1. DueIds(f) \cap r = {} /\ NoMsg \notin DueIds(f) \cup r
      <3>1. DueIds(f) \subseteq Msg /\ Ready(f) \subseteq Msg
        BY Zenon, <1>1 DEF Round, DueIds, Ready
      <3> QED  BY Zenon, <1>1, <1>5, <3>1, MainHost DEF FetchInv, x
    <2> QED  BY Zenon, <1>1, <1>2, <1>4, <1>5, <2>1, MainHost DEF FetchInv,
                Becomes, x
  <1>7. ASSUME NEW m \in Msg
        PROVE  Kept(m)
    <2>1. MsgInv(m) /\ Delay(m)' = Delay(m)
      BY Zenon, <1>2 DEF DelayInv, MsgInv, Delay, Of
    <2>2. Holders(m)' \subseteq Holders(m)
      BY Zenon, <1>3, <1>4, MainHost DEF Holders, Alone, SameRound, Becomes, x
    <2>3. Forgets(m)
      BY Zenon, <1>2, <2>1, <2>2 DEF Forgets
    <2>4. /\ DueIds(Main)' = DueIds(Main)
          /\ \A g \in Host : Claim(g)' = IF g = f THEN NoMsg ELSE Claim(g)
      BY Zenon, <1>3, <1>4, MainHost DEF Alone, SameRound, Becomes
    <2>5. DueInv(m)'
      BY Zenon, <1>2, <2>1, <2>4 DEF MsgInv, DueInv
    <2>6. PairInv(m)'
      <3>1. CASE m = x
        BY Zenon, <1>2, <2>1, <2>4, <3>1, MainHost DEF MsgInv, PairInv,
           NoFault, x
      <3>2. CASE m # x
        BY Zenon, <1>2, <2>1, <2>4, <3>2, MainHost DEF MsgInv, PairInv,
           NoFault, x
      <3> QED  BY Zenon, <3>1, <3>2
    <2> QED  BY Zenon, <2>3, <2>5, <2>6 DEF Kept, Moves
  <1> QED  BY Zenon, <1>2, <1>3, <1>6, <1>7, OtherFetch DEF Keeps

\* The scheduler sends a record it holds.
LEMMA FireKeeps ==
    ASSUME DelayInv, NEW f \in Host, NEW x \in Msg, Fire(f, x)
    PROVE  Keeps
  <1>1. TypeOK /\ fetch \in [Host -> Round] /\ FetchInv(f)
    BY Zenon, RoundTypes DEF DelayInv
  <1>2. /\ UNCHANGED <<backend, hosts, crashes, store, payload, scheduled,
                       merged, early>>
        /\ x \in Ready(f)
    BY Zenon DEF Fire, fixed, walVars, runVars, Ready
  <1>3. Calm
    BY <1>1, <1>2 DEF Fire, Fault, TypeOK, Calm, NoFault
  <1>4. Alone(f)
    <2>1. \A g \in Host \ {f} : fetch'[g] = fetch[g]
      BY Zenon, <1>1 DEF Fire
    <2> QED  BY Zenon, <2>1, OthersAlone
  <1>5. Becomes(f, DueIds(f), Claim(f), Ready(f) \ {x}, Step(f))
    BY Zenon, <1>1 DEF Fire, Round, Becomes, DueIds, Claim, Ready, Step
  <1>6. FetchInv(f)'
    BY Zenon, <1>1, <1>2, <1>5 DEF FetchInv, Becomes
  <1>7. ASSUME NEW m \in Msg
        PROVE  Kept(m)
    <2>1. MsgInv(m) /\ Delay(m)' = Delay(m)
      BY Zenon, <1>2 DEF DelayInv, MsgInv, Delay, Of
    <2>2. /\ Holders(m)' = IF m = x THEN Holders(m) \ {f} ELSE Holders(m)
          /\ m = x => f \in Holders(m)
      BY Zenon, <1>1, <1>2, <1>4, <1>5 DEF Holders, FetchInv, Alone, SameRound,
         Becomes
    <2>3. fired'[m] = IF m = x THEN fired[m] + 1 ELSE fired[m]
      BY Zenon, <1>1 DEF Fire, TypeOK
    <2>4. Forgets(m) \/ Sends(m)
      BY Zenon, <1>2, <2>1, <2>2, <2>3 DEF Forgets, Sends
    <2>5. /\ DueIds(Main)' = DueIds(Main)
          /\ \A g \in Host : Claim(g)' = Claim(g)
      BY Zenon, <1>4, <1>5, MainHost DEF Alone, SameRound, Becomes
    <2>6. DueInv(m)'
      BY Zenon, <1>2, <2>1, <2>5 DEF MsgInv, DueInv
    <2>7. PairInv(m)'
      BY Zenon, <1>2, <1>3, <2>1, <2>5 DEF MsgInv, PairInv, Calm
    <2> QED  BY Zenon, <2>4, <2>6, <2>7 DEF Kept, Moves
  <1> QED  BY Zenon, <1>2, <1>4, <1>6, <1>7, OtherFetch DEF Keeps

-----------------------------------------------------------------------------
(* A round is given up. *)

\* The scheduler of f forgets what it had in hand: an error cut its round
\* short, or its Host died.
GivesUp(f) ==
    /\ UNCHANGED <<backend, hosts, scheduled, fired, merged, early>>
    /\ \A g \in Host \ {f} : fetch'[g] = fetch[g]
    /\ fetch'[f] = Idle
    /\ ~NoFault'
    /\ \/ UNCHANGED store
       \/ backend # "Redis" /\ crashes' # 0

\* That costs a claimed record, and keeps everything else.
LEMMA GivesUpKeeps ==
    ASSUME DelayInv, NEW f \in Host, GivesUp(f)
    PROVE  Keeps
  <1>1. /\ UNCHANGED <<backend, hosts, scheduled, fired, merged, early>>
        /\ ~NoFault'
    BY Zenon DEF GivesUp
  <1>2. Alone(f)
    BY Zenon, OthersAlone DEF GivesUp
  <1>3. Becomes(f, {}, NoMsg, {}, "idle")
    BY DEF GivesUp, Idle, Becomes, DueIds, Claim, Ready, Step
  <1>4. FetchInv(f)'
    BY Zenon, <1>3 DEF FetchInv, Becomes
  <1>5. ASSUME NEW m \in Msg
        PROVE  Kept(m)
    <2>1. /\ MsgInv(m)
          /\ \/ Delay(m)' = Delay(m)
             \/ backend # "Redis" /\ crashes' # 0
      BY Zenon, <1>1 DEF DelayInv, MsgInv, Delay, Of, GivesUp
    <2>2. Holders(m)' \subseteq Holders(m)
      BY Zenon, <1>2, <1>3, MainHost DEF Holders, Alone, SameRound, Becomes
    <2>3. Moves(m)
      BY Zenon, <1>1, <2>1, <2>2 DEF Forgets, Moves
    <2>4. DueInv(m)'
      <3>1. /\ DueIds(Main)' \subseteq DueIds(Main)
            /\ backend # "Redis" => DueIds(Main) = {}
        BY Zenon, <1>2, <1>3, MainHost DEF Alone, SameRound, Becomes, DelayInv,
           FetchInv
      <3> QED  BY Zenon, <1>1, <2>1, <3>1 DEF MsgInv, DueInv
    <2>5. PairInv(m)'
      BY Zenon, <1>1 DEF PairInv
    <2> QED  BY Zenon, <2>3, <2>4, <2>5 DEF Kept
  <1> QED  BY Zenon, <1>1, <1>2, <1>4, <1>5, OtherFetch DEF Keeps

\* A failed round trip and a crash give a round up.
LEMMA FailureKeeps ==
    ASSUME DelayInv, NEW f \in Host, FetchFails(f) \/ Crash(f)
    PROVE  Keeps
  <1>1. TypeOK /\ fetch \in [Host -> Round]
    BY Zenon, RoundTypes
  <1>2. fetch' = [fetch EXCEPT ![f] = Idle]
    BY Zenon DEF FetchFails, Crash
  <1>3. UNCHANGED <<backend, hosts, scheduled, fired, merged, early>>
    BY Zenon DEF FetchFails, Crash, fixed, histVars
  <1>4. CASE FetchFails(f)
    <2>1. faults' # 0 /\ UNCHANGED store
      BY <1>1, <1>4 DEF FetchFails, Fault, TypeOK, walVars
    <2> QED  BY Zenon, <1>1, <1>2, <1>3, <2>1, GivesUpKeeps DEF GivesUp,
                NoFault
  <1>5. CASE Crash(f)
    <2>1. crashes' # 0 /\ (UNCHANGED store \/ store' = Reloaded)
      BY <1>1, <1>5 DEF Crash, TypeOK
    <2>2. backend = "Redis" => Reloaded = store
      BY Zenon DEF Reloaded
    <2> QED  BY Zenon, <1>1, <1>2, <1>3, <2>1, <2>2, GivesUpKeeps DEF
                GivesUp, NoFault
  <1> QED  BY Zenon, <1>4, <1>5

-----------------------------------------------------------------------------
(* The theorems. *)

\* Every step keeps DelayInv, and moves a scheduling in one of these ways.
LEMMA StepKeeps ==
    ASSUME DelayInv, Next
    PROVE  DelayInv' /\ \A m \in Msg : Moves(m)
  <1>1. TypeOK /\ \A f \in Host : FetchInv(f)
    BY Zenon DEF DelayInv
  <1>2. TypeOK'
    BY Zenon, <1>1, WorkType, FetchType, SystemType DEF Next
  <1>3. Keeps
    BY Zenon, WorkKeeps, FetchReadyKeeps, ZremKeeps, HgetKeeps, HdelKeeps,
       FireKeeps, FailureKeeps DEF Next
  <1> QED  BY Zenon, <1>2, <1>3 DEF DelayInv, Keeps, Kept

\* DelayInv holds in every reachable state.
THEOREM DelayInvariant == Spec => []DelayInv
  <1>1. Init => DelayInv
    <2> SUFFICES ASSUME Init PROVE DelayInv
      OBVIOUS
    <2>1. \A f \in Host : /\ DueIds(f) = {} /\ Ready(f) = {} /\ Claim(f) = NoMsg
                          /\ Step(f) = "idle"
      BY Zenon, IdleRound DEF Init
    <2>2. TypeOK
      <3>1. durable \in BOOLEAN /\ backend \in Backends
        BY Zenon DEF Init
      <3>2. Empty \in Store
        BY Zenon DEF Empty, Store, Status
      <3>3. fetch \in [Host -> Round]
        BY Zenon, IdleType DEF Init
      <3>4. Main \in hosts /\ hosts \subseteq Host
        BY Zenon DEF Init, Host
      <3> QED  BY <3>1, <3>2, <3>3, <3>4, WalAssumption DEF Init, TypeOK, Round
    <2>3. ASSUME NEW f \in Host
          PROVE  FetchInv(f)
      BY Zenon, <2>1 DEF FetchInv
    <2>4. ASSUME NEW m \in Msg
          PROVE  DueInv(m) /\ PairInv(m)
      <3>1. Delay(m) = "none"
        BY Zenon DEF Init, Delay, Of, Empty, Handle
      <3> QED  BY Zenon, <2>1, <3>1, MainHost DEF DueInv, PairInv, Init
    <2> QED  BY Zenon, <2>2, <2>3, <2>4 DEF DelayInv
  <1>2. DelayInv /\ [Next]_vars => DelayInv'
    <2> SUFFICES ASSUME DelayInv, [Next]_vars PROVE DelayInv'
      OBVIOUS
    <2>1. CASE Next
      BY Zenon, <2>1, StepKeeps
    <2>2. CASE UNCHANGED vars
      <3>1. TypeOK'
        BY Zenon, <2>2 DEF DelayInv, TypeOK, vars, fixed, walVars, msgVars,
           runVars, histVars
      <3>2. /\ UNCHANGED <<backend, hosts, payload, scheduled, fired, merged,
                           early, crashes, faults, store>>
            /\ UNCHANGED fetch
        BY Zenon, <2>2 DEF vars, fixed, walVars, runVars, histVars
      <3>3. Quiet
        BY Zenon, <3>2 DEF Quiet, Calm, NoFault, Delay, Of, SameRound,
           DueIds, Claim, Ready, Step
      <3> QED  BY Zenon, <3>1, <3>3, QuietKeeps DEF DelayInv, Keeps, Kept
    <2> QED  BY Zenon, <2>1, <2>2
  <1> QED  BY <1>1, <1>2, PTL DEF Spec

\* Every reachable state is well typed.
THEOREM WalTypeCorrect == Spec => []TypeOK
  <1>1. DelayInv => TypeOK
    BY Zenon DEF DelayInv
  <1> QED  BY <1>1, DelayInvariant, PTL

\* A single scheduler sends no message before its deliver_at.
THEOREM NeverEarly == Spec => []NotEarly
  <1>1. DelayInv => NotEarly
    BY Zenon DEF DelayInv, DueInv, NotEarly, TypeOK
  <1> QED  BY <1>1, DelayInvariant, PTL

\* Index and payload of a delayed record agree (SCHEDULE_LUA, fetch_ready).
THEOREM IndexAndPayloadAgree == Spec => []DelayPaired
  <1>1. DelayInv => DelayPaired
    <2> SUFFICES ASSUME DelayInv, backend = "Redis", NoFault,
                        NEW m \in Msg \ merged
                 PROVE  m \in payload <=> \/ Delay(m) # "none"
                                          \/ \E f \in hosts : Claim(f) = m
      BY Zenon DEF DelayPaired, Claim
    <2>1. m \in payload <=> (Delay(m) # "none" \/ \E f \in Host : Claim(f) = m)
      BY Zenon DEF DelayInv, PairInv
    <2>2. \A f \in Host : Claim(f) = m => f \in hosts
      BY Zenon, MainHost DEF DelayInv, FetchInv
    <2>3. hosts \subseteq Host
      BY Zenon DEF DelayInv, TypeOK
    <2> QED  BY Zenon, <2>1, <2>2, <2>3
  <1> QED  BY <1>1, DelayInvariant, PTL

-----------------------------------------------------------------------------
(***************************************************************************)
(* A delayed record is sent at most once per scheduling: the schedulings   *)
(* of a message are at least the copies sent, plus the schedulers that     *)
(* hold a claim on it, plus its entry in the index.                        *)
(***************************************************************************)

Indices(m) == IF Delay(m) # "none" THEN 1 ELSE 0

Balance(m) ==
    backend = "Redis" \/ crashes = 0 =>
        fired[m] + Cardinality(Holders(m)) + Indices(m) <= scheduled[m]
Balanced == \A m \in Msg : Balance(m)

\* There are finitely many schedulers.
LEMMA HoldersFinite ==
    ASSUME NEW S \in SUBSET Host
    PROVE  IsFiniteSet(S) /\ Cardinality(S) \in Nat
  <1>1. Host = Peer \cup {Main}
    BY Zenon DEF Host
  <1>2. IsFiniteSet(Host)
    BY Zenon, <1>1, WalAssumption, FS_AddElement
  <1>3. IsFiniteSet(S)
    BY Zenon, <1>2, FS_Subset
  <1> QED  BY Zenon, <1>3, FS_CardinalityType

\* Such a step keeps the balance.
LEMMA BalanceKept ==
    ASSUME NEW m \in Msg, TypeOK, TypeOK', Balance(m),
           UNCHANGED backend, crashes' = 0 => crashes = 0, Moves(m)
    PROVE  Balance(m)'
  <1> DEFINE H == Holders(m)
             h == Cardinality(H)
  <1>0. SUFFICES ASSUME backend = "Redis" \/ crashes = 0,
                        Forgets(m) \/ Adds(m) \/ Claims(m) \/ Sends(m)
                 PROVE  fired'[m] + h' + Indices(m)' <= scheduled'[m]
    BY Zenon DEF Balance, Moves
  <1>2. fired[m] + h + Indices(m) <= scheduled[m]
    BY Zenon, <1>0 DEF Balance
  <1>3. /\ H \in SUBSET Host /\ H' \in SUBSET Host
    BY Zenon DEF Holders
  <1>4. IsFiniteSet(H) /\ h \in Nat /\ h' \in Nat
    BY Zenon, <1>3, HoldersFinite
  <1>5. fired[m] \in Nat /\ scheduled[m] \in Nat
    BY Zenon DEF TypeOK
  <1>6. Indices(m) \in {0, 1} /\ Indices(m)' \in {0, 1}
    BY Zenon DEF Indices
  <1>7. CASE Forgets(m) \/ Adds(m)
    <2>1. H' \in SUBSET H
      BY Zenon, <1>7 DEF Forgets, Adds, H
    <2> HIDE DEF H
    <2>2. h' <= h
      BY Zenon, <1>4, <2>1, FS_Subset
    <2> HIDE DEF h
    <2>3. \/ /\ scheduled'[m] = scheduled[m] /\ fired'[m] = fired[m]
             /\ Indices(m)' = 1 => Indices(m) = 1
          \/ scheduled'[m] = scheduled[m] + 1 /\ fired'[m] = fired[m]
      BY Zenon, <1>7 DEF Forgets, Adds, Indices
    <2> QED  BY <1>2, <1>4, <1>5, <1>6, <2>2, <2>3
  <1>8. CASE Claims(m)
    <2>1. PICK f \in Host : H' = H \cup {f}
      BY Zenon, <1>8 DEF Claims, H
    <2> HIDE DEF H
    <2>2. h' <= h + 1
      <3>1. Cardinality(H \cup {f}) = IF f \in H THEN Cardinality(H)
                                                 ELSE Cardinality(H) + 1
        BY <1>4, FS_AddElement, Zenon
      <3> QED  BY <1>4, <2>1, <3>1
    <2> HIDE DEF h
    <2>3. /\ scheduled'[m] = scheduled[m] /\ fired'[m] = fired[m]
          /\ Indices(m) = 1 /\ Indices(m)' = 0
      BY Zenon, <1>8 DEF Claims, Indices
    <2> QED  BY <1>2, <1>4, <1>5, <2>2, <2>3
  <1>9. CASE Sends(m)
    <2>1. PICK f \in H : H' = H \ {f}
      BY Zenon, <1>9 DEF Sends, H
    <2> HIDE DEF H
    <2>2. h' = h - 1
      BY Zenon, <1>4, <2>1, FS_RemoveElement
    <2> HIDE DEF h
    <2>3. /\ scheduled'[m] = scheduled[m] /\ fired'[m] = fired[m] + 1
          /\ Indices(m)' = 1 => Indices(m) = 1
      BY Zenon, <1>9 DEF Sends, Indices
    <2> QED  BY <1>2, <1>4, <1>5, <1>6, <2>2, <2>3
  <1> QED  BY Zenon, <1>0, <1>7, <1>8, <1>9

\* A step runs on one backend, and no crash is undone.
LEMMA StepFrame ==
    ASSUME TypeOK, [Next]_vars
    PROVE  UNCHANGED backend /\ (crashes' = 0 => crashes = 0)
  <1>1. CASE \E f \in Host : Crash(f)
    BY <1>1 DEF Crash, fixed, TypeOK
  <1>2. CASE \E f \in Host :
               \/ FetchReady(f) \/ Hget(f) \/ Hdel(f) \/ FetchFails(f)
               \/ \E m \in Msg : Zrem(f, m) \/ Fire(f, m)
    BY ZenonT(60), <1>2 DEF FetchReady, Zrem, Hget, Hdel, FetchFails, Fire,
       fixed, runVars
  <1>3. CASE \E m \in Msg :
               \/ Append(m) \/ Send(m) \/ Take(m) \/ SendBack(m) \/ ReplayOne(m)
               \/ \E o \in {"done", "dead", "exhausted"} : Finish(m, o)
               \/ \E s \in Status : Sync(m, s)
    BY <1>3, Zenon DEF Append, Send, Take, SendBack, ReplayOne, Finish, Sync,
       fixed, runVars
  <1>4. CASE Flush \/ Replay \/ Ripen \/ UNCHANGED vars
    BY Zenon, <1>4 DEF Flush, Replay, Ripen, vars, fixed, runVars
  <1> QED  BY Zenon, <1>1, <1>2, <1>3, <1>4 DEF Next

\* A scheduled record is sent at most once, however many Hosts run a scheduler
\* on one RedisWal and wherever they crash (ZREM in RedisWal::fetch_ready).
THEOREM SentAtMostOnce == Spec => []FiredOnce
  <1>1. Init => Balanced
    <2> SUFFICES ASSUME Init, NEW m \in Msg
                 PROVE  Balance(m)
      BY Zenon DEF Balanced
    <2>1. Delay(m) = "none"
      BY Zenon DEF Init, Delay, Of, Empty, Handle
    <2>2. Holders(m) = {}
      BY Zenon, IdleRound, MainHost DEF Init, Holders
    <2>3. Cardinality(Holders(m)) = 0
      BY Zenon, <2>2, FS_EmptySet
    <2> QED  BY <2>1, <2>3 DEF Balance, Indices, Init
  <1>2. DelayInv /\ Balanced /\ DelayInv' /\ [Next]_vars => Balanced'
    <2> SUFFICES ASSUME DelayInv, Balanced, DelayInv', [Next]_vars,
                        NEW m \in Msg
                 PROVE  Balance(m)'
      BY Zenon DEF Balanced
    <2>1. TypeOK /\ TypeOK' /\ Balance(m)
      BY Zenon DEF DelayInv, Balanced
    <2>2. Moves(m)
      <3>1. CASE Next
        BY Zenon, <3>1, StepKeeps
      <3>2. CASE UNCHANGED vars
        <4>1. UNCHANGED <<backend, scheduled, fired, store, fetch>>
          BY Zenon, <3>2 DEF vars, fixed, walVars, histVars, runVars
        <4> QED  BY Zenon, <4>1 DEF Moves, Forgets, Holders, Delay, Of,
                    Claim, Ready
      <3> QED  BY Zenon, <3>1, <3>2
    <2> QED  BY Zenon, <2>1, <2>2, StepFrame, BalanceKept
  <1>3. DelayInv /\ Balanced => FiredOnce
    <2> SUFFICES ASSUME DelayInv, Balanced, NEW m \in Msg,
                        backend = "Redis" \/ crashes = 0
                 PROVE  fired[m] <= scheduled[m]
      BY Zenon DEF FiredOnce
    <2>1. fired[m] + Cardinality(Holders(m)) + Indices(m) <= scheduled[m]
      BY Zenon DEF Balance, Balanced
    <2>2. Holders(m) \in SUBSET Host
      BY Zenon DEF Holders
    <2>3. Cardinality(Holders(m)) \in Nat
      BY Zenon, <2>2, HoldersFinite
    <2>4. fired[m] \in Nat /\ scheduled[m] \in Nat /\ Indices(m) \in Nat
      BY Zenon DEF DelayInv, TypeOK, Indices
    <2> QED  BY <2>1, <2>3, <2>4
  <1> QED  BY <1>1, <1>2, <1>3, DelayInvariant, PTL DEF Spec
-----------------------------------------------------------------------------
(***************************************************************************)
(* A completed message is not replayed.  While nothing failed, a message   *)
(* that was never sent back has one copy: in the delay store, the queue or *)
(* a worker, or it has ended, and then only its end marks it.              *)
(***************************************************************************)

Ended(m) == IF out[m] = "open" THEN 0 ELSE 1

SoleCopy(m) == queued[m] + busy[m] + Ended(m) + scheduled[m] <= fired[m] + 1

Unsent(m) ==
    /\ queued[m] = 0 /\ busy[m] = 0 /\ scheduled[m] = 0 /\ out[m] = "open"

\* Only a dead message is marked pending; the mark of one that is done is
\* under way, or its record is not pending.
Marked(m) ==
    /\ <<m, "Pending">> \in wire => out[m] = "dead"
    /\ out[m] = "done" => <<m, "Complete">> \in wire \/ Record(m) # "Pending"

Single(m) ==
    backend = "Redis" /\ NoFault /\ tries[m] = 0 =>
        SoleCopy(m) /\ (phase[m] # "sent" => Unsent(m)) /\ Marked(m)

DoneInv == (crashes = 0 => todo = {}) /\ \A m \in Msg : Single(m)

\* Neither schedule nor a claim nor time touches a record.
LEMMA DelayRecords ==
    ASSUME TypeOK, UNCHANGED backend, NEW x \in Msg,
           \/ \E m \in Msg, d \in {"future", "due"} : Schedule(m, d)
           \/ \E S \in SUBSET Msg : Unindexed(S)
           \/ store' = [hd \in Handle |-> [store[hd] EXCEPT
                                             !.delay = Ripe(store[hd].delay)]]
    PROVE  Record(x)' = Record(x)
  <1>1. store \in [Handle -> Store]
    BY Zenon DEF TypeOK
  <1>2. CASE \E m \in Msg, d \in {"future", "due"} : Schedule(m, d)
    BY <1>1, <1>2 DEF Store, Schedule, Indexed, Of, Record
  <1>3. CASE \E S \in SUBSET Msg : Unindexed(S)
    BY <1>1, <1>3 DEF Store, Unindexed, Of, Record
  <1>4. CASE store' = [hd \in Handle |-> [store[hd] EXCEPT
                                            !.delay = Ripe(store[hd].delay)]]
    BY <1>1, <1>4 DEF Handle, Store, Of, Record
  <1> QED  BY Zenon, <1>2, <1>3, <1>4

\* The numbers behind Single.
LEMMA CopyTypes ==
    ASSUME TypeOK, NEW m \in Msg
    PROVE  /\ queued[m] \in Nat /\ busy[m] \in Nat /\ Ended(m) \in {0, 1}
           /\ scheduled[m] \in Nat /\ fired[m] \in Nat
           /\ faults \in Nat /\ crashes \in Nat
  BY DEF TypeOK, Ended

\* A failure ends what Single claims.
LEMMA FaultEnds ==
    ASSUME TypeOK, Fault
    PROVE  ~NoFault'
  <1>1. faults \in Nat
    BY DEF TypeOK
  <1> QED  BY <1>1 DEF Fault, NoFault

\* A step that leaves the copies of x and its marks alone.
SameCopies(x) ==
    /\ queued'[x] = queued[x] /\ busy'[x] = busy[x] /\ out'[x] = out[x]
    /\ scheduled'[x] = scheduled[x] /\ fired'[x] = fired[x]
    /\ tries'[x] = tries[x] /\ phase'[x] = phase[x]

SameMarks(x) ==
    /\ Record(x)' = Record(x)
    /\ <<x, "Pending">> \in wire' <=> <<x, "Pending">> \in wire
    /\ <<x, "Complete">> \in wire' <=> <<x, "Complete">> \in wire

\* Such a step keeps what is known of x.
LEMMA SingleKept ==
    ASSUME NEW x \in Msg, Single(x), UNCHANGED backend, Calm, SameCopies(x),
           SameMarks(x)
    PROVE  Single(x)'
  <1> SUFFICES ASSUME backend' = "Redis", NoFault', tries'[x] = 0
               PROVE  /\ SoleCopy(x)' /\ (phase'[x] # "sent" => Unsent(x)')
                      /\ Marked(x)'
    BY Zenon DEF Single
  <1>1. SoleCopy(x) /\ (phase[x] # "sent" => Unsent(x)) /\ Marked(x)
    BY Zenon DEF Single, Calm, SameCopies
  <1>2. SoleCopy(x)'
    BY Zenon, <1>1 DEF SoleCopy, Ended, SameCopies
  <1>3. phase'[x] # "sent" => Unsent(x)'
    BY Zenon, <1>1 DEF Unsent, SameCopies
  <1>4. Marked(x)'
    BY Zenon, <1>1 DEF Marked, SameCopies, SameMarks
  <1> QED  BY Zenon, <1>2, <1>3, <1>4

\* What a step of m itself has to keep.
Good(m) == SoleCopy(m) /\ (phase[m] # "sent" => Unsent(m)) /\ Marked(m)

\* Applications: append and send.
LEMMA AppSingle ==
    ASSUME TypeOK, DoneInv, NEW m \in Msg, Append(m) \/ Send(m),
           NEW x \in Msg
    PROVE  Single(x)'
  <1>i. Single(x) /\ Single(m)
    BY Zenon DEF DoneInv
  <1>t. /\ phase \in [Msg -> {"new", "appended", "sent"}]
        /\ queued \in [Msg -> 0 .. MaxCopies] /\ scheduled \in [Msg -> Nat]
        /\ store \in [Handle -> Store]
    BY Zenon DEF TypeOK
  <1>1. CASE Append(m)
    <2>1. /\ phase[m] = "new" /\ phase' = [phase EXCEPT ![m] = "appended"]
          /\ store' = [store EXCEPT ![Of("registry")].rec[m] = "Pending"]
          /\ UNCHANGED <<backend, wire, queued, busy, out, tries, faults,
                         crashes, scheduled, fired>>
      BY Zenon, <1>1 DEF Append, fixed, runVars, histVars
    <2>2. Calm
      BY Zenon, <2>1 DEF Calm, NoFault
    <2>3. CASE x # m
      <3>1. phase'[x] = phase[x]
        BY Zenon, <1>t, <2>1, <2>3
      <3>2. Record(x)' = Record(x)
        BY <1>t, <2>1, <2>3 DEF Record, Of, Store
      <3> QED  BY Zenon, <1>i, <2>1, <2>2, <3>1, <3>2, SingleKept
               DEF SameCopies, SameMarks
    <2>4. CASE x = m
      <3> SUFFICES ASSUME backend' = "Redis", NoFault', tries'[m] = 0
                   PROVE  Good(m)'
        BY Zenon, <2>4 DEF Single, Good
      <3>1. SoleCopy(m) /\ Unsent(m) /\ Marked(m)
        BY Zenon, <1>i, <2>1, <2>2 DEF Single, Calm
      <3>2. SoleCopy(m)' /\ Unsent(m)'
        BY Zenon, <2>1, <3>1 DEF SoleCopy, Unsent, Ended
      <3>3. Marked(m)'
        BY Zenon, <2>1, <3>1 DEF Marked, Unsent
      <3> QED  BY Zenon, <3>2, <3>3 DEF Good
    <2> QED  BY Zenon, <2>3, <2>4
  <1>2. CASE Send(m)
    <2>1. /\ phase[m] # "sent" /\ phase' = [phase EXCEPT ![m] = "sent"]
          /\ UNCHANGED <<backend, wire, busy, out, tries, faults, crashes>>
      BY Zenon, <1>2 DEF Send, fixed, runVars
    <2>2. Calm
      BY Zenon, <2>1 DEF Calm, NoFault
    <2>3. /\ fired' = fired /\ Record(x)' = Record(x)
          /\ \/ /\ queued' = queued
                /\ scheduled' = [scheduled EXCEPT ![m] = scheduled[m] + 1]
             \/ /\ queued' = [queued EXCEPT ![m] = queued[m] + 1]
                /\ scheduled' = scheduled
      <3>1. CASE at[m] # "none" /\ Schedule(m, at[m]) /\ UNCHANGED queued
        <4>1. at[m] \in {"future", "due"}
          BY Zenon, <3>1 DEF TypeOK
        <4>2. Record(x)' = Record(x)
          BY Zenon, <2>1, <3>1, <4>1, DelayRecords
        <4> QED  BY Zenon, <3>1, <4>2 DEF Schedule
      <3>2. CASE More(queued, m) /\ UNCHANGED <<walVars, histVars>>
        <4>1. store' = store /\ fired' = fired /\ scheduled' = scheduled
          BY Zenon, <3>2 DEF walVars, histVars
        <4>2. Record(x)' = Record(x)
          BY Zenon, <2>1, <4>1 DEF Record, Of
        <4> QED  BY Zenon, <3>2, <4>1, <4>2 DEF More
      <3> QED  BY Zenon, <1>2, <3>1, <3>2 DEF Send
    <2>4. CASE x # m
      <3>1. /\ phase'[x] = phase[x] /\ queued'[x] = queued[x]
            /\ scheduled'[x] = scheduled[x]
        BY Zenon, <1>t, <2>1, <2>3, <2>4
      <3> QED  BY Zenon, <1>i, <2>1, <2>2, <2>3, <3>1, SingleKept
               DEF SameCopies, SameMarks
    <2>5. CASE x = m
      <3> SUFFICES ASSUME backend' = "Redis", NoFault', tries'[m] = 0
                   PROVE  Good(m)'
        BY Zenon, <2>5 DEF Single, Good
      <3>1. Unsent(m) /\ Marked(m)
        BY Zenon, <1>i, <2>1, <2>2 DEF Single, Calm
      <3>2. /\ phase'[m] = "sent"
            /\ \/ queued'[m] = 0 /\ scheduled'[m] = 1
               \/ queued'[m] = 1 /\ scheduled'[m] = 0
        BY <1>t, <2>1, <2>3, <3>1 DEF Unsent
      <3>3. busy'[m] = 0 /\ out'[m] = "open" /\ fired'[m] \in Nat
        BY Zenon, <2>1, <2>3, <3>1, CopyTypes DEF Unsent
      <3>4. SoleCopy(m)'
        BY <3>2, <3>3 DEF SoleCopy, Ended
      <3>5. Marked(m)'
        BY Zenon, <2>1, <2>3, <2>5, <3>1 DEF Marked
      <3> QED  BY Zenon, <3>2, <3>4, <3>5 DEF Good
    <2> QED  BY Zenon, <2>4, <2>5
  <1> QED  BY Zenon, <1>1, <1>2

\* Workers: a copy is taken and ends, or is sent back.
LEMMA WorkerSingle ==
    ASSUME TypeOK, DoneInv, FiredOnce, NEW m \in Msg,
           \/ Take(m) \/ SendBack(m)
           \/ \E o \in {"done", "dead", "exhausted"} : Finish(m, o),
           NEW x \in Msg
    PROVE  Single(x)'
  <1> SUFFICES ASSUME backend' = "Redis", NoFault', tries'[x] = 0
               PROVE  Good(x)'
    BY Zenon DEF Single, Good
  <1>i. Single(x) /\ Single(m)
    BY Zenon DEF DoneInv
  <1>t. /\ queued \in [Msg -> 0 .. MaxCopies]
        /\ busy \in [Msg -> 0 .. MaxCopies]
        /\ out \in [Msg -> {"open", "done", "dead"}]
        /\ tries \in [Msg -> 0 .. MaxTries]
    BY Zenon DEF TypeOK
  <1>f. ~Fault
    BY Zenon, FaultEnds
  <1>1. CASE Take(m)
    <2>1. /\ queued[m] > 0 /\ queued' = [queued EXCEPT ![m] = queued[m] - 1]
          /\ busy' = [busy EXCEPT ![m] = busy[m] + 1]
          /\ wire' = wire \cup {<<m, "Processing">>}
          /\ UNCHANGED <<backend, store, phase, out, tries, faults, crashes,
                         scheduled, fired>>
      BY Zenon, <1>1, <1>f DEF Take, fixed, walVars, runVars, histVars
    <2>2. Good(x)
      BY Zenon, <1>i, <2>1 DEF Single, Good, NoFault
    <2>3. Record(x)' = Record(x)
      BY Zenon, <2>1 DEF Record, Of
    <2>4. Marked(x)'
      <3>1. /\ <<x, "Pending">> \in wire' => <<x, "Pending">> \in wire
            /\ <<x, "Complete">> \in wire => <<x, "Complete">> \in wire'
        BY <2>1
      <3> QED  BY Zenon, <2>1, <2>2, <2>3, <3>1 DEF Marked, Good
    <2>5. CASE x # m
      <3>1. queued'[x] = queued[x] /\ busy'[x] = busy[x]
        BY Zenon, <1>t, <2>1, <2>5
      <3> QED  BY Zenon, <2>1, <2>2, <2>4, <3>1
                  DEF Good, SoleCopy, Ended, Unsent
    <2>6. CASE x = m
      <3>1. phase[m] = "sent"
        <4>1. queued[m] # 0
          BY <2>1
        <4> QED  BY Zenon, <4>1, <2>2, <2>6 DEF Good, Unsent
      <3>2. queued'[m] + busy'[m] = queued[m] + busy[m]
        BY <1>t, <2>1
      <3>3. SoleCopy(m)'
        <4>1. Ended(m)' = Ended(m)
          BY Zenon, <2>1 DEF Ended
        <4> QED  BY Zenon, <2>1, <2>2, <2>6, <3>2, <4>1 DEF Good, SoleCopy
      <3> QED  BY Zenon, <2>1, <2>4, <2>6, <3>1, <3>3 DEF Good
    <2> QED  BY Zenon, <2>5, <2>6
  <1>2. CASE SendBack(m)
    <2>1. /\ busy' = [busy EXCEPT ![m] = busy[m] - 1]
          /\ tries' = [tries EXCEPT ![m] = tries[m] + 1]
          /\ wire' \in {wire, wire \cup {<<m, "Pending">>}}
          /\ UNCHANGED <<backend, phase, out, crashes>>
      BY Zenon, <1>2 DEF SendBack, Leaves, fixed, runVars
    <2>2. x # m
      <3>1. tries'[m] # 0
        BY <1>t, <2>1
      <3> QED  BY Zenon, <3>1
    <2>3. /\ faults' = faults
          /\ \/ More(queued, m) /\ UNCHANGED <<walVars, histVars>>
             \/ Schedule(m, "future") /\ UNCHANGED queued
      BY Zenon, <1>2, <1>f DEF SendBack
    <2>4. Calm
      BY Zenon, <2>1, <2>3 DEF Calm, NoFault
    <2>5. /\ Record(x)' = Record(x) /\ queued'[x] = queued[x]
          /\ scheduled'[x] = scheduled[x] /\ fired'[x] = fired[x]
      <3>1. CASE More(queued, m) /\ UNCHANGED <<walVars, histVars>>
        <4>1. queued'[x] = queued[x]
          BY Zenon, <1>t, <2>2, <3>1 DEF More
        <4> QED  BY Zenon, <2>1, <3>1, <4>1 DEF walVars, histVars, Record, Of
      <3>2. CASE Schedule(m, "future") /\ UNCHANGED queued
        <4>1. Record(x)' = Record(x)
          BY Zenon, <2>1, <3>2, DelayRecords
        <4>2. scheduled'[x] = scheduled[x]
          BY Zenon, <2>2, <3>2 DEF Schedule, TypeOK
        <4> QED  BY Zenon, <3>2, <4>1, <4>2 DEF Schedule
      <3> QED  BY Zenon, <2>3, <3>1, <3>2
    <2>6. busy'[x] = busy[x] /\ tries'[x] = tries[x]
      BY Zenon, <1>t, <2>1, <2>2
    <2>7. SameMarks(x)
      <3>1. \A s : <<x, s>> \in wire' <=> <<x, s>> \in wire
        BY <2>1, <2>2
      <3> QED  BY Zenon, <2>5, <3>1 DEF SameMarks
    <2>8. Single(x)'
      BY Zenon, <1>i, <2>1, <2>4, <2>5, <2>6, <2>7, SingleKept DEF SameCopies
    <2> QED  BY Zenon, <2>8 DEF Single, Good
  <1>3. ASSUME NEW o \in {"done", "dead", "exhausted"}, Finish(m, o)
        PROVE  Good(x)'
    <2>1. /\ busy[m] > 0 /\ busy' = [busy EXCEPT ![m] = busy[m] - 1]
          /\ out' = [out EXCEPT ![m] = IF "done" \in {out[m], o} THEN "done"
                                                                 ELSE "dead"]
          /\ wire' = wire \cup {<<m, s>> : s \in Marks(o)}
          /\ UNCHANGED <<backend, store, phase, queued, tries, faults, crashes,
                         scheduled, fired>>
      BY Zenon, <1>3, <1>f DEF Finish, Leaves, fixed, walVars, runVars, histVars
    <2>2. Good(x)
      BY Zenon, <1>i, <2>1 DEF Single, Good, NoFault
    <2>3. Record(x)' = Record(x)
      BY Zenon, <2>1 DEF Record, Of
    <2>4. CASE x # m
      <3>1. busy'[x] = busy[x] /\ out'[x] = out[x]
        BY Zenon, <1>t, <2>1, <2>4
      <3>2. \A s : <<x, s>> \in wire' <=> <<x, s>> \in wire
        BY <2>1, <2>4
      <3> QED  BY Zenon, <2>1, <2>2, <2>3, <3>1, <3>2
               DEF Good, SoleCopy, Ended, Unsent, Marked
    <2>5. CASE x = m
      <3>1. /\ queued[m] \in Nat /\ busy[m] \in Nat /\ Ended(m) \in {0, 1}
            /\ scheduled[m] \in Nat /\ fired[m] \in Nat
        BY Zenon, CopyTypes
      <3>2. fired[m] <= scheduled[m]
        BY Zenon, <2>1 DEF FiredOnce
      <3>3. SoleCopy(m)
        BY Zenon, <2>2, <2>5 DEF Good
      <3>4. Ended(m) = 0 /\ phase[m] = "sent"
        <4>1. Ended(m) = 0
          BY <2>1, <3>1, <3>2, <3>3 DEF SoleCopy
        <4>2. busy[m] # 0
          BY <2>1
        <4> QED  BY Zenon, <4>1, <4>2, <2>2, <2>5 DEF Good, Unsent
      <3>5. out[m] = "open"
        BY <3>4 DEF Ended
      <3>6. /\ busy'[m] = busy[m] - 1 /\ Ended(m)' \in {0, 1}
            /\ out'[m] = IF o = "done" THEN "done" ELSE "dead"
        BY <1>t, <2>1, <3>5 DEF Ended
      <3>7. SoleCopy(m)'
        <4>1. /\ queued'[m] = queued[m] /\ scheduled'[m] = scheduled[m]
              /\ fired'[m] = fired[m]
          BY Zenon, <2>1
        <4> QED  BY <3>1, <3>3, <3>4, <3>6, <4>1 DEF SoleCopy
      <3>8. Marked(m)'
        <4>1. <<m, "Pending">> \notin wire
          BY <2>2, <2>5, <3>5 DEF Good, Marked
        <4>2. CASE o = "done"
          <5>1. Marks(o) = {"Complete"}
            BY Zenon, <4>2 DEF Marks
          <5>2. wire' = wire \cup {<<m, "Complete">>}
            BY Zenon, <2>1, <5>1
          <5>3. <<m, "Complete">> \in wire' /\ <<m, "Pending">> \notin wire'
            BY <4>1, <5>2
          <5> QED  BY Zenon, <5>3 DEF Marked
        <4>3. CASE o # "done"
          <5>1. out'[m] = "dead"
            BY Zenon, <3>6, <4>3
          <5> QED  BY <5>1 DEF Marked
        <4> QED  BY Zenon, <4>2, <4>3
      <3> QED  BY Zenon, <2>1, <2>5, <3>4, <3>7, <3>8 DEF Good
    <2> QED  BY Zenon, <2>4, <2>5
  <1> QED  BY Zenon, <1>1, <1>2, <1>3

\* WalSyncHandler: a record becomes pending only by a mark that says so.
LEMMA SyncSingle ==
    ASSUME TypeOK, DoneInv, NEW m \in Msg, NEW s \in Status, Sync(m, s),
           NEW x \in Msg
    PROVE  Single(x)'
  <1> SUFFICES ASSUME backend' = "Redis", NoFault', tries'[x] = 0
               PROVE  Good(x)'
    BY Zenon DEF Single, Good
  <1> DEFINE r == Updated(store["sync"].rec, m, s)
             st == [store["sync"] EXCEPT !.rec = r]
  <1>f. ~Fault
    BY Zenon, FaultEnds
  <1>1. /\ <<m, s>> \in wire /\ wire' = wire \ {<<m, s>>}
        /\ store' = [store EXCEPT !["sync"] = st]
        /\ UNCHANGED <<backend, phase, queued, busy, out, tries, faults,
                       crashes, scheduled, fired>>
    BY Zenon, <1>f DEF Sync, fixed, msgVars, runVars, histVars
  <1>2. Good(x)
    <2>1. Single(x)
      BY Zenon DEF DoneInv
    <2> QED  BY Zenon, <1>1, <2>1 DEF Single, Good, NoFault
  <1>3. store \in [Handle -> Store]
    BY Zenon DEF TypeOK
  <1>4. Record(x)' = r[x] /\ Record(x) = store["sync"].rec[x]
    <2>1. store["sync"] \in Store
      BY Zenon, <1>3 DEF Handle
    <2>2. st.rec = r
      BY <2>1 DEF Store
    <2>3. store'["sync"] = st
      BY Zenon, <1>1, <1>3 DEF Handle
    <2> QED  BY Zenon, <1>1, <2>2, <2>3 DEF Record, Of
  <1>5. Record(x)' = Record(x) \/ (x = m /\ Record(x)' = s)
    <2>1. store["sync"].rec \in [Msg -> Status \cup {"none"}]
      BY <1>3 DEF Handle, Store
    <2> QED  BY Zenon, <1>4, <2>1 DEF Updated
  <1> HIDE DEF r, st
  <1>6. Marked(x)'
    <2>1. Marked(x) /\ out'[x] = out[x]
      BY Zenon, <1>1, <1>2 DEF Good
    <2>2. <<x, "Pending">> \in wire' => out'[x] = "dead"
      BY Zenon, <1>1, <2>1 DEF Marked
    <2>3. ASSUME out[x] = "done"
          PROVE  <<x, "Complete">> \in wire' \/ Record(x)' # "Pending"
      <3>1. <<x, "Pending">> \notin wire
        BY <2>1, <2>3 DEF Marked
      <3>2. CASE x = m /\ Record(x)' = s
        BY Zenon, <1>1, <3>1, <3>2
      <3>3. CASE Record(x)' = Record(x) /\ Record(x) # "Pending"
        BY Zenon, <3>3
      <3>4. CASE Record(x)' = "Pending" /\ Record(x) = "Pending"
                 /\ ~(x = m /\ Record(x)' = s)
        <4>1. <<x, "Complete">> \in wire
          BY Zenon, <2>1, <2>3, <3>4 DEF Marked
        <4>2. CASE <<x, "Complete">> # <<m, s>>
          BY Zenon, <1>1, <4>1, <4>2
        <4>3. CASE <<x, "Complete">> = <<m, s>>
          <5>1. x = m /\ s = "Complete"
            BY <4>3
          <5>2. r[m] = "Complete" \/ r[m] = "none"
            <6>1. store["sync"].rec \in [Msg -> Status \cup {"none"}]
              BY <1>3 DEF Handle, Store
            <6> QED  BY <5>1, <6>1 DEF r, Updated
          <5> QED  BY <1>4, <5>1, <5>2
        <4> QED  BY Zenon, <4>2, <4>3
      <3> QED  BY Zenon, <1>5, <3>2, <3>3, <3>4
    <2> QED  BY Zenon, <2>1, <2>2, <2>3 DEF Marked
  <1> QED  BY Zenon, <1>1, <1>2, <1>6 DEF Good, SoleCopy, Ended, Unsent

\* The schedulers: a record fired is one more copy in the queue.
LEMMA FetchSingle ==
    ASSUME TypeOK, DoneInv, FiredOnce', NEW f \in Host,
           \/ FetchReady(f) \/ Hget(f) \/ Hdel(f) \/ FetchFails(f)
           \/ \E m \in Msg : Zrem(f, m) \/ Fire(f, m),
           NEW x \in Msg
    PROVE  Single(x)'
  <1> SUFFICES ASSUME backend' = "Redis", NoFault', tries'[x] = 0
               PROVE  Single(x)'
    BY Zenon DEF Single
  <1>i. Single(x)
    BY Zenon DEF DoneInv
  <1>f. ~Fault
    BY Zenon, FaultEnds
  <1>1. ASSUME UNCHANGED <<fixed, wire, msgVars, runVars, faults>>,
               UNCHANGED <<scheduled, fired>>,
               UNCHANGED store \/ \E S \in SUBSET Msg : Unindexed(S)
        PROVE  Single(x)'
    <2>1. UNCHANGED <<backend, wire, queued, busy, out, tries, phase, faults,
                      crashes>>
      BY Zenon, <1>1 DEF fixed, msgVars, runVars
    <2>2. Record(x)' = Record(x)
      <3>1. CASE UNCHANGED store
        BY Zenon, <2>1, <3>1 DEF Record, Of
      <3>2. CASE \E S \in SUBSET Msg : Unindexed(S)
        BY Zenon, <2>1, <3>2, DelayRecords
      <3> QED  BY Zenon, <1>1, <3>1, <3>2
    <2>3. Calm
      BY Zenon, <2>1 DEF Calm, NoFault
    <2> QED  BY Zenon, <1>i, <1>1, <2>1, <2>2, <2>3, SingleKept
             DEF SameCopies, SameMarks
  <1>2. CASE FetchReady(f)
    <2>1. UNCHANGED store \/ \E S \in SUBSET Msg : Unindexed(S)
      <3>1. Due \in SUBSET Msg
        BY Zenon DEF Due
      <3> QED  BY Zenon, <1>2, <3>1 DEF FetchReady
    <2> QED  BY Zenon, <1>1, <1>2, <2>1 DEF FetchReady, histVars
  <1>3. CASE Hget(f) \/ Hdel(f)
    BY Zenon, <1>1, <1>3 DEF Hget, Hdel, walVars, histVars
  <1>4. CASE FetchFails(f)
    BY Zenon, <1>f, <1>4 DEF FetchFails
  <1>5. ASSUME NEW m \in Msg, Zrem(f, m)
        PROVE  Single(x)'
    <2>1. \E S \in SUBSET Msg : Unindexed(S)
      <3>1. {m} \in SUBSET Msg
        BY Zenon
      <3> QED  BY Zenon, <1>5, <3>1 DEF Zrem
    <2> QED  BY Zenon, <1>1, <1>5, <2>1 DEF Zrem
  <1>6. ASSUME NEW m \in Msg, Fire(f, m)
        PROVE  Single(x)'
    <2>1. /\ queued' = [queued EXCEPT ![m] = queued[m] + 1]
          /\ fired' = [fired EXCEPT ![m] = fired[m] + 1]
          /\ UNCHANGED <<backend, store, wire, phase, busy, out, tries, faults,
                         crashes, scheduled>>
      BY Zenon, <1>6, <1>f DEF Fire, More, fixed, walVars, runVars
    <2>t. queued \in [Msg -> 0 .. MaxCopies] /\ fired \in [Msg -> Nat]
      BY Zenon DEF TypeOK
    <2>2. Record(x)' = Record(x) /\ Calm
      BY Zenon, <2>1 DEF Record, Of, Calm, NoFault
    <2>3. CASE x # m
      <3>1. queued'[x] = queued[x] /\ fired'[x] = fired[x]
        BY Zenon, <2>1, <2>t, <2>3
      <3> QED  BY Zenon, <1>i, <2>1, <2>2, <3>1, SingleKept
               DEF SameCopies, SameMarks
    <2>4. CASE x = m
      <3>1. Good(m)
        BY Zenon, <1>i, <2>1, <2>2, <2>4 DEF Single, Good, Calm
      <3>2. /\ queued[m] \in Nat /\ busy[m] \in Nat /\ Ended(m) \in {0, 1}
            /\ scheduled[m] \in Nat /\ fired[m] \in Nat
        BY Zenon, CopyTypes
      <3>3. queued'[m] = queued[m] + 1 /\ fired'[m] = fired[m] + 1
        BY Zenon, <2>1, <2>t
      <3>4. Ended(m)' = Ended(m) /\ busy'[m] = busy[m]
            /\ scheduled'[m] = scheduled[m]
        BY Zenon, <2>1 DEF Ended
      <3>5. SoleCopy(m)'
        BY <3>1, <3>2, <3>3, <3>4 DEF Good, SoleCopy
      <3>6. phase[m] = "sent"
        <4>1. fired'[m] <= scheduled'[m]
          BY Zenon DEF FiredOnce
        <4>2. scheduled[m] # 0
          BY <3>2, <3>3, <3>4, <4>1
        <4> QED  BY Zenon, <3>1, <4>2 DEF Good, Unsent
      <3>7. Marked(m)'
        BY Zenon, <2>1, <2>2, <2>4, <3>1 DEF Marked, Good
      <3> QED  BY Zenon, <2>1, <2>4, <3>5, <3>6, <3>7 DEF Single
    <2> QED  BY Zenon, <2>3, <2>4
  <1> QED  BY Zenon, <1>2, <1>3, <1>4, <1>5, <1>6

\* Flushing and time leave the records of a RedisWal alone.
LEMMA TimeSingle ==
    ASSUME TypeOK, DoneInv, Flush \/ Ripen, NEW x \in Msg
    PROVE  Single(x)'
  <1>i. Single(x)
    BY Zenon DEF DoneInv
  <1>1. UNCHANGED <<backend, wire, queued, busy, out, tries, phase, faults,
                    crashes, scheduled, fired>>
    BY Zenon DEF Flush, Ripen, fixed, msgVars, runVars, histVars
  <1>2. Record(x)' = Record(x)
    <2>1. CASE Flush
      BY Zenon, <1>1, <2>1 DEF Flush, Record, Of
    <2>2. CASE Ripen
      <3>1. store' = [hd \in Handle |-> [store[hd] EXCEPT
                                           !.delay = Ripe(store[hd].delay)]]
        BY Zenon, <2>2 DEF Ripen
      <3> QED  BY Zenon, <1>1, <3>1, DelayRecords
    <2> QED  BY Zenon, <2>1, <2>2
  <1>3. Calm
    BY Zenon, <1>1 DEF Calm, NoFault
  <1> QED  BY Zenon, <1>i, <1>1, <1>2, <1>3, SingleKept
           DEF SameCopies, SameMarks

\* Every step keeps DoneInv; replay and crashes end what it claims.
LEMMA DoneStep ==
    ASSUME TypeOK, DoneInv, FiredOnce, FiredOnce', Next
    PROVE  DoneInv'
  <1>t. /\ crashes \in Nat /\ replays \in 0 .. crashes
        /\ crashes = 0 => todo = {}
    BY DEF TypeOK, DoneInv
  <1>1. ASSUME crashes' # 0
        PROVE  DoneInv'
    BY Zenon, <1>1 DEF DoneInv, Single, NoFault
  <1>2. CASE \E f \in Host : Crash(f)
    <2>1. crashes' = crashes + 1
      BY Zenon, <1>2 DEF Crash
    <2>2. crashes' # 0
      BY <1>t, <2>1
    <2> QED  BY Zenon, <1>1, <2>2
  <1>3. CASE Replay
    <2>1. replays > 0 /\ crashes' = crashes
      BY Zenon, <1>3 DEF Replay
    <2>2. crashes' # 0
      BY <1>t, <2>1
    <2> QED  BY Zenon, <1>1, <2>2
  <1>4. CASE \E m \in Msg : ReplayOne(m)
    <2>1. todo # {} /\ crashes' = crashes
      BY Zenon, <1>4 DEF ReplayOne
    <2> QED  BY Zenon, <1>1, <1>t, <2>1
  <1>5. ASSUME todo' = todo, crashes' = crashes, \A x \in Msg : Single(x)'
        PROVE  DoneInv'
    BY Zenon, <1>t, <1>5 DEF DoneInv
  <1>6. ASSUME NEW m \in Msg, Append(m) \/ Send(m)
        PROVE  DoneInv'
    <2>1. todo' = todo /\ crashes' = crashes
      BY Zenon, <1>6 DEF Append, Send, runVars
    <2> QED  BY Zenon, <1>5, <1>6, <2>1, AppSingle
  <1>7. ASSUME NEW m \in Msg,
               \/ Take(m) \/ SendBack(m)
               \/ \E o \in {"done", "dead", "exhausted"} : Finish(m, o)
        PROVE  DoneInv'
    <2>1. todo' = todo /\ crashes' = crashes
      BY Zenon, <1>7 DEF Take, SendBack, Finish, runVars
    <2> QED  BY Zenon, <1>5, <1>7, <2>1, WorkerSingle
  <1>8. ASSUME NEW m \in Msg, NEW s \in Status, Sync(m, s)
        PROVE  DoneInv'
    <2>1. todo' = todo /\ crashes' = crashes
      BY Zenon, <1>8 DEF Sync, runVars
    <2> QED  BY Zenon, <1>5, <1>8, <2>1, SyncSingle
  <1>9. ASSUME NEW f \in Host,
               \/ FetchReady(f) \/ Hget(f) \/ Hdel(f) \/ FetchFails(f)
               \/ \E m \in Msg : Zrem(f, m) \/ Fire(f, m)
        PROVE  DoneInv'
    <2>1. todo' = todo /\ crashes' = crashes
      BY Zenon, <1>9 DEF FetchReady, Zrem, Hget, Hdel, FetchFails, Fire, runVars
    <2> QED  BY Zenon, <1>5, <1>9, <2>1, FetchSingle
  <1>10. CASE Flush \/ Ripen
    <2>1. todo' = todo /\ crashes' = crashes
      BY Zenon, <1>10 DEF Flush, Ripen, runVars
    <2> QED  BY Zenon, <1>5, <1>10, <2>1, TimeSingle
  <1> QED  BY Zenon, <1>2, <1>3, <1>4, <1>6, <1>7, <1>8, <1>9, <1>10 DEF Next

\* Once a message that was never sent back is done, and its updates have been
\* applied in whatever order, replay does not find it pending in a RedisWal,
\* as long as nothing crashed or failed (WalSyncHandler, replay_pending).
THEOREM CompletedNotReplayed == Spec => []DoneNotReplayed
  <1>1. Init => DoneInv
    <2>0. Init => todo = {}
      BY Zenon DEF Init
    <2> SUFFICES ASSUME Init, NEW m \in Msg
                 PROVE  Single(m)
      BY Zenon, <2>0 DEF DoneInv
    <2>1. /\ queued[m] = 0 /\ busy[m] = 0 /\ scheduled[m] = 0 /\ fired[m] = 0
          /\ out[m] = "open" /\ wire = {}
      BY DEF Init
    <2>2. SoleCopy(m)
      BY <2>1 DEF SoleCopy, Ended
    <2>3. Marked(m)
      BY <2>1 DEF Marked
    <2> QED  BY Zenon, <2>1, <2>2, <2>3 DEF Single, Unsent
  <1>2. TypeOK /\ DoneInv /\ FiredOnce /\ FiredOnce' /\ [Next]_vars => DoneInv'
    <2> SUFFICES ASSUME TypeOK, DoneInv, FiredOnce, FiredOnce', [Next]_vars
                 PROVE  DoneInv'
      OBVIOUS
    <2>1. CASE Next
      BY Zenon, <2>1, DoneStep
    <2>2. CASE UNCHANGED vars
      <3>1. UNCHANGED <<backend, store, wire, queued, busy, out, tries, phase,
                        faults, crashes, scheduled, fired, todo>>
        BY Zenon, <2>2 DEF vars, fixed, walVars, msgVars, runVars, histVars
      <3> QED  BY Zenon, <3>1 DEF DoneInv, Single, NoFault, SoleCopy, Ended,
                  Unsent, Marked, Record, Of
    <2> QED  BY Zenon, <2>1, <2>2
  <1>3. DoneInv => DoneNotReplayed
    BY Zenon DEF DoneInv, Single, Marked, DoneNotReplayed, ReplayPending, Status
  <1> QED  BY <1>1, <1>2, <1>3, WalTypeCorrect, SentAtMostOnce, PTL DEF Spec
=============================================================================
