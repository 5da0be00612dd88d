------------------------------ MODULE Streams ------------------------------
(***************************************************************************)
(* The Redis Streams queue: one topic's stream, its consumer groups and    *)
(* the consumer each node's dispatcher reads it with.                      *)
(*                                                                         *)
(* A business topic has one group that the nodes share; a fan-out topic    *)
(* (shutdown, topic_sync, metrics) has a group per node name, created at   *)
(* the end of the stream.                                                  *)
(*                                                                         *)
(* An entry is a message and how it decodes: "good", "bad" (undecodable or *)
(* of a newer wire version) or "foreign" (without our field).  Entries are *)
(* known by their position; the first `trimmed` ones are gone.  A PEL maps *)
(* delivered, unacknowledged positions to the consumer that has them;      *)
(* "dead" stands for consumer names of processes that are gone.            *)
(***************************************************************************)
EXTENDS Naturals, Sequences, FiniteSets

CONSTANTS
    Node,
    MaxMsg,         \* bound: messages sent, numbered in the order of sending
    Batch,          \* batch_size of the dispatcher
    MaxLen,         \* maxlen of the configuration, where it is set
    MaxEntries, MaxFaults    \* bounds; a process that dies is a fault

ASSUME StreamsAssumption ==
    /\ "shared" \notin Node /\ "dead" \notin Node
    /\ Batch \in Nat \ {0} /\ MaxLen \in Nat \ {0}
    /\ MaxMsg \in Nat /\ MaxEntries \in Nat /\ MaxFaults \in Nat

VARIABLES
    class,          \* fixed at the start: "shared", "fanout" or "bounded"
                    \* (shared, with a maxlen)
    stream, trimmed,
    last,           \* last[g]: last delivered position; NotMade without group
    pel,            \* pel[g]
    ready,          \* nodes whose consumer knows that the group exists
    hold,           \* hold[n]: positions claimed by n's dispatcher
    up,             \* nodes that are running
    joined,         \* joined[n]: length of the stream when n's process began
    died, faults,   \* nodes whose process died, failures so far
    seen,           \* history: seen[g][m]: times g's workers were given m
    nacked,         \* history: nacked[m]: copies re-injected by nack
    stale           \* history: nodes given a fan-out entry of before they ran

fixed == <<class>>
fan == class = "fanout"
bounded == class = "bounded"
redis == <<stream, trimmed, last, pel>>
local == <<ready, hold, up, joined>>
hist  == <<seen, nacked, stale>>
vars == <<fixed, redis, local, died, faults, hist>>

NotMade == MaxEntries + 1
Msg == 1 .. MaxMsg
Group == IF fan THEN Node ELSE {"shared"}
Kind == {"good", "bad", "foreign"}
Entry == [m : Msg, kind : Kind]
Position == 1 .. MaxEntries

TypeOK ==
    /\ class \in {"shared", "fanout", "bounded"}
    /\ Len(stream) <= MaxEntries
    /\ \A i \in DOMAIN stream : stream[i] \in Entry
    /\ trimmed \in 0 .. Len(stream)
    /\ last \in [Group -> 0 .. NotMade]
    /\ \A g \in Group : \A i \in DOMAIN pel[g] :
         i \in 1 .. last[g] /\ pel[g][i] \in Node \cup {"dead"}
    /\ ready \subseteq up /\ up \subseteq Node
    /\ hold \in [Node -> SUBSET Position]
    /\ joined \in [Node -> 0 .. MaxEntries]
    /\ died \subseteq Node /\ faults \in 0 .. MaxFaults

NoPel == [i \in {} |-> "dead"]

Init ==
    /\ class \in {"shared", "fanout", "bounded"}
    /\ stream = << >> /\ trimmed = 0
    /\ last = [g \in Group |-> NotMade] /\ pel = [g \in Group |-> NoPel]
    /\ ready = {} /\ hold = [n \in Node |-> {}] /\ up = {}
    /\ joined = [n \in Node |-> 0] /\ died = {} /\ faults = 0
    /\ seen = [g \in Group |-> [m \in Msg |-> 0]]
    /\ nacked = [m \in Msg |-> 0] /\ stale = {}

-----------------------------------------------------------------------------
\* group_for: the group n reads this topic with.
GroupOf(n) == IF fan THEN n ELSE "shared"

\* Mutant: every group starts at the beginning of the stream.
GroupStart_Zero == 0

\* group_start_for: "$" for a fan-out topic, "0" for any other.
GroupStart == IF fan THEN Len(stream) ELSE 0

\* XADD MAXLEN ~ may drop the oldest entries beyond the bound, read or not.
Trims(s) ==
    {t \in trimmed .. Len(s) :
        t = trimmed \/ (bounded /\ t <= Len(s) - MaxLen)}

\* xadd
Xadd(e) ==
    /\ Len(stream) < MaxEntries /\ stream' = Append(stream, e)
    /\ trimmed' \in Trims(stream')

\* xack: whoever has the entry.
Without(p, S) == [i \in DOMAIN p \ S |-> p[i]]
Xack(g, S) == pel' = [pel EXCEPT ![g] = Without(@, S)]

Fault == faults < MaxFaults /\ faults' = faults + 1

Sent == {stream[i].m : i \in DOMAIN stream}

\* RedisStreamProducer and RedisRoutingProducer: send and try_send.
Send(m, k) ==
    /\ m = Cardinality(Sent) + 1 /\ Xadd([m |-> m, kind |-> k])
    /\ UNCHANGED <<fixed, last, pel, local, died, faults, hist>>

\* A process starts, again perhaps, under its configured node name.
Start(n) ==
    /\ n \notin up /\ up' = up \cup {n}
    /\ joined' = [joined EXCEPT ![n] = Len(stream)]
    /\ UNCHANGED <<fixed, redis, ready, hold, died, faults, hist>>

\* It dies: its consumer name is never used again, its claims stay in the PEL.
Die(n) ==
    /\ n \in up /\ Fault /\ died' = died \cup {n}
    /\ up' = up \ {n} /\ ready' = ready \ {n}
    /\ hold' = [hold EXCEPT ![n] = {}]
    /\ pel' = [pel EXCEPT ![GroupOf(n)] =
                 [i \in DOMAIN @ |-> IF @[i] = n THEN "dead" ELSE @[i]]]
    /\ UNCHANGED <<fixed, stream, trimmed, last, joined, hist>>

\* ensure_group, on the first read only: XGROUP CREATE or BUSYGROUP.
EnsureGroup(n) ==
    LET g == GroupOf(n) IN
    /\ n \in up \ ready /\ ready' = ready \cup {n}
    /\ last' = [last EXCEPT ![g] = IF @ = NotMade THEN GroupStart ELSE @]
    /\ UNCHANGED <<fixed, stream, trimmed, pel, hold, up, joined, died,
                   faults, hist>>

-----------------------------------------------------------------------------
(* claim_batch, claim_stale, ack and nack, as the dispatcher calls them: it *)
(* claims again only when every claim of the last batch is settled.        *)

\* The positions XREADGROUP > delivers next.
Fresh(g) ==
    LET new == {i \in DOMAIN stream : i > last[g] /\ i > trimmed} IN
    {i \in new : Cardinality({j \in new : j < i}) < Batch}

Newest(S) == CHOOSE i \in S : \A j \in S : j <= i

Owned(p, S, n) == [i \in DOMAIN p \cup S |-> IF i \in S THEN n ELSE p[i]]

Of(S, k) == {i \in S : stream[i].kind = k}

\* Entries of S acknowledged in passing; the error of an XACK is ignored.
Discarded(S, gone) ==
    /\ gone \subseteq S
    /\ faults' = faults + Cardinality(S \ gone) /\ faults' <= MaxFaults

\* read_group: foreign entries are acknowledged on the way, a bad one ends it
\* with an error, and everything delivered so far stays in the PEL unclaimed.
ClaimBatch(n) ==
    LET g == GroupOf(n)
        S == Fresh(g)
        passed == {i \in Of(S, "foreign") : \A j \in Of(S, "bad") : i < j} IN
    /\ n \in ready /\ hold[n] = {} /\ S # {}
    /\ last' = [last EXCEPT ![g] = Newest(S)]
    /\ \E gone \in SUBSET passed :
         /\ Discarded(passed, gone)
         /\ pel' = [pel EXCEPT ![g] = Owned(@, S \ gone, n)]
    /\ hold' = [hold EXCEPT ![n] = IF Of(S, "bad") = {} THEN Of(S, "good")
                                                       ELSE {}]
    /\ UNCHANGED <<fixed, stream, trimmed, ready, up, joined, died, hist>>

\* The entries were delivered but XREADGROUP ended with an error here.
LoseReply(n) ==
    LET g == GroupOf(n)
        S == Fresh(g) IN
    /\ n \in ready /\ hold[n] = {} /\ S # {} /\ Fault
    /\ last' = [last EXCEPT ![g] = Newest(S)]
    /\ pel' = [pel EXCEPT ![g] = Owned(@, S, n)]
    /\ UNCHANGED <<fixed, stream, trimmed, local, died, hist>>

InHand(g) == UNION {hold[n] : n \in {v \in Node : GroupOf(v) = g}}

\* Mutant: min_idle is zero: claims in hand are taken over, too.
Reapable_All(g) == DOMAIN pel[g]

\* Mutant: only what dead consumers left behind is taken over.
Reapable_Dead(g) == {i \in DOMAIN pel[g] : pel[g][i] = "dead"}

\* Entries idle for min_idle: nobody is at work on them.
Reapable(g) == DOMAIN pel[g] \ InHand(g)

Live(S) == {i \in S : i > trimmed}

\* claim_stale with the entries S, of which it acknowledges `gone`: trimmed
\* ones leave the PEL, the others become n's, and the good ones are claims.
Reap(n, S, gone) ==
    /\ pel' = [pel EXCEPT ![GroupOf(n)] =
                 Owned(Without(@, (S \ Live(S)) \cup gone), Live(S) \ gone, n)]
    /\ hold' = [hold EXCEPT ![n] = Of(Live(S), "good")]

\* Undecodable entries are acknowledged, foreign ones skipped.
ClaimStale(n) ==
    LET S == Reapable(GroupOf(n)) IN
    /\ n \in ready /\ hold[n] = {} /\ S # {}
    /\ \E gone \in SUBSET Of(Live(S), "bad") :
         Discarded(Of(Live(S), "bad"), gone) /\ Reap(n, S, gone)
    /\ UNCHANGED <<fixed, stream, trimmed, last, ready, up, joined, died,
                   hist>>

\* A dispatcher that is stuck for min_idle loses what it has to another.
ClaimSlow(n, i) ==
    /\ n \in ready /\ hold[n] = {}
    /\ i \in InHand(GroupOf(n)) \cap DOMAIN pel[GroupOf(n)]
    /\ Fault /\ Reap(n, {i}, {})
    /\ UNCHANGED <<fixed, stream, trimmed, last, ready, up, joined, died,
                   hist>>

Settled(n, i) == i \in hold[n] /\ hold' = [hold EXCEPT ![n] = @ \ {i}]

\* The message goes to a worker's inbox, then XACK; an error of XACK is only
\* logged and the entry stays in the PEL.
Ack(n, i) ==
    /\ Settled(n, i)
    /\ seen' = [seen EXCEPT ![GroupOf(n)][stream[i].m] = @ + 1]
    /\ stale' = IF fan /\ i <= joined[n] THEN stale \cup {n} ELSE stale
    /\ \/ Xack(GroupOf(n), {i}) /\ UNCHANGED faults
       \/ Fault /\ UNCHANGED pel
    /\ UNCHANGED <<fixed, stream, trimmed, last, ready, up, joined, died,
                   nacked>>

\* Mutant: the original is released although no copy was added.
LeftOver_Released(g, i) == Xack(g, {i})

\* An error of XADD or XACK in nack leaves the entry in the PEL.
LeftOver(g, i) == UNCHANGED pel

\* nack: the claim is forgotten, a fresh copy added, the original released.
Nack(n, i) ==
    /\ Settled(n, i)
    /\ \/ /\ Xadd(stream[i])
          /\ nacked' = [nacked EXCEPT ![stream[i].m] = @ + 1]
          /\ \/ Xack(GroupOf(n), {i}) /\ UNCHANGED faults
             \/ Fault /\ LeftOver(GroupOf(n), i)
       \/ /\ Fault /\ LeftOver(GroupOf(n), i)
          /\ UNCHANGED <<stream, trimmed, nacked>>
    /\ UNCHANGED <<fixed, last, ready, up, joined, died, seen, stale>>

-----------------------------------------------------------------------------
Next ==
    \/ \E m \in Msg, k \in Kind : Send(m, k)
    \/ \E n \in Node : \/ Start(n) \/ Die(n) \/ EnsureGroup(n)
                       \/ ClaimBatch(n) \/ LoseReply(n) \/ ClaimStale(n)
    \/ \E n \in Node, i \in Position :
         ClaimSlow(n, i) \/ Ack(n, i) \/ Nack(n, i)

Spec == Init /\ [][Next]_vars

\* Processes are started again, dispatchers go on reading and reaping, and
\* settle every claim they hold.
Fairness ==
    \A n \in Node :
        /\ WF_vars(Start(n)) /\ WF_vars(EnsureGroup(n))
        /\ WF_vars(ClaimBatch(n)) /\ SF_vars(ClaimStale(n))
        /\ \A i \in Position : WF_vars(Ack(n, i))
FairSpec == Spec /\ Fairness

-----------------------------------------------------------------------------
(* Properties. *)

\* Position i is beyond the reach of trimming: no maxlen, or among the newest.
Recent(i) == ~bounded \/ i + MaxLen > Len(stream)

Copied(i) == \E j \in DOMAIN stream : j > i /\ stream[j].m = stream[i].m

\* No good entry falls between two stools: what a group has been delivered
\* was given to a worker, was re-injected, or is still in the PEL, where
\* claim_stale finds it; what it has not been delivered is still in the
\* stream (read_group, ack, nack, claim_stale, xadd with MAXLEN).
NothingSkipped ==
    \A g \in Group : \A i \in DOMAIN stream :
        stream[i].kind = "good" /\ Recent(i) =>
            /\ i > trimmed
            /\ last[g] # NotMade /\ ~fan /\ i <= last[g] =>
                 \/ i \in DOMAIN pel[g]
                 \/ seen[g][stream[i].m] > 0 \/ Copied(i)

\* A group is given a message no more often than it was sent and re-injected,
\* unless a process died, a command failed or a dispatcher stalled for
\* min_idle (XREADGROUP >, XAUTOCLAIM, XACK).  On a fan-out topic the copies
\* one node re-injects reach the workers of every node.
NoExtraCopies ==
    faults = 0 =>
        \A g \in Group, m \in Msg : seen[g][m] <= 1 + nacked[m]

\* A node that runs for the first time is never given a fan-out command from
\* before it ran, read at once or reaped later (group_start_for).
NoStaleControl == stale \subseteq died

\* Every good message of a topic that is not trimmed reaches a worker in the
\* end, whatever died with claims in hand and whatever undecodable entries
\* were read with it (claim_stale driven by the dispatcher).
Waiting(m) == \E i \in DOMAIN stream : stream[i] = [m |-> m, kind |-> "good"]
AllDelivered ==
    \A m \in Msg :
        ~fan /\ ~bounded /\ Waiting(m) ~> \E g \in Group : seen[g][m] > 0
=============================================================================
