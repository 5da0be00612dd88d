--------------------------- MODULE RegistryProofs ---------------------------
(***************************************************************************)
(* The registry's copy and its ages, for any fleet, any number of workers, *)
(* any timeout, and any number of faults and Host restarts.                *)
(***************************************************************************)
EXTENDS Registry, FiniteSetTheorems, TLAPS

-----------------------------------------------------------------------------
(* The inductive invariant.                                                *)

\* pass is a function on the nodes (TypeOK says what it maps them to).
PassType == pass = [n \in Node |-> pass[n]]

\* Nothing is known of a worker that was not created yet.
Unheard(w) ==
  /\ w \notin DOMAIN reg /\ w \notin DOMAIN saved
  /\ \A m \in wire : m.w # w
  /\ \A n \in Node : w \notin DOMAIN pass[n]

Fresh == \A w \in Worker : life[w] = "none" => Unheard(w)

Attended(w) == life[w] = "live" /\ node[home[w]] = "up"

\* The heartbeat of this interval is sent and handled, or was dropped.
Settled(w) ==
  /\ home[w] \in beaten
  /\ w \notin DOMAIN pass[home[w]]
  /\ Heartbeat(w) \notin wire

\* An entry grows no older than one interval for every fault there was, and
\* one more while the heartbeat of this interval is still to come.
Young(r, w) ==
  w \in DOMAIN r => /\ r[w] <= faults + 1
                    /\ Settled(w) => r[w] <= faults

NotAhead(r) == \A w \in DOMAIN r : r[w] >= 0

AgeInv ==
  prompt /\ back = 0 =>
    /\ NotAhead(reg) /\ NotAhead(saved)
    /\ \A w \in Worker : Attended(w) => Young(reg, w) /\ Young(saved, w)

RegInv ==
  /\ TypeOK /\ PassType /\ Fresh
  /\ Persisted /\ AgeInv /\ NoLiveEviction

-----------------------------------------------------------------------------
(* Helpers.                                                                *)

(* The loop's counter stays below DISCOVERY_REANNOUNCE_EVERY.              *)
LEMMA CycleStays ==
  ASSUME NEW c \in 0 .. Every - 1
  PROVE  NextCycle(c) \in 0 .. Every - 1
  <1>1. Every \in Nat /\ Every > 0 /\ c + 1 \in Nat
    BY RegistryAssumption
  <1> QED  BY <1>1 DEF NextCycle

(* A send changes only wire and faults, drops at least one message or none, *)
(* and everything that is under way afterwards was, or is sent now.        *)
LEMMA SendEffect ==
  ASSUME NEW ms, IsFiniteSet(ms), faults \in 0 .. MaxFaults, Send(ms)
  PROVE  /\ faults' \in 0 .. MaxFaults /\ faults' >= faults
         /\ wire \subseteq wire' /\ wire' \subseteq wire \cup ms
         /\ ms \subseteq wire' \/ faults' >= faults + 1
  <1>1. PICK lost \in SUBSET ms :
          /\ faults' = faults + Cardinality(lost) /\ faults' <= MaxFaults
          /\ wire' = wire \cup (ms \ lost)
    BY Zenon DEF Send
  <1>2. IsFiniteSet(lost)
    BY Zenon, FS_Subset
  <1>3. Cardinality(lost) \in Nat /\ (Cardinality(lost) = 0 <=> lost = {})
    BY Zenon, <1>2, FS_CardinalityType, FS_EmptySet
  <1>4. MaxFaults \in Nat
    BY Zenon, RegistryAssumption
  <1>5. faults' \in 0 .. MaxFaults /\ faults' >= faults
        /\ (lost # {} => faults' >= faults + 1)
    BY <1>1, <1>3, <1>4
  <1>6. wire \subseteq wire' /\ wire' \subseteq wire \cup ms
    BY Zenon, <1>1
  <1>7. lost = {} => ms \subseteq wire'
    BY Zenon, <1>1
  <1> QED  BY Zenon, <1>5, <1>6, <1>7

(* A listing without some entries, and with an entry just heard of.        *)
LEMMA Listings ==
  /\ \A S : /\ DOMAIN Without(S) = DOMAIN reg \ S
            /\ \A v \in DOMAIN reg \ S : Without(S)[v] = reg[v]
  /\ \A w : /\ DOMAIN Listing(w) = DOMAIN reg \cup {w}
            /\ Listing(w)[w] = 0
            /\ \A v \in DOMAIN reg : v # w => Listing(w)[v] = reg[v]
  BY Zenon DEF Without, Listing

(* The pass of one node changes, those of the others do not.               *)
LEMMA PassChanges ==
  ASSUME PassType, NEW n \in Node, NEW f, pass' = [pass EXCEPT ![n] = f]
  PROVE  /\ PassType' /\ pass'[n] = f
         /\ \A k \in Node : k # n => pass'[k] = pass[k]
  <1>1. DOMAIN pass = Node
    BY Zenon DEF PassType
  <1>2. pass' = [k \in Node |-> IF k = n THEN f ELSE pass[k]]
    BY Zenon, <1>1
  <1> QED  BY Zenon, <1>2 DEF PassType

-----------------------------------------------------------------------------
(* Types.                                                                  *)

(* A save makes the copy the registry, or is one more fault.               *)
LEMMA SaveEffect ==
  ASSUME TypeOK, Save, IsListing(reg)'
  PROVE  /\ IsListing(saved)' /\ unsaved' \in BOOLEAN
         /\ faults' \in 0 .. MaxFaults /\ faults' >= faults
         /\ Persisted'
         /\ \/ saved' = reg' /\ faults' = faults
            \/ saved' = saved /\ faults' >= faults + 1
  <1>1. faults \in 0 .. MaxFaults /\ IsListing(saved) /\ MaxFaults \in Nat
    BY Zenon, RegistryAssumption DEF TypeOK
  <1>2. CASE saved' = reg' /\ unsaved' = FALSE /\ UNCHANGED faults
    <2>1. IsListing(saved)' /\ unsaved' \in BOOLEAN /\ Persisted'
      BY Zenon, <1>2 DEF IsListing, Persisted
    <2>2. faults' >= faults
      BY <1>1, <1>2
    <2> QED  BY Zenon, <1>1, <1>2, <2>1, <2>2
  <1>3. CASE /\ faults < MaxFaults /\ faults' = faults + 1
             /\ UNCHANGED saved /\ unsaved' = TRUE
    <2>1. IsListing(saved)' /\ unsaved' \in BOOLEAN /\ Persisted'
      BY Zenon, <1>1, <1>3 DEF IsListing, Persisted
    <2>2. /\ faults' \in 0 .. MaxFaults /\ faults' >= faults
          /\ faults' >= faults + 1
      BY <1>1, <1>3
    <2> QED  BY Zenon, <1>3, <2>1, <2>2
  <1> QED  BY Zenon, <1>2, <1>3 DEF Save

(* The workers of one node die with it.                                    *)
LEMMA WorklessType ==
  ASSUME TypeOK, NEW n \in Node
  PROVE  /\ Workless(n) \in [Worker -> {"none", "live", "stopping", "gone"}]
         /\ \A w \in Worker : /\ Workless(n)[w] = "none" <=> life[w] = "none"
                              /\ Workless(n)[w] = "live" =>
                                   life[w] = "live" /\ home[w] # n
  <1>1. life \in [Worker -> {"none", "live", "stopping", "gone"}]
    BY Zenon DEF TypeOK
  <1> QED  BY <1>1 DEF Workless

(* The handlers and the sweep leave a listing of workers.                  *)
LEMMA HandledListing ==
  ASSUME TypeOK
  PROVE  /\ \A S : IsListing(Without(S))
         /\ \A w \in Worker : IsListing(Listing(w)) /\ IsListing(Beaten(w))
  <1>1. IsListing(reg)
    BY Zenon DEF TypeOK
  <1>2. 0 \in Age
    BY RegistryAssumption DEF Age
  <1>3. \A S : IsListing(Without(S))
    BY ZenonT(60), <1>1, Listings DEF IsListing
  <1>4. ASSUME NEW w \in Worker  PROVE  IsListing(Listing(w))
    <2>1. /\ DOMAIN Listing(w) = DOMAIN reg \cup {w} /\ Listing(w)[w] = 0
          /\ \A v \in DOMAIN reg : v # w => Listing(w)[v] = reg[v]
      BY Zenon, Listings
    <2>2. ASSUME NEW v \in DOMAIN Listing(w)
          PROVE  v \in Worker /\ Listing(w)[v] \in Age
      <3>1. CASE v = w
        BY Zenon, <3>1, <2>1, <1>2
      <3>2. CASE v # w
        <4>1. v \in DOMAIN reg /\ Listing(w)[v] = reg[v]
          BY Zenon, <3>2, <2>1, <2>2
        <4> QED  BY Zenon, <4>1, <1>1 DEF IsListing
      <3> QED  BY Zenon, <3>1, <3>2
    <2> QED  BY Zenon, <2>2 DEF IsListing
  <1> QED  BY Zenon, <1>1, <1>3, <1>4 DEF Beaten

(* Time passes in a listing.                                               *)
LEMMA OlderListing ==
  ASSUME NEW r, IsListing(r)
  PROVE  /\ IsListing(Older(r, 1)) /\ DOMAIN Older(r, 1) = DOMAIN r
         /\ \A w \in DOMAIN r : /\ Older(r, 1)[w] <= r[w] + 1
                                /\ r[w] >= 0 => Older(r, 1)[w] >= 0
  <1>1. DOMAIN Older(r, 1) = DOMAIN r
    BY Zenon DEF Older
  <1>2. ASSUME NEW w \in DOMAIN r
        PROVE  /\ Older(r, 1)[w] \in Age /\ Older(r, 1)[w] <= r[w] + 1
               /\ r[w] >= 0 => Older(r, 1)[w] >= 0
    <2>1. Older(r, 1)[w] = IF r[w] > Stale /\ 1 > 0 THEN r[w] ELSE r[w] + 1
      BY Zenon DEF Older
    <2>2. r[w] \in Age /\ Stale \in Nat /\ MaxBack \in Nat
      BY Zenon, RegistryAssumption DEF IsListing
    <2> QED  BY <2>1, <2>2 DEF Age
  <1> QED  BY Zenon, <1>1, <1>2 DEF IsListing

(* The clock is set back.                                                  *)
LEMMA YoungerListing ==
  ASSUME NEW r, IsListing(r),
         \A w \in DOMAIN r : r[w] <= Stale /\ r[w] - 1 \in Age
  PROVE  IsListing(Older(r, -1))
  <1>1. DOMAIN Older(r, -1) = DOMAIN r
    BY Zenon DEF Older
  <1>2. ASSUME NEW w \in DOMAIN r  PROVE  Older(r, -1)[w] \in Age
    <2>1. Older(r, -1)[w] = IF r[w] > Stale /\ -1 > 0 THEN r[w]
                                                     ELSE r[w] + -1
      BY Zenon DEF Older
    <2>2. r[w] \in Int /\ Stale \in Nat /\ r[w] <= Stale /\ r[w] - 1 \in Age
      BY RegistryAssumption DEF IsListing, Age
    <2> QED  BY <2>1, <2>2
  <1> QED  BY Zenon, <1>1, <1>2 DEF IsListing

(* Every step keeps the types.                                             *)
LEMMA TypeStep ==
  ASSUME TypeOK, PassType, Next
  PROVE  TypeOK' /\ PassType'
  <1> DEFINE Lives == {"none", "live", "stopping", "gone"}
             Modes == {"up", "wedged", "down"}
  <1>t. /\ IsListing(reg) /\ IsListing(saved) /\ unsaved \in BOOLEAN
        /\ wire \subseteq Message /\ home \in [Worker -> Node]
        /\ life \in [Worker -> Lives] /\ node \in [Node -> Modes]
        /\ \A n \in Node : \A w \in DOMAIN pass[n] :
             w \in Worker /\ pass[n][w] \in BOOLEAN
        /\ cycle \in [Node -> 0 .. Every - 1] /\ beaten \subseteq Node
        /\ prompt \in BOOLEAN /\ back \in 0 .. MaxBack
        /\ faults \in 0 .. MaxFaults /\ restarts \in 0 .. MaxRestarts
        /\ evicted \subseteq Worker
    BY Zenon DEF TypeOK
  <1>m. \A w \in Worker : /\ Discovery(w) \in Message
                          /\ Heartbeat(w) \in Message
                          /\ [kind |-> "ack", w |-> w] \in Message
    BY DEF Discovery, Heartbeat, Message
  <1>f. \A x, y : IsFiniteSet({x}) /\ IsFiniteSet({x} \cup {y})
                  /\ IsFiniteSet({x} \cup {})
    BY Zenon, FS_Singleton, FS_EmptySet, FS_Union
  <1>1. ASSUME NEW w \in Worker, Create(w)  PROVE  TypeOK' /\ PassType'
    <2>1. /\ life' = [life EXCEPT ![w] = "live"] /\ Send({Discovery(w)})
          /\ UNCHANGED <<regVars, home, node, beatVars, envVars, evicted>>
      BY Zenon, <1>1 DEF Create
    <2>2. faults' \in 0 .. MaxFaults /\ wire' \subseteq wire \cup {Discovery(w)}
      BY Zenon, <2>1, <1>t, <1>f, SendEffect
    <2>3. wire' \subseteq Message
      BY Zenon, <2>2, <1>t, <1>m
    <2>4. life' \in [Worker -> Lives]
      BY Zenon, <2>1, <1>t
    <2> QED  BY Zenon, <1>t, <2>1, <2>2, <2>3, <2>4
             DEF TypeOK, PassType, IsListing, regVars, beatVars, envVars
  <1>2. ASSUME NEW w \in Worker, SendAck(w)  PROVE  TypeOK' /\ PassType'
    <2> DEFINE m == [kind |-> "ack", w |-> w]
    <2>1. /\ life' = [life EXCEPT ![w] = "stopping"] /\ Send({m})
          /\ UNCHANGED <<regVars, home, node, beatVars, envVars, evicted>>
      BY Zenon, <1>2 DEF SendAck
    <2>2. faults' \in 0 .. MaxFaults /\ wire' \subseteq wire \cup {m}
      BY Zenon, <2>1, <1>t, <1>f, SendEffect
    <2>3. wire' \subseteq Message
      BY Zenon, <2>2, <1>t, <1>m
    <2>4. life' \in [Worker -> Lives]
      BY Zenon, <2>1, <1>t
    <2> QED  BY Zenon, <1>t, <2>1, <2>2, <2>3, <2>4
             DEF TypeOK, PassType, IsListing, regVars, beatVars, envVars
  <1>3. ASSUME NEW w \in Worker, Delete(w)  PROVE  TypeOK' /\ PassType'
    <2>1. /\ life' = [life EXCEPT ![w] = "gone"]
          /\ UNCHANGED <<regVars, wire, home, node, beatVars, envVars, faults,
                         evicted>>
      BY Zenon, <1>3 DEF Delete
    <2>2. life' \in [Worker -> Lives]
      BY Zenon, <2>1, <1>t
    <2> QED  BY Zenon, <1>t, <2>1, <2>2
             DEF TypeOK, PassType, IsListing, regVars, beatVars, envVars
  <1>4. ASSUME NEW n \in Node, Wedge(n)  PROVE  TypeOK' /\ PassType'
    <2>1. /\ node' = [node EXCEPT ![n] = "wedged"]
          /\ UNCHANGED <<regVars, wire, home, life, beatVars, envVars, faults,
                         evicted>>
      BY Zenon, <1>4 DEF Wedge
    <2>2. node' \in [Node -> Modes]
      BY Zenon, <2>1, <1>t
    <2> QED  BY Zenon, <1>t, <2>1, <2>2
             DEF TypeOK, PassType, IsListing, regVars, beatVars, envVars
  <1>5. ASSUME NEW n \in Node, Crash(n)  PROVE  TypeOK' /\ PassType'
    <2>1. /\ node' = [node EXCEPT ![n] = "down"] /\ life' = Workless(n)
          /\ pass' = [pass EXCEPT ![n] = [w \in {} |-> FALSE]]
          /\ UNCHANGED <<regVars, wire, home, cycle, beaten, envVars, faults,
                         evicted>>
      BY Zenon, <1>5 DEF Crash
    <2>2. node' \in [Node -> Modes] /\ life' \in [Worker -> Lives]
      BY Zenon, <2>1, <1>t, WorklessType
    <2>3. /\ PassType' /\ DOMAIN pass'[n] = {}
          /\ \A k \in Node : k # n => pass'[k] = pass[k]
      <3> DEFINE f == [w \in {} |-> FALSE]
      <3>1. DOMAIN f = {} /\ pass' = [pass EXCEPT ![n] = f]
        BY Zenon, <2>1
      <3> HIDE DEF f
      <3> QED  BY Zenon, <3>1, PassChanges
    <2>4. \A k \in Node : \A w \in DOMAIN pass'[k] :
            w \in Worker /\ pass'[k][w] \in BOOLEAN
      BY Zenon, <2>3, <1>t
    <2> QED  BY Zenon, <1>t, <2>1, <2>2, <2>3, <2>4
             DEF TypeOK, IsListing, regVars, envVars
  <1>6. ASSUME NEW n \in Node, BeatStart(n)  PROVE  TypeOK' /\ PassType'
    <2> DEFINE f == [w \in Local(n) |-> Missing(n, w)]
    <2>1. /\ pass' = [pass EXCEPT ![n] = f]
          /\ cycle' = [cycle EXCEPT ![n] = NextCycle(cycle[n])]
          /\ beaten' = beaten \cup {n}
          /\ UNCHANGED <<regVars, wire, nodeVars, envVars, faults, evicted>>
      BY Zenon, <1>6 DEF BeatStart
    <2>2. cycle' \in [Node -> 0 .. Every - 1] /\ beaten' \subseteq Node
      <3>1. NextCycle(cycle[n]) \in 0 .. Every - 1
        BY Zenon, <1>t, CycleStays
      <3> QED  BY Zenon, <1>t, <2>1, <3>1
    <2>f. \A w \in DOMAIN f : w \in Worker /\ f[w] \in BOOLEAN
      BY Zenon DEF Local, Missing
    <2> HIDE DEF f
    <2>3. /\ PassType' /\ pass'[n] = f
          /\ \A k \in Node : k # n => pass'[k] = pass[k]
      BY Zenon, <2>1, PassChanges
    <2>4. \A k \in Node : \A w \in DOMAIN pass'[k] :
            w \in Worker /\ pass'[k][w] \in BOOLEAN
      BY Zenon, <2>f, <2>3, <1>t
    <2> QED  BY Zenon, <1>t, <2>1, <2>2, <2>3, <2>4
             DEF TypeOK, IsListing, regVars, nodeVars, envVars
  <1>7. ASSUME NEW n \in Node, NEW w \in Worker, BeatSend(n, w)
        PROVE  TypeOK' /\ PassType'
    <2> DEFINE f == [v \in DOMAIN pass[n] \ {w} |-> pass[n][v]]
               ms == {Heartbeat(w)} \cup
                       (IF pass[n][w] THEN {Discovery(w)} ELSE {})
    <2>1. /\ Send(ms) /\ pass' = [pass EXCEPT ![n] = f]
          /\ UNCHANGED <<regVars, nodeVars, cycle, beaten, envVars, evicted>>
      BY Zenon, <1>7 DEF BeatSend
    <2>m. IsFiniteSet(ms) /\ ms \subseteq Message
      BY Zenon, <1>f, <1>m
    <2>f. \A v \in DOMAIN f : v \in Worker /\ f[v] \in BOOLEAN
      BY Zenon, <1>t
    <2> HIDE DEF f, ms
    <2>2. faults' \in 0 .. MaxFaults /\ wire' \subseteq wire \cup ms
      BY Zenon, <2>1, <2>m, <1>t, SendEffect
    <2>3. /\ PassType' /\ pass'[n] = f
          /\ \A k \in Node : k # n => pass'[k] = pass[k]
      BY Zenon, <2>1, PassChanges
    <2>4. \A k \in Node : \A v \in DOMAIN pass'[k] :
            v \in Worker /\ pass'[k][v] \in BOOLEAN
      BY Zenon, <2>f, <2>3, <1>t
    <2>5. wire' \subseteq Message
      BY Zenon, <2>2, <2>m, <1>t
    <2> QED  BY Zenon, <1>t, <2>1, <2>2, <2>3, <2>4, <2>5
             DEF TypeOK, IsListing, regVars, nodeVars, envVars
  <1>8. ASSUME NEW m \in Message, Handle(m)  PROVE  TypeOK' /\ PassType'
    <2>1. /\ wire' = wire \ {m} /\ Save
          /\ UNCHANGED <<nodeVars, beatVars, envVars, evicted>>
      BY Zenon, <1>8 DEF Handle
    <2>2. m.w \in Worker /\ m.kind \in {"discovery", "heartbeat", "ack"}
      BY DEF Message
    <2>3. reg' \in {Listing(m.w), Beaten(m.w), Without({m.w})}
      BY <1>8, <2>2 DEF Handle, Unregistered
    <2>4. IsListing(reg)'
      <3>1. IsListing(reg')
        BY Zenon, <2>2, <2>3, HandledListing
      <3> QED  BY Zenon, <3>1 DEF IsListing
    <2>5. /\ IsListing(saved)' /\ unsaved' \in BOOLEAN
          /\ faults' \in 0 .. MaxFaults
      BY Zenon, <2>1, <2>4, SaveEffect
    <2> QED  BY Zenon, <1>t, <2>1, <2>4, <2>5
             DEF TypeOK, PassType, nodeVars, beatVars, envVars
  <1>9. ASSUME Cleanup  PROVE  TypeOK' /\ PassType'
    <2> DEFINE stale == {w \in DOMAIN reg : IsStale(reg[w])}
    <2>1. /\ reg' = Without(stale) /\ Save
          /\ evicted' = evicted \cup
               {w \in stale : life[w] = "live" /\ node[home[w]] = "up"}
          /\ UNCHANGED <<wire, nodeVars, beatVars, envVars>>
      BY Zenon, <1>9 DEF Cleanup, Saving
    <2>2. IsListing(reg)'
      <3>1. IsListing(reg')
        BY Zenon, <2>1, HandledListing
      <3> QED  BY Zenon, <3>1 DEF IsListing
    <2>3. evicted' \subseteq Worker
      BY Zenon, <2>1, <1>t DEF IsListing
    <2>4. /\ IsListing(saved)' /\ unsaved' \in BOOLEAN
          /\ faults' \in 0 .. MaxFaults
      BY Zenon, <2>1, <2>2, SaveEffect
    <2> HIDE DEF stale
    <2> QED  BY Zenon, <1>t, <2>1, <2>2, <2>3, <2>4
             DEF TypeOK, PassType, nodeVars, beatVars, envVars
  <1>10. ASSUME Restart  PROVE  TypeOK' /\ PassType'
    <2>1. /\ restarts < MaxRestarts /\ restarts' = restarts + 1
          /\ reg' \in {saved, None} /\ saved' = reg' /\ unsaved' = FALSE
          /\ life' = Workless(Host) /\ node' = [node EXCEPT ![Host] = "up"]
          /\ pass' = [pass EXCEPT ![Host] = [w \in {} |-> FALSE]]
          /\ cycle' \in [Node -> 0 .. Every - 1]
          /\ UNCHANGED <<wire, home, beaten, prompt, back, faults, evicted>>
      BY Zenon, <1>10 DEF Restart, Phases
    <2>h. Host \in Node /\ MaxRestarts \in Nat
      BY Zenon, RegistryAssumption
    <2>2. restarts' \in 0 .. MaxRestarts
      BY <2>1, <2>h, <1>t
    <2>3. IsListing(reg)' /\ IsListing(saved)'
      BY Zenon, <2>1, <1>t DEF IsListing, None
    <2>4. node' \in [Node -> Modes] /\ life' \in [Worker -> Lives]
      BY Zenon, <2>1, <2>h, <1>t, WorklessType
    <2>5. /\ PassType' /\ DOMAIN pass'[Host] = {}
          /\ \A k \in Node : k # Host => pass'[k] = pass[k]
      <3> DEFINE f == [w \in {} |-> FALSE]
      <3>1. DOMAIN f = {} /\ pass' = [pass EXCEPT ![Host] = f]
        BY Zenon, <2>1
      <3> HIDE DEF f
      <3> QED  BY Zenon, <3>1, <2>h, PassChanges
    <2>6. \A k \in Node : \A w \in DOMAIN pass'[k] :
            w \in Worker /\ pass'[k][w] \in BOOLEAN
      BY Zenon, <2>5, <1>t
    <2> QED  BY Zenon, <1>t, <2>1, <2>2, <2>3, <2>4, <2>5, <2>6 DEF TypeOK
  <1>11. ASSUME Tick  PROVE  TypeOK' /\ PassType'
    <2>1. /\ reg' = Older(reg, 1) /\ saved' = Older(saved, 1) /\ beaten' = {}
          /\ UNCHANGED <<unsaved, wire, nodeVars, pass, cycle, envVars, faults,
                         evicted>>
      BY Zenon, <1>11 DEF Tick
    <2>2. IsListing(reg') /\ IsListing(saved')
      BY Zenon, <2>1, <1>t, OlderListing
    <2>3. IsListing(reg)' /\ IsListing(saved)'
      BY Zenon, <2>2 DEF IsListing
    <2> QED  BY Zenon, <1>t, <2>1, <2>3 DEF TypeOK, PassType, nodeVars, envVars
  <1>12. ASSUME ClockBack  PROVE  TypeOK' /\ PassType'
    <2>1. /\ back < MaxBack /\ back' = back + 1
          /\ \A w \in DOMAIN reg : reg[w] <= Stale /\ reg[w] - 1 \in Age
          /\ \A w \in DOMAIN saved : saved[w] <= Stale /\ saved[w] - 1 \in Age
          /\ reg' = Older(reg, -1) /\ saved' = Older(saved, -1)
          /\ UNCHANGED <<unsaved, wire, nodeVars, beatVars, prompt, faults,
                         restarts, evicted>>
      BY Zenon, <1>12 DEF ClockBack
    <2>2. IsListing(reg') /\ IsListing(saved')
      BY Zenon, <2>1, <1>t, YoungerListing
    <2>3. IsListing(reg)' /\ IsListing(saved)'
      BY Zenon, <2>2 DEF IsListing
    <2>4. back' \in 0 .. MaxBack
      BY <2>1, <1>t, RegistryAssumption
    <2> QED  BY Zenon, <1>t, <2>1, <2>3, <2>4
             DEF TypeOK, PassType, nodeVars, beatVars
  <1> QED  BY Zenon, <1>1, <1>2, <1>3, <1>4, <1>5, <1>6, <1>7, <1>8, <1>9,
                     <1>10, <1>11, <1>12 DEF Next

-----------------------------------------------------------------------------
(* Ages.                                                                   *)

(* Ages and fault counts are integers.                                     *)
LEMMA AgesAreInts ==
  ASSUME TypeOK
  PROVE  /\ faults \in Nat
         /\ \A w \in DOMAIN reg : reg[w] \in Int
         /\ \A w \in DOMAIN saved : saved[w] \in Int
  BY RegistryAssumption DEF TypeOK, IsListing, Age

(* How an age compares with a larger number of faults.                     *)
LEMMA MoreFaults ==
  ASSUME NEW a \in Int, NEW x \in Nat, NEW y \in Nat, y >= x
  PROVE  /\ a <= x + 1 => a <= y + 1
         /\ a <= x => a <= y
         /\ a <= x + 1 /\ y >= x + 1 => a <= y
  OBVIOUS

(* The ages stay within their bounds in a step that changes neither the    *)
(* registry nor its copy, if no heartbeat settles but by being dropped.    *)
LEMMA AgeKept ==
  ASSUME TypeOK, TypeOK', AgeInv, reg' = reg, saved' = saved,
         prompt' = prompt, back' = back, faults' >= faults,
         \A w \in Worker : Attended(w)' =>
           \/ w \notin DOMAIN reg /\ w \notin DOMAIN saved
           \/ /\ Attended(w)
              /\ (Settled(w)' => Settled(w)) \/ faults' >= faults + 1
  PROVE  AgeInv'
  <1> SUFFICES ASSUME prompt', back' = 0
               PROVE  /\ NotAhead(reg)' /\ NotAhead(saved)'
                      /\ \A w \in Worker : Attended(w)' =>
                           Young(reg, w)' /\ Young(saved, w)'
    BY Zenon DEF AgeInv
  <1>1. /\ NotAhead(reg) /\ NotAhead(saved)
        /\ \A w \in Worker : Attended(w) => Young(reg, w) /\ Young(saved, w)
    BY Zenon DEF AgeInv
  <1>2. NotAhead(reg)' /\ NotAhead(saved)'
    BY Zenon, <1>1 DEF NotAhead
  <1>3. ASSUME NEW w \in Worker, Attended(w)'
        PROVE  Young(reg, w)' /\ Young(saved, w)'
    <2>1. CASE w \notin DOMAIN reg /\ w \notin DOMAIN saved
      BY Zenon, <2>1 DEF Young
    <2>2. CASE /\ Attended(w)
               /\ (Settled(w)' => Settled(w)) \/ faults' >= faults + 1
      <3>0. faults \in Nat /\ faults' \in Nat
        <4>1. /\ faults \in 0 .. MaxFaults /\ faults' \in 0 .. MaxFaults
              /\ MaxFaults \in Nat
          BY Zenon, RegistryAssumption DEF TypeOK
        <4> QED  BY <4>1
      <3>1. Young(reg, w)'
        <4> SUFFICES ASSUME w \in DOMAIN reg
                     PROVE  reg[w] <= faults' + 1
                            /\ (Settled(w)' => reg[w] <= faults')
          BY Zenon DEF Young
        <4>1. reg[w] \in Int
          BY Zenon, AgesAreInts
        <4>2. reg[w] <= faults + 1 /\ (Settled(w) => reg[w] <= faults)
          BY Zenon, <1>1, <2>2 DEF Young
        <4> QED  BY Zenon, <2>2, <3>0, <4>1, <4>2, MoreFaults
      <3>2. Young(saved, w)'
        <4> SUFFICES ASSUME w \in DOMAIN saved
                     PROVE  saved[w] <= faults' + 1
                            /\ (Settled(w)' => saved[w] <= faults')
          BY Zenon DEF Young
        <4>1. saved[w] \in Int
          BY Zenon, AgesAreInts
        <4>2. saved[w] <= faults + 1 /\ (Settled(w) => saved[w] <= faults)
          BY Zenon, <1>1, <2>2 DEF Young
        <4> QED  BY Zenon, <2>2, <3>0, <4>1, <4>2, MoreFaults
      <3> QED  BY Zenon, <3>1, <3>2
    <2> QED  BY Zenon, <1>3, <2>1, <2>2
  <1> QED  BY Zenon, <1>2, <1>3

(* They stay there when the Host handles a message or sweeps: an entry is  *)
(* new, or as old as before and no heartbeat of its worker was handled; and *)
(* a copy that is not renewed is one more fault.                           *)
LEMMA AgeSaved ==
  ASSUME TypeOK, TypeOK', AgeInv, Save,
         UNCHANGED <<home, life, node, pass, beaten, prompt, back>>,
         \A v \in DOMAIN reg' :
           \/ reg'[v] = 0
           \/ /\ v \in DOMAIN reg /\ reg'[v] = reg[v]
              /\ Heartbeat(v) \in wire => Heartbeat(v) \in wire'
  PROVE  AgeInv'
  <1> SUFFICES ASSUME prompt', back' = 0
               PROVE  /\ NotAhead(reg)' /\ NotAhead(saved)'
                      /\ \A w \in Worker : Attended(w)' =>
                           Young(reg, w)' /\ Young(saved, w)'
    BY Zenon DEF AgeInv
  <1>1. /\ NotAhead(reg) /\ NotAhead(saved)
        /\ \A w \in Worker : Attended(w) => Young(reg, w) /\ Young(saved, w)
    BY Zenon DEF AgeInv
  <1>s. /\ faults' >= faults
        /\ \/ saved' = reg' /\ faults' = faults
           \/ saved' = saved /\ faults' >= faults + 1
    <2>1. IsListing(reg)'
      BY Zenon DEF TypeOK
    <2> QED  BY Zenon, <2>1, SaveEffect
  <1>0. faults \in Nat /\ faults' \in Nat
    <2>1. /\ faults \in 0 .. MaxFaults /\ faults' \in 0 .. MaxFaults
          /\ MaxFaults \in Nat
      BY Zenon, RegistryAssumption DEF TypeOK
    <2> QED  BY <2>1
  <1>z. 0 >= 0 /\ 0 <= faults' /\ 0 <= faults' + 1
    <2>1. \A y \in Nat : 0 >= 0 /\ 0 <= y /\ 0 <= y + 1
      OBVIOUS
    <2> QED  BY Zenon, <1>0, <2>1
  <1>2. NotAhead(reg)'
    BY Zenon, <1>1, <1>z DEF NotAhead
  <1>3. NotAhead(saved)'
    BY Zenon, <1>1, <1>2, <1>s DEF NotAhead
  <1>4. ASSUME NEW w \in Worker, Attended(w)'
        PROVE  Young(reg, w)' /\ Young(saved, w)'
    <2>1. Young(reg, w) /\ Young(saved, w)
      BY Zenon, <1>1, <1>4 DEF Attended
    <2>2. Young(reg, w)'
      <3> SUFFICES ASSUME w \in DOMAIN reg'
                   PROVE  reg'[w] <= faults' + 1
                          /\ (Settled(w)' => reg'[w] <= faults')
        BY Zenon DEF Young
      <3>1. CASE reg'[w] = 0
        BY Zenon, <3>1, <1>z
      <3>2. CASE /\ w \in DOMAIN reg /\ reg'[w] = reg[w]
                 /\ Heartbeat(w) \in wire => Heartbeat(w) \in wire'
        <4>1. Settled(w)' => Settled(w)
          BY Zenon, <3>2 DEF Settled, Heartbeat
        <4>2. reg[w] \in Int
          BY Zenon, <3>2, AgesAreInts
        <4>3. reg[w] <= faults + 1 /\ (Settled(w) => reg[w] <= faults)
          BY Zenon, <3>2, <2>1 DEF Young
        <4> QED  BY Zenon, <1>0, <1>s, <3>2, <4>1, <4>2, <4>3, MoreFaults
      <3> QED  BY Zenon, <3>1, <3>2
    <2>3. Young(saved, w)'
      <3>1. CASE saved' = reg'
        BY Zenon, <3>1, <2>2 DEF Young
      <3>2. CASE saved' = saved /\ faults' >= faults + 1
        <4> SUFFICES ASSUME w \in DOMAIN saved
                     PROVE  saved[w] <= faults' + 1
                            /\ (Settled(w)' => saved[w] <= faults')
          BY Zenon, <3>2 DEF Young
        <4>1. saved[w] \in Int
          BY Zenon, AgesAreInts
        <4>2. saved[w] <= faults + 1
          BY Zenon, <2>1 DEF Young
        <4> QED  BY Zenon, <1>0, <1>s, <3>2, <4>1, <4>2, MoreFaults
      <3> QED  BY Zenon, <1>s, <3>1, <3>2
    <2> QED  BY Zenon, <2>2, <2>3
  <1> QED  BY Zenon, <1>2, <1>3, <1>4

-----------------------------------------------------------------------------
(* Steps.                                                                  *)

(* The premises of NoLiveEviction only ever become false.                  *)
LEMMA EvictedKept ==
  ASSUME TypeOK, TypeOK', NoLiveEviction, evicted' = evicted,
         prompt' = prompt, back' = 0 => back = 0, faults' >= faults
  PROVE  NoLiveEviction'
  <1>1. /\ faults \in 0 .. MaxFaults /\ faults' \in 0 .. MaxFaults
        /\ MaxFaults \in Nat /\ Stale \in Nat
    BY Zenon, RegistryAssumption DEF TypeOK
  <1>2. faults' < Stale => faults < Stale
    BY <1>1
  <1> QED  BY Zenon, <1>2 DEF NoLiveEviction

(* A worker is created once, and unheard of until then.                    *)
LEMMA FreshKept ==
  ASSUME Fresh,
         \A w \in Worker : life'[w] = "none" =>
           life[w] = "none" /\ (Unheard(w) => Unheard(w)')
  PROVE  Fresh'
  BY Zenon DEF Fresh

(* Nodes: workers come and go.                                             *)
LEMMA NodeStep ==
  ASSUME RegInv, TypeOK', PassType',
         \/ \E w \in Worker : Create(w) \/ SendAck(w) \/ Delete(w)
         \/ \E n \in Node : Wedge(n) \/ Crash(n)
  PROVE  Fresh' /\ Persisted' /\ AgeInv' /\ NoLiveEviction'
  <1>t. /\ home \in [Worker -> Node] /\ faults \in 0 .. MaxFaults
        /\ life \in [Worker -> {"none", "live", "stopping", "gone"}]
        /\ node \in [Node -> {"up", "wedged", "down"}]
    BY Zenon DEF RegInv, TypeOK
  <1>i. /\ TypeOK /\ PassType /\ Fresh /\ Persisted /\ AgeInv
        /\ NoLiveEviction
    BY Zenon DEF RegInv
  <1>f. faults >= faults
    BY <1>t
  <1>1. ASSUME NEW w \in Worker, NEW l, NEW m,
               \/ life[w] = "none" /\ l = "live"
               \/ life[w] = "live" /\ l = "stopping",
               life' = [life EXCEPT ![w] = l], m.w = w, Send({m}),
               UNCHANGED <<regVars, home, node, beatVars, envVars, evicted>>
        PROVE  Fresh' /\ Persisted' /\ AgeInv' /\ NoLiveEviction'
    <2>1. /\ faults' >= faults
          /\ wire \subseteq wire' /\ wire' \subseteq wire \cup {m}
      <3>1. IsFiniteSet({m})
        BY Zenon, FS_Singleton
      <3> QED  BY Zenon, <1>1, <1>t, <3>1, SendEffect
    <2>u. /\ reg' = reg /\ saved' = saved /\ unsaved' = unsaved
          /\ home' = home /\ node' = node /\ pass' = pass
          /\ beaten' = beaten /\ prompt' = prompt /\ back' = back
          /\ evicted' = evicted
      BY Zenon, <1>1 DEF regVars, beatVars, envVars
    <2>l. /\ life'[w] = l /\ l # "none" /\ (l = "live" => life[w] = "none")
          /\ \A v \in Worker : v # w => life'[v] = life[v]
      BY <1>1, <1>t
    <2>2. Fresh'
      <3>1. ASSUME NEW v \in Worker, life'[v] = "none"
            PROVE  life[v] = "none" /\ (Unheard(v) => Unheard(v)')
        <4>1. v # w /\ life[v] = "none"
          BY Zenon, <2>l, <3>1
        <4>2. Unheard(v) => \A x \in wire' : x.w # v
          BY Zenon, <4>1, <2>1, <1>1 DEF Unheard
        <4> QED  BY Zenon, <4>1, <4>2, <2>u DEF Unheard
      <3> QED  BY Zenon, <3>1, <1>i, FreshKept
    <2>3. Persisted'
      BY Zenon, <2>u, <1>i DEF Persisted
    <2>4. AgeInv'
      <3>1. ASSUME NEW v \in Worker, Attended(v)'
            PROVE  \/ v \notin DOMAIN reg /\ v \notin DOMAIN saved
                   \/ Attended(v) /\ (Settled(v)' => Settled(v))
        <4>1. CASE v = w
          <5>1. life[w] = "none"
            BY Zenon, <4>1, <3>1, <2>l, <1>1 DEF Attended
          <5> QED  BY Zenon, <4>1, <5>1, <1>i DEF Fresh, Unheard
        <4>2. CASE v # w
          <5>1. Attended(v)
            BY Zenon, <4>2, <3>1, <2>l, <2>u DEF Attended
          <5>2. Settled(v)' => Settled(v)
            BY Zenon, <2>u, <2>1 DEF Settled, Heartbeat
          <5> QED  BY Zenon, <5>1, <5>2
        <4> QED  BY Zenon, <4>1, <4>2
      <3> QED  BY Zenon, <3>1, <1>i, <2>u, <2>1, AgeKept
    <2>5. NoLiveEviction'
      BY Zenon, <1>i, <2>u, <2>1, EvictedKept
    <2> QED  BY Zenon, <2>2, <2>3, <2>4, <2>5
  <1>2. ASSUME NEW w \in Worker, Create(w)
        PROVE  Fresh' /\ Persisted' /\ AgeInv' /\ NoLiveEviction'
    <2> DEFINE m == Discovery(w)
    <2>1. m.w = w
      BY DEF Discovery
    <2>2. /\ life[w] = "none" /\ node[home[w]] = "up"
          /\ life' = [life EXCEPT ![w] = "live"] /\ Send({m})
          /\ UNCHANGED <<regVars, home, node, beatVars, envVars, evicted>>
      BY Zenon, <1>2 DEF Create
    <2> HIDE DEF m
    <2> QED  BY Zenon, <2>1, <2>2, <1>1
  <1>3. ASSUME NEW w \in Worker, SendAck(w)
        PROVE  Fresh' /\ Persisted' /\ AgeInv' /\ NoLiveEviction'
    <2> DEFINE m == [kind |-> "ack", w |-> w]
    <2>1. m.w = w
      OBVIOUS
    <2>2. /\ life[w] = "live" /\ node[home[w]] = "up"
          /\ life' = [life EXCEPT ![w] = "stopping"] /\ Send({m})
          /\ UNCHANGED <<regVars, home, node, beatVars, envVars, evicted>>
      BY Zenon, <1>3 DEF SendAck
    <2> HIDE DEF m
    <2> QED  BY Zenon, <2>1, <2>2, <1>1
  <1>4. ASSUME UNCHANGED <<reg, saved, unsaved, wire, home, beaten, prompt,
                           back, faults, evicted>>,
               \A v \in Worker : /\ life'[v] = "none" => life[v] = "none"
                                 /\ life'[v] = "live" => life[v] = "live",
               \A n \in Node : node'[n] = "up" => node[n] = "up",
               \A n \in Node : /\ DOMAIN pass'[n] \subseteq DOMAIN pass[n]
                               /\ node'[n] = "up" => pass'[n] = pass[n]
        PROVE  Fresh' /\ Persisted' /\ AgeInv' /\ NoLiveEviction'
    <2>2. Fresh'
      <3>1. ASSUME NEW v \in Worker, life'[v] = "none"
            PROVE  life[v] = "none" /\ (Unheard(v) => Unheard(v)')
        BY Zenon, <3>1, <1>4 DEF Unheard
      <3> QED  BY Zenon, <3>1, <1>i, FreshKept
    <2>3. Persisted'
      BY Zenon, <1>4, <1>i DEF Persisted
    <2>4. AgeInv'
      <3>1. ASSUME NEW v \in Worker, Attended(v)'
            PROVE  Attended(v) /\ (Settled(v)' => Settled(v))
        <4>1. home[v] \in Node /\ home'[v] = home[v]
          BY Zenon, <1>t, <1>4
        <4> QED  BY Zenon, <4>1, <3>1, <1>4 DEF Attended, Settled, Heartbeat
      <3>2. faults' >= faults
        BY Zenon, <1>f, <1>4
      <3> QED  BY Zenon, <3>1, <3>2, <1>i, <1>4, AgeKept
    <2>5. NoLiveEviction'
      BY Zenon, <1>i, <1>4, <1>f, EvictedKept
    <2> QED  BY Zenon, <2>2, <2>3, <2>4, <2>5
  <1>5. ASSUME NEW w \in Worker, Delete(w)
        PROVE  Fresh' /\ Persisted' /\ AgeInv' /\ NoLiveEviction'
    <2>1. /\ life' = [life EXCEPT ![w] = "gone"]
          /\ UNCHANGED <<regVars, wire, home, node, beatVars, envVars, faults,
                         evicted>>
      BY Zenon, <1>5 DEF Delete
    <2>2. \A v \in Worker : /\ life'[v] = "none" => life[v] = "none"
                            /\ life'[v] = "live" => life[v] = "live"
      BY <2>1, <1>t
    <2> QED  BY Zenon, <2>1, <2>2, <1>4 DEF regVars, beatVars, envVars
  <1>6. ASSUME NEW n \in Node, Wedge(n)
        PROVE  Fresh' /\ Persisted' /\ AgeInv' /\ NoLiveEviction'
    <2>1. /\ node' = [node EXCEPT ![n] = "wedged"]
          /\ UNCHANGED <<regVars, wire, home, life, beatVars, envVars, faults,
                         evicted>>
      BY Zenon, <1>6 DEF Wedge
    <2>2. \A k \in Node : node'[k] = "up" => node[k] = "up"
      BY <2>1, <1>t
    <2> QED  BY Zenon, <2>1, <2>2, <1>4 DEF regVars, beatVars, envVars
  <1>7. ASSUME NEW n \in Node, Crash(n)
        PROVE  Fresh' /\ Persisted' /\ AgeInv' /\ NoLiveEviction'
    <2> DEFINE f == [w \in {} |-> FALSE]
    <2>1. /\ node' = [node EXCEPT ![n] = "down"] /\ life' = Workless(n)
          /\ pass' = [pass EXCEPT ![n] = f]
          /\ UNCHANGED <<regVars, wire, home, cycle, beaten, envVars, faults,
                         evicted>>
      BY Zenon, <1>7 DEF Crash
    <2>2. /\ node'[n] = "down" /\ "down" # "up"
          /\ \A k \in Node : k # n => node'[k] = node[k]
      BY <2>1, <1>t
    <2>3. \A v \in Worker : /\ life'[v] = "none" => life[v] = "none"
                            /\ life'[v] = "live" => life[v] = "live"
      BY Zenon, <2>1, <1>i, WorklessType
    <2>4. DOMAIN f = {}
      OBVIOUS
    <2> HIDE DEF f
    <2>5. pass'[n] = f /\ \A k \in Node : k # n => pass'[k] = pass[k]
      BY Zenon, <2>1, <1>i, PassChanges
    <2>6. \A k \in Node : /\ DOMAIN pass'[k] \subseteq DOMAIN pass[k]
                          /\ node'[k] = "up" => pass'[k] = pass[k]
      BY Zenon, <2>2, <2>4, <2>5
    <2>7. \A k \in Node : node'[k] = "up" => node[k] = "up"
      BY Zenon, <2>2
    <2> QED  BY Zenon, <2>1, <2>3, <2>6, <2>7, <1>4 DEF regVars, envVars
  <1> QED  BY Zenon, <1>2, <1>3, <1>5, <1>6, <1>7

(* The heartbeat loop: a snapshot unsettles the workers in it, a heartbeat *)
(* sent is under way or is one more fault.                                 *)
LEMMA BeatStep ==
  ASSUME RegInv, TypeOK', PassType', NEW n \in Node,
         BeatStart(n) \/ \E w \in Worker : BeatSend(n, w)
  PROVE  Fresh' /\ Persisted' /\ AgeInv' /\ NoLiveEviction'
  <1>t. /\ home \in [Worker -> Node] /\ faults \in 0 .. MaxFaults
    BY Zenon DEF RegInv, TypeOK
  <1>i. /\ TypeOK /\ PassType /\ Fresh /\ Persisted /\ AgeInv
        /\ NoLiveEviction
    BY Zenon DEF RegInv
  <1>1. CASE BeatStart(n)
    <2> DEFINE f == [w \in Local(n) |-> Missing(n, w)]
    <2>1. /\ pass' = [pass EXCEPT ![n] = f] /\ beaten' = beaten \cup {n}
          /\ UNCHANGED <<regVars, wire, nodeVars, envVars, faults, evicted>>
      BY Zenon, <1>1 DEF BeatStart
    <2>f. DOMAIN f = Local(n)
      BY Zenon
    <2> HIDE DEF f
    <2>2. /\ DOMAIN pass'[n] = Local(n)
          /\ \A k \in Node : k # n => pass'[k] = pass[k]
      BY Zenon, <2>1, <2>f, <1>i, PassChanges
    <2>u. /\ reg' = reg /\ saved' = saved /\ unsaved' = unsaved
          /\ wire' = wire /\ home' = home /\ life' = life /\ node' = node
          /\ prompt' = prompt /\ back' = back /\ faults' = faults
          /\ evicted' = evicted /\ faults' >= faults
      <3>1. faults >= faults
        BY <1>t
      <3> QED  BY Zenon, <2>1, <3>1 DEF regVars, nodeVars, envVars
    <2>3. Fresh'
      <3>1. ASSUME NEW v \in Worker, life'[v] = "none"
            PROVE  life[v] = "none" /\ (Unheard(v) => Unheard(v)')
        <4>1. v \notin Local(n)
          BY <2>u, <3>1 DEF Local, Up
        <4> QED  BY Zenon, <4>1, <3>1, <2>u, <2>2 DEF Unheard
      <3> QED  BY Zenon, <3>1, <1>i, FreshKept
    <2>4. AgeInv'
      <3>1. ASSUME NEW v \in Worker, Attended(v)'
            PROVE  Attended(v) /\ (Settled(v)' => Settled(v))
        <4>1. Attended(v) /\ home[v] \in Node
          BY Zenon, <3>1, <2>u, <1>t DEF Attended
        <4>2. CASE home[v] = n
          <5>1. v \in Local(n)
            BY <4>1, <4>2 DEF Local, Up, Attended
          <5> QED  BY Zenon, <4>1, <4>2, <5>1, <2>2, <2>u DEF Settled
        <4>3. CASE home[v] # n
          BY Zenon, <4>1, <4>3, <2>1, <2>2, <2>u DEF Settled, Heartbeat
        <4> QED  BY Zenon, <4>2, <4>3
      <3> QED  BY Zenon, <3>1, <1>i, <2>u, AgeKept
    <2>5. Persisted' /\ NoLiveEviction'
      BY Zenon, <1>i, <2>u, EvictedKept DEF Persisted
    <2> QED  BY Zenon, <2>3, <2>4, <2>5
  <1>2. ASSUME NEW w \in Worker, BeatSend(n, w)
        PROVE  Fresh' /\ Persisted' /\ AgeInv' /\ NoLiveEviction'
    <2> DEFINE f == [v \in DOMAIN pass[n] \ {w} |-> pass[n][v]]
               ms == {Heartbeat(w)} \cup
                       (IF pass[n][w] THEN {Discovery(w)} ELSE {})
    <2>1. /\ w \in DOMAIN pass[n] /\ Send(ms)
          /\ pass' = [pass EXCEPT ![n] = f]
          /\ UNCHANGED <<regVars, nodeVars, cycle, beaten, envVars, evicted>>
      BY Zenon, <1>2 DEF BeatSend
    <2>f. DOMAIN f = DOMAIN pass[n] \ {w}
      BY Zenon
    <2>m. IsFiniteSet(ms) /\ Heartbeat(w) \in ms /\ \A x \in ms : x.w = w
      <3>1. IsFiniteSet(ms)
        BY Zenon, FS_Singleton, FS_EmptySet, FS_Union
      <3>2. Heartbeat(w).w = w /\ Discovery(w).w = w
        BY DEF Heartbeat, Discovery
      <3> QED  BY Zenon, <3>1, <3>2
    <2> HIDE DEF f, ms
    <2>2. /\ DOMAIN pass'[n] = DOMAIN pass[n] \ {w}
          /\ \A k \in Node : k # n => pass'[k] = pass[k]
      BY Zenon, <2>1, <2>f, <1>i, PassChanges
    <2>3. /\ faults' >= faults
          /\ wire \subseteq wire' /\ wire' \subseteq wire \cup ms
          /\ ms \subseteq wire' \/ faults' >= faults + 1
      BY Zenon, <2>1, <2>m, <1>t, SendEffect
    <2>u. /\ reg' = reg /\ saved' = saved /\ unsaved' = unsaved
          /\ home' = home /\ life' = life /\ node' = node
          /\ prompt' = prompt /\ back' = back /\ beaten' = beaten
          /\ evicted' = evicted
      BY Zenon, <2>1 DEF regVars, nodeVars, envVars
    <2>4. Fresh'
      <3>1. ASSUME NEW v \in Worker, life'[v] = "none"
            PROVE  life[v] = "none" /\ (Unheard(v) => Unheard(v)')
        <4> SUFFICES ASSUME Unheard(v)  PROVE  Unheard(v)'
          BY Zenon, <3>1, <2>u
        <4>1. v # w
          BY Zenon, <2>1 DEF Unheard
        <4>2. \A x \in wire' : x.w # v
          BY Zenon, <4>1, <2>3, <2>m DEF Unheard
        <4>3. \A k \in Node : v \notin DOMAIN pass'[k]
          BY Zenon, <2>2 DEF Unheard
        <4> QED  BY Zenon, <4>2, <4>3, <2>u DEF Unheard
      <3> QED  BY Zenon, <3>1, <1>i, FreshKept
    <2>5. AgeInv'
      <3>1. ASSUME NEW v \in Worker, Attended(v)'
            PROVE  /\ Attended(v)
                   /\ (Settled(v)' => Settled(v)) \/ faults' >= faults + 1
        <4>1. Attended(v) /\ home[v] \in Node
          BY Zenon, <3>1, <2>u, <1>t DEF Attended
        <4>2. CASE v = w
          <5>1. ms \subseteq wire' => ~Settled(v)'
            BY Zenon, <4>2, <2>m DEF Settled, Heartbeat
          <5> QED  BY Zenon, <4>1, <5>1, <2>3
        <4>3. CASE v # w
          <5>1. v \in DOMAIN pass[home[v]] => v \in DOMAIN pass'[home[v]]
            BY Zenon, <4>1, <4>3, <2>2
          <5> QED  BY Zenon, <4>1, <5>1, <2>3, <2>u DEF Settled, Heartbeat
        <4> QED  BY Zenon, <4>2, <4>3
      <3> QED  BY Zenon, <3>1, <1>i, <2>u, <2>3, AgeKept
    <2>6. Persisted' /\ NoLiveEviction'
      BY Zenon, <1>i, <2>u, <2>3, EvictedKept DEF Persisted
    <2> QED  BY Zenon, <2>4, <2>5, <2>6
  <1> QED  BY Zenon, <1>1, <1>2

(* The handler of a coordination message: only a heartbeat that makes its  *)
(* entry new is settled by being handled.                                  *)
LEMMA HandleStep ==
  ASSUME RegInv, TypeOK', PassType', NEW m \in Message, Handle(m)
  PROVE  Fresh' /\ Persisted' /\ AgeInv' /\ NoLiveEviction'
  <1>i. /\ TypeOK /\ PassType /\ Fresh /\ Persisted /\ AgeInv
        /\ NoLiveEviction
    BY Zenon DEF RegInv
  <1>1. /\ m \in wire /\ wire' = wire \ {m} /\ Save
        /\ UNCHANGED <<nodeVars, beatVars, envVars, evicted>>
    BY Zenon DEF Handle
  <1>u. /\ home' = home /\ life' = life /\ node' = node /\ pass' = pass
        /\ beaten' = beaten /\ prompt' = prompt /\ back' = back
        /\ evicted' = evicted
    BY Zenon, <1>1 DEF nodeVars, beatVars, envVars
  <1>s. /\ faults' >= faults /\ Persisted'
        /\ saved' = reg' \/ saved' = saved
    <2>1. IsListing(reg)'
      BY Zenon DEF TypeOK
    <2> QED  BY Zenon, <1>1, <1>i, <2>1, SaveEffect
  <1>2. ASSUME NEW v \in DOMAIN reg'
        PROVE  \/ v = m.w /\ reg'[v] = 0
               \/ v \in DOMAIN reg /\ reg'[v] = reg[v] /\ m # Heartbeat(v)
    <2>1. /\ m.kind \in {"discovery", "heartbeat", "ack"}
          /\ (m.kind # "heartbeat" \/ m.w # v) => m # Heartbeat(v)
      BY DEF Message, Heartbeat
    <2>2. CASE m.kind = "discovery"
      <3>1. reg' = Listing(m.w)
        BY <2>2 DEF Handle
      <3>2. m # Heartbeat(v)
        BY <2>2, <2>1
      <3>3. v = m.w \/ v \in DOMAIN reg
        BY ZenonT(60), <3>1, <1>2, Listings
      <3>4. CASE v = m.w
        BY Zenon, <3>1, <3>4, Listings
      <3>5. CASE v # m.w /\ v \in DOMAIN reg
        BY Zenon, <3>1, <3>2, <3>5, Listings
      <3> QED  BY Zenon, <3>3, <3>4, <3>5
    <2>3. CASE m.kind = "heartbeat"
      <3>1. reg' = Beaten(m.w)
        BY <2>3 DEF Handle
      <3>2. CASE m.w \in DOMAIN reg
        <4>1. reg' = Listing(m.w)
          BY Zenon, <3>1, <3>2 DEF Beaten
        <4>2. DOMAIN reg' = DOMAIN reg
          BY Zenon, <4>1, <3>2, Listings
        <4> QED  BY Zenon, <4>1, <4>2, <2>1, Listings
      <3>3. CASE m.w \notin DOMAIN reg
        BY Zenon, <3>1, <3>3, <2>1, <1>2 DEF Beaten
      <3> QED  BY Zenon, <3>2, <3>3
    <2>4. CASE m.kind = "ack"
      <3>1. reg' = Without({m.w})
        BY <2>4 DEF Handle, Unregistered
      <3>2. m # Heartbeat(v)
        BY <2>4, <2>1
      <3> QED  BY Zenon, <3>1, <3>2, <1>2, Listings
    <2> QED  BY Zenon, <2>1, <2>2, <2>3, <2>4
  <1>3. Fresh'
    <2>1. ASSUME NEW v \in Worker, life'[v] = "none"
          PROVE  life[v] = "none" /\ (Unheard(v) => Unheard(v)')
      <3> SUFFICES ASSUME Unheard(v)  PROVE  Unheard(v)'
        BY Zenon, <2>1, <1>u
      <3>1. v # m.w
        BY Zenon, <1>1 DEF Unheard
      <3>2. v \notin DOMAIN reg'
        BY Zenon, <3>1, <1>2 DEF Unheard
      <3> QED  BY Zenon, <3>2, <1>1, <1>u, <1>s DEF Unheard
    <2> QED  BY Zenon, <2>1, <1>i, FreshKept
  <1>4. AgeInv'
    <2>1. ASSUME NEW v \in DOMAIN reg'
          PROVE  \/ reg'[v] = 0
                 \/ /\ v \in DOMAIN reg /\ reg'[v] = reg[v]
                    /\ Heartbeat(v) \in wire => Heartbeat(v) \in wire'
      BY Zenon, <1>1, <1>2
    <2> QED  BY Zenon, <2>1, <1>i, <1>1, <1>u, AgeSaved
  <1>5. NoLiveEviction'
    BY Zenon, <1>i, <1>u, <1>s, EvictedKept
  <1> QED  BY Zenon, <1>3, <1>4, <1>5, <1>s

(* The sweep: the entry of a worker that lives and beats is at most        *)
(* faults + 1 intervals old, and that is not stale.                        *)
LEMMA CleanupStep ==
  ASSUME RegInv, TypeOK', PassType', Cleanup
  PROVE  Fresh' /\ Persisted' /\ AgeInv' /\ NoLiveEviction'
  <1> DEFINE stale == {w \in DOMAIN reg : IsStale(reg[w])}
  <1>i. /\ TypeOK /\ PassType /\ Fresh /\ Persisted /\ AgeInv
        /\ NoLiveEviction
    BY Zenon DEF RegInv
  <1>1. /\ reg' = Without(stale) /\ Save
        /\ evicted' = evicted \cup
             {w \in stale : life[w] = "live" /\ node[home[w]] = "up"}
        /\ UNCHANGED <<wire, nodeVars, beatVars, envVars>>
    BY Zenon DEF Cleanup, Saving
  <1>d. \A w \in stale : w \in DOMAIN reg /\ IsStale(reg[w])
    BY Zenon
  <1> HIDE DEF stale
  <1>u. /\ wire' = wire /\ home' = home /\ life' = life /\ node' = node
        /\ pass' = pass /\ beaten' = beaten /\ prompt' = prompt
        /\ back' = back
    BY Zenon, <1>1 DEF nodeVars, beatVars, envVars
  <1>s. /\ faults' >= faults /\ Persisted'
        /\ saved' = reg' \/ saved' = saved
    <2>1. IsListing(reg)'
      BY Zenon DEF TypeOK
    <2> QED  BY Zenon, <1>1, <1>i, <2>1, SaveEffect
  <1>2. \A v \in DOMAIN reg' : v \in DOMAIN reg /\ reg'[v] = reg[v]
    BY Zenon, <1>1, Listings
  <1>3. Fresh'
    <2>1. ASSUME NEW v \in Worker, life'[v] = "none"
          PROVE  life[v] = "none" /\ (Unheard(v) => Unheard(v)')
      BY Zenon, <2>1, <1>u, <1>s, <1>2 DEF Unheard
    <2> QED  BY Zenon, <2>1, <1>i, FreshKept
  <1>4. AgeInv'
    <2>1. ASSUME NEW v \in DOMAIN reg'
          PROVE  \/ reg'[v] = 0
                 \/ /\ v \in DOMAIN reg /\ reg'[v] = reg[v]
                    /\ Heartbeat(v) \in wire => Heartbeat(v) \in wire'
      BY Zenon, <1>2, <1>u
    <2> QED  BY Zenon, <2>1, <1>i, <1>1, <1>u, AgeSaved
  <1>5. NoLiveEviction'
    <2> SUFFICES ASSUME prompt', back' = 0, faults' < Stale
                 PROVE  evicted' = {}
      BY Zenon DEF NoLiveEviction
    <2>1. /\ faults \in Nat /\ faults' \in Nat /\ Stale \in Nat
      <3>1. /\ faults \in 0 .. MaxFaults /\ faults' \in 0 .. MaxFaults
            /\ MaxFaults \in Nat /\ Stale \in Nat
        BY Zenon, <1>i, RegistryAssumption DEF TypeOK
      <3> QED  BY <3>1
    <2>2. faults < Stale
      BY <2>1, <1>s
    <2>3. evicted = {}
      BY Zenon, <2>2, <1>i, <1>u DEF NoLiveEviction
    <2>4. ASSUME NEW w \in stale, life[w] = "live", node[home[w]] = "up"
          PROVE  FALSE
      <3>1. w \in DOMAIN reg /\ IsStale(reg[w]) /\ w \in Worker
        BY Zenon, <1>d, <1>i DEF TypeOK, IsListing
      <3>2. reg[w] <= faults + 1 /\ reg[w] >= 0
        BY Zenon, <3>1, <2>4, <1>i, <1>u DEF AgeInv, Attended, Young, NotAhead
      <3>3. reg[w] \in Int
        BY Zenon, <3>1, <1>i, AgesAreInts
      <3> QED  BY <3>1, <3>2, <3>3, <2>1, <2>2 DEF IsStale
    <2> QED  BY Zenon, <2>3, <2>4, <1>1
  <1> QED  BY Zenon, <1>3, <1>4, <1>5, <1>s

(* The Host restarts: what it loads is the copy, whose ages are bounded as *)
(* those in memory are, or nothing; its own workers live no more.          *)
LEMMA RestartStep ==
  ASSUME RegInv, TypeOK', PassType', Restart
  PROVE  Fresh' /\ Persisted' /\ AgeInv' /\ NoLiveEviction'
  <1> DEFINE f == [w \in {} |-> FALSE]
  <1>i. /\ TypeOK /\ PassType /\ Fresh /\ Persisted /\ AgeInv
        /\ NoLiveEviction
    BY Zenon DEF RegInv
  <1>t. /\ home \in [Worker -> Node] /\ faults \in 0 .. MaxFaults
        /\ node \in [Node -> {"up", "wedged", "down"}] /\ Host \in Node
    BY Zenon, <1>i, RegistryAssumption DEF TypeOK
  <1>1. /\ reg' \in {saved, None} /\ saved' = reg' /\ unsaved' = FALSE
        /\ life' = Workless(Host) /\ node' = [node EXCEPT ![Host] = "up"]
        /\ pass' = [pass EXCEPT ![Host] = f]
        /\ wire' = wire /\ home' = home /\ beaten' = beaten
        /\ prompt' = prompt /\ back' = back /\ faults' = faults
        /\ evicted' = evicted
    BY Zenon DEF Restart
  <1>f. DOMAIN f = {} /\ DOMAIN None = {} /\ faults >= faults
    BY <1>t DEF None
  <1> HIDE DEF f
  <1>2. /\ DOMAIN pass'[Host] = {}
        /\ \A k \in Node : k # Host => pass'[k] = pass[k]
    BY Zenon, <1>1, <1>f, <1>i, <1>t, PassChanges
  <1>3. \A k \in Node : k # Host => node'[k] = node[k]
    BY Zenon, <1>1, <1>t
  <1>4. \A v \in Worker : /\ life'[v] = "none" => life[v] = "none"
                          /\ life'[v] = "live" =>
                               life[v] = "live" /\ home[v] # Host
    BY Zenon, <1>1, <1>i, <1>t, WorklessType
  <1>5. \A v \in DOMAIN reg' : v \in DOMAIN saved /\ reg'[v] = saved[v]
    BY Zenon, <1>1, <1>f
  <1>6. Fresh'
    <2>1. ASSUME NEW v \in Worker, life'[v] = "none"
          PROVE  life[v] = "none" /\ (Unheard(v) => Unheard(v)')
      BY Zenon, <2>1, <1>1, <1>2, <1>4, <1>5 DEF Unheard
    <2> QED  BY Zenon, <2>1, <1>i, FreshKept
  <1>7. AgeInv'
    <2> SUFFICES ASSUME prompt', back' = 0
                 PROVE  /\ NotAhead(reg)' /\ NotAhead(saved)'
                        /\ \A w \in Worker : Attended(w)' =>
                             Young(reg, w)' /\ Young(saved, w)'
      BY Zenon DEF AgeInv
    <2>1. /\ NotAhead(saved)
          /\ \A w \in Worker : Attended(w) => Young(saved, w)
      BY Zenon, <1>i, <1>1 DEF AgeInv
    <2>2. NotAhead(reg)' /\ NotAhead(saved)'
      BY Zenon, <2>1, <1>1, <1>5 DEF NotAhead
    <2>3. ASSUME NEW w \in Worker, Attended(w)'
          PROVE  Young(reg, w)' /\ Young(saved, w)'
      <3>1. home[w] \in Node /\ home[w] # Host /\ Attended(w)
        BY Zenon, <2>3, <1>t, <1>1, <1>3, <1>4 DEF Attended
      <3>2. Settled(w)' => Settled(w)
        BY Zenon, <3>1, <1>1, <1>2 DEF Settled, Heartbeat
      <3>3. Young(saved, w)
        BY Zenon, <2>1, <3>1
      <3>4. Young(reg, w)'
        BY Zenon, <3>2, <3>3, <1>1, <1>5 DEF Young
      <3> QED  BY Zenon, <3>4, <1>1 DEF Young
    <2> QED  BY Zenon, <2>2, <2>3
  <1>8. Persisted'
    BY Zenon, <1>1 DEF Persisted
  <1>9. NoLiveEviction'
    BY Zenon, <1>i, <1>1, <1>f, EvictedKept
  <1> QED  BY Zenon, <1>6, <1>7, <1>8, <1>9

(* An interval passes: with prompt handling every heartbeat of it is       *)
(* settled, so an entry was at most faults intervals old.                  *)
LEMMA TickStep ==
  ASSUME RegInv, TypeOK', PassType', Tick
  PROVE  Fresh' /\ Persisted' /\ AgeInv' /\ NoLiveEviction'
  <1>i. /\ TypeOK /\ PassType /\ Fresh /\ Persisted /\ AgeInv
        /\ NoLiveEviction
    BY Zenon DEF RegInv
  <1>t. /\ home \in [Worker -> Node] /\ faults \in 0 .. MaxFaults
        /\ IsListing(reg) /\ IsListing(saved)
    BY Zenon, <1>i DEF TypeOK
  <1>1. /\ prompt => /\ wire = {}
                     /\ \A n \in Node : node[n] = "up" /\ Local(n) # {} =>
                                          n \in beaten /\ DOMAIN pass[n] = {}
        /\ reg' = Older(reg, 1) /\ saved' = Older(saved, 1) /\ beaten' = {}
        /\ UNCHANGED <<unsaved, wire, nodeVars, pass, cycle, envVars, faults,
                       evicted>>
    BY Zenon DEF Tick
  <1>u. /\ wire' = wire /\ home' = home /\ life' = life /\ node' = node
        /\ pass' = pass /\ prompt' = prompt /\ back' = back
        /\ unsaved' = unsaved /\ faults' = faults /\ evicted' = evicted
    BY Zenon, <1>1 DEF nodeVars, envVars
  <1>r. /\ DOMAIN reg' = DOMAIN reg
        /\ \A w \in DOMAIN reg : /\ reg'[w] <= reg[w] + 1
                                 /\ reg[w] >= 0 => reg'[w] >= 0
    BY Zenon, <1>1, <1>t, OlderListing
  <1>s. /\ DOMAIN saved' = DOMAIN saved
        /\ \A w \in DOMAIN saved : /\ saved'[w] <= saved[w] + 1
                                   /\ saved[w] >= 0 => saved'[w] >= 0
    BY Zenon, <1>1, <1>t, OlderListing
  <1>2. Fresh'
    <2>1. ASSUME NEW v \in Worker, life'[v] = "none"
          PROVE  life[v] = "none" /\ (Unheard(v) => Unheard(v)')
      BY Zenon, <2>1, <1>u, <1>r, <1>s DEF Unheard
    <2> QED  BY Zenon, <2>1, <1>i, FreshKept
  <1>3. Persisted'
    <2>1. saved = reg => saved' = reg'
      BY Zenon, <1>1
    <2> QED  BY Zenon, <2>1, <1>i, <1>u DEF Persisted
  <1>4. AgeInv'
    <2> SUFFICES ASSUME prompt', back' = 0
                 PROVE  /\ NotAhead(reg)' /\ NotAhead(saved)'
                        /\ \A w \in Worker : Attended(w)' =>
                             Young(reg, w)' /\ Young(saved, w)'
      BY Zenon DEF AgeInv
    <2>1. /\ NotAhead(reg) /\ NotAhead(saved)
          /\ \A w \in Worker : Attended(w) => Young(reg, w) /\ Young(saved, w)
      BY Zenon, <1>i, <1>u DEF AgeInv
    <2>2. NotAhead(reg)' /\ NotAhead(saved)'
      BY Zenon, <2>1, <1>r, <1>s DEF NotAhead
    <2>3. ASSUME NEW w \in Worker, Attended(w)'
          PROVE  Young(reg, w)' /\ Young(saved, w)'
      <3>1. Attended(w) /\ ~Settled(w)'
        BY Zenon, <2>3, <1>u, <1>1 DEF Attended, Settled
      <3>2. Settled(w)
        <4>1. w \in Local(home[w]) /\ home[w] \in Node
          BY <3>1, <1>t DEF Local, Up, Attended
        <4> QED  BY Zenon, <4>1, <3>1, <1>1, <1>u DEF Attended, Settled
      <3>3. Young(reg, w)'
        <4> SUFFICES ASSUME w \in DOMAIN reg  PROVE  reg'[w] <= faults + 1
          BY Zenon, <3>1, <1>r, <1>u DEF Young
        <4>1. reg[w] <= faults /\ reg'[w] <= reg[w] + 1
          BY Zenon, <3>1, <3>2, <2>1, <1>r DEF Young
        <4>2. faults \in Nat /\ reg[w] \in Int /\ reg'[w] \in Int
          <5>1. faults \in Nat /\ reg[w] \in Int
            BY Zenon, <1>i, AgesAreInts
          <5>2. reg'[w] \in Age
            BY Zenon, <1>r DEF TypeOK, IsListing
          <5> QED  BY <5>1, <5>2, RegistryAssumption DEF Age
        <4> QED  BY <4>1, <4>2
      <3>4. Young(saved, w)'
        <4> SUFFICES ASSUME w \in DOMAIN saved  PROVE  saved'[w] <= faults + 1
          BY Zenon, <3>1, <1>s, <1>u DEF Young
        <4>1. saved[w] <= faults /\ saved'[w] <= saved[w] + 1
          BY Zenon, <3>1, <3>2, <2>1, <1>s DEF Young
        <4>2. faults \in Nat /\ saved[w] \in Int /\ saved'[w] \in Int
          <5>1. faults \in Nat /\ saved[w] \in Int
            BY Zenon, <1>i, AgesAreInts
          <5>2. saved'[w] \in Age
            BY Zenon, <1>s DEF TypeOK, IsListing
          <5> QED  BY <5>1, <5>2, RegistryAssumption DEF Age
        <4> QED  BY <4>1, <4>2
      <3> QED  BY Zenon, <3>3, <3>4
    <2> QED  BY Zenon, <2>2, <2>3
  <1>5. NoLiveEviction'
    <2>1. faults >= faults
      BY <1>t
    <2> QED  BY Zenon, <2>1, <1>i, <1>u, EvictedKept
  <1> QED  BY Zenon, <1>2, <1>3, <1>4, <1>5

(* The clock is set back: nothing is claimed from then on but the copy.    *)
LEMMA ClockBackStep ==
  ASSUME RegInv, TypeOK', PassType', ClockBack
  PROVE  Fresh' /\ Persisted' /\ AgeInv' /\ NoLiveEviction'
  <1>i. /\ TypeOK /\ Fresh /\ Persisted /\ back \in 0 .. MaxBack
    BY Zenon DEF RegInv, TypeOK
  <1>1. /\ back' = back + 1
        /\ reg' = Older(reg, -1) /\ saved' = Older(saved, -1)
        /\ UNCHANGED <<unsaved, wire, nodeVars, beatVars>>
    BY Zenon DEF ClockBack
  <1>2. back' # 0
    BY <1>1, <1>i
  <1>3. AgeInv' /\ NoLiveEviction'
    BY Zenon, <1>2 DEF AgeInv, NoLiveEviction
  <1>4. Persisted'
    BY Zenon, <1>i, <1>1 DEF Persisted
  <1>5. DOMAIN reg' = DOMAIN reg /\ DOMAIN saved' = DOMAIN saved
    BY Zenon, <1>1 DEF Older
  <1>6. Fresh'
    <2>1. ASSUME NEW v \in Worker, life'[v] = "none"
          PROVE  life[v] = "none" /\ (Unheard(v) => Unheard(v)')
      BY Zenon, <2>1, <1>1, <1>5 DEF Unheard, nodeVars, beatVars
    <2> QED  BY Zenon, <2>1, <1>i, FreshKept
  <1> QED  BY Zenon, <1>3, <1>4, <1>6

-----------------------------------------------------------------------------
(* The theorems.                                                           *)

(* The invariant holds before anything was announced.                      *)
LEMMA RegInit ==
  Init => RegInv
  <1> SUFFICES ASSUME Init  PROVE  RegInv
    OBVIOUS
  <1>1. /\ reg = None /\ saved = None /\ unsaved = FALSE /\ wire = {}
        /\ home \in [Worker -> Node]
        /\ life = [w \in Worker |-> "none"] /\ node = [n \in Node |-> "up"]
        /\ pass = [n \in Node |-> [w \in {} |-> FALSE]]
        /\ cycle \in [Node -> 0 .. Every - 1] /\ beaten = {}
        /\ prompt \in BOOLEAN /\ back = 0 /\ faults = 0 /\ restarts = 0
        /\ evicted = {}
    BY Zenon DEF Init, Phases
  <1>2. DOMAIN None = {} /\ \A n \in Node : DOMAIN pass[n] = {}
    BY Zenon, <1>1 DEF None
  <1>3. /\ life \in [Worker -> {"none", "live", "stopping", "gone"}]
        /\ node \in [Node -> {"up", "wedged", "down"}]
    BY Zenon, <1>1
  <1>4. /\ 0 \in 0 .. MaxBack /\ 0 \in 0 .. MaxFaults /\ 0 \in 0 .. MaxRestarts
    BY RegistryAssumption
  <1>5. TypeOK
    BY Zenon, <1>1, <1>2, <1>3, <1>4 DEF TypeOK, IsListing
  <1>6. PassType
    BY Zenon, <1>1 DEF PassType
  <1>7. Fresh
    BY Zenon, <1>1, <1>2 DEF Fresh, Unheard
  <1>8. AgeInv
    BY Zenon, <1>1, <1>2 DEF AgeInv, NotAhead, Young
  <1>9. Persisted /\ NoLiveEviction
    BY Zenon, <1>1 DEF Persisted, NoLiveEviction
  <1> QED  BY Zenon, <1>5, <1>6, <1>7, <1>8, <1>9 DEF RegInv

(* Every step of a node, of the Host and of time keeps it.                 *)
LEMMA RegNext ==
  RegInv /\ [Next]_vars => RegInv'
  <1> SUFFICES ASSUME RegInv, [Next]_vars  PROVE  RegInv'
    OBVIOUS
  <1>1. CASE Next
    <2>1. TypeOK' /\ PassType'
      BY Zenon, <1>1, TypeStep DEF RegInv
    <2>2. Fresh' /\ Persisted' /\ AgeInv' /\ NoLiveEviction'
      BY Zenon, <1>1, <2>1, NodeStep, BeatStep, HandleStep, CleanupStep,
         RestartStep, TickStep, ClockBackStep DEF Next
    <2> QED  BY Zenon, <2>1, <2>2 DEF RegInv
  <1>2. CASE UNCHANGED vars
    BY Zenon, <1>2 DEF RegInv, TypeOK, PassType, Fresh, Unheard, Persisted,
         AgeInv, NotAhead, Young, Attended, Settled, NoLiveEviction, Heartbeat,
         IsListing, vars, regVars, nodeVars, beatVars, envVars
  <1> QED  BY Zenon, <1>1, <1>2

(* The invariant of the registry: types, who is unheard of, what the WAL   *)
(* keeps, and how old the entry of a worker can get that lives and beats.  *)
THEOREM RegistryInvariant ==
  Spec => []RegInv
  BY PTL, RegInit, RegNext DEF Spec

(* The types hold in every reachable state.                                *)
THEOREM RegistryTypes ==
  Spec => []TypeOK
  <1>1. RegInv => TypeOK
    BY Zenon DEF RegInv
  <1> QED  BY PTL, <1>1, RegistryInvariant

(* The copy in the WAL is the registry in memory unless the last save      *)
(* failed, across every handler, the sweep, time and Host restarts.        *)
THEOREM CopyIsRegistry ==
  Spec => []Persisted
  <1>1. RegInv => Persisted
    BY Zenon DEF RegInv
  <1> QED  BY PTL, <1>1, RegistryInvariant

(* With prompt handling and a clock that is not set back, no sweep evicts  *)
(* a worker that lives and beats before as many messages were dropped or   *)
(* saves failed as the stale timeout has intervals, Host restarts from the *)
(* saved copy included.                                                    *)
THEOREM LiveNotEvicted ==
  Spec => []NoLiveEviction
  <1>1. RegInv => NoLiveEviction
    BY Zenon DEF RegInv
  <1> QED  BY PTL, <1>1, RegistryInvariant
=============================================================================
