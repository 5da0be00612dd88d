--------------------------- MODULE StreamsProofs ---------------------------
(***************************************************************************)
(* Safety of the Redis Streams queue, for any nodes, messages, batch size  *)
(* and maxlen, and any number of deaths, failed commands and slow          *)
(* dispatchers.                                                            *)
(***************************************************************************)
EXTENDS Streams, FiniteSetTheorems, TLAPS

Good(i) == stream[i].kind = "good"
Mes(i) == stream[i].m
Pending(g) == DOMAIN pel[g]
Given(g, i) == seen[g][Mes(i)] > 0
Made(g) == last[g] # NotMade

StreamType ==
    /\ class \in {"shared", "fanout", "bounded"}
    /\ stream \in Seq(Entry) /\ Len(stream) <= MaxEntries
    /\ trimmed \in 0 .. Len(stream)

ReaderType ==
    /\ last \in [Group -> 0 .. NotMade] /\ DOMAIN pel = Group
    /\ ready \subseteq up /\ up \subseteq Node /\ died \subseteq Node
    /\ hold \in [Node -> SUBSET Nat] /\ joined \in [Node -> Nat]
    /\ faults \in Nat /\ stale \subseteq Node

HistType == seen \in [Group -> [Msg -> Nat]] /\ nacked \in [Msg -> Nat]

\* Trimming stops maxlen short of the end.
TrimInv == trimmed = 0 \/ (bounded /\ trimmed + MaxLen <= Len(stream))

\* Only entries that a group was delivered are pending in it.
GroupInv(g) ==
    /\ Made(g) => last[g] <= Len(stream)
    /\ Pending(g) \subseteq DOMAIN stream
    /\ \A i \in Pending(g) : Made(g) /\ i <= last[g]

NodeInv(n) ==
    /\ n \in ready => Made(GroupOf(n))
    /\ hold[n] \subseteq DOMAIN stream
    /\ joined[n] <= Len(stream)

\* A node's first process finds no entry of before it ran in its own group.
FirstInv(n) ==
    fan /\ n \notin died =>
        /\ n \notin up => ~Made(n) /\ hold[n] = {}
        /\ Made(n) => joined[n] <= last[n]
        /\ \A i \in Pending(n) \cup hold[n] : i > joined[n]

SkipInv(g, i) ==
    ~fan /\ Made(g) /\ i <= last[g] /\ Good(i) /\ Recent(i)
        => i \in Pending(g) \/ Given(g, i) \/ Copied(i)

StreamInv ==
    /\ StreamType /\ ReaderType /\ HistType /\ TrimInv
    /\ \A g \in Group : GroupInv(g) /\ \A i \in DOMAIN stream : SkipInv(g, i)
    /\ \A n \in Node : NodeInv(n) /\ FirstInv(n)
    /\ stale \subseteq died

-----------------------------------------------------------------------------
(* Groups, and what XREADGROUP delivers. *)

\* The group a node reads with does not change.
LEMMA GroupFacts ==
    ASSUME class \in {"shared", "fanout", "bounded"}
    PROVE  /\ \A n \in Node : GroupOf(n) \in Group
           /\ ~fan => Group = {"shared"} /\ \A n \in Node : GroupOf(n) = "shared"
           /\ fan => Group = Node /\ \A n \in Node : GroupOf(n) = n
  BY Zenon DEF Group, GroupOf, fan

\* A non-empty set of positions has a newest one.
LEMMA NewestIs ==
    ASSUME NEW b \in Nat, NEW S \in SUBSET (1 .. b), S # {}
    PROVE  Newest(S) \in S /\ \A j \in S : j <= Newest(S)
  <1> DEFINE T == {k \in Nat : k <= b /\ b - k \in S}
             R == OpToRel(<, Nat)
  <1>1. T \subseteq Nat /\ T # {}
    <2>1. PICK i \in S : TRUE
      BY Zenon
    <2>2. b - i \in T
      BY <2>1
    <2> QED  BY Zenon, <2>2
  <1>2. \E x \in T : \A y \in T : ~ (<<y, x>> \in R)
    BY Zenon, <1>1, NatLessThanWellFounded, WFMin
  <1>3. \A x, y \in Nat : <<y, x>> \in R <=> y < x
    BY Zenon DEF OpToRel
  <1> HIDE DEF R
  <1>4. PICK x \in T : \A y \in T : ~(y < x)
    BY Zenon, <1>2, <1>3
  <1>5. b - x \in S /\ \A j \in S : j <= b - x
    <2>1. ASSUME NEW j \in S
          PROVE  j <= b - x
      <3>1. b - j \in T /\ j \in Nat /\ x \in Nat
        OBVIOUS
      <3> HIDE DEF T
      <3>2. ~(b - j < x)
        BY Zenon, <1>4, <3>1
      <3> QED  BY <3>1, <3>2
    <2> QED  BY Zenon, <2>1
  <1> QED  BY Zenon, <1>5 DEF Newest

\* A batch is the oldest part of what a group has not been delivered.
LEMMA FreshFacts ==
    ASSUME StreamType, NEW g
    PROVE  LET S == Fresh(g) IN
           /\ S \subseteq DOMAIN stream
           /\ \A i \in S : i > last[g] /\ i > trimmed
           /\ S # {} =>
                /\ Newest(S) \in S
                /\ \A j \in DOMAIN stream :
                     j > last[g] /\ j <= Newest(S) /\ j > trimmed => j \in S
  <1> DEFINE new == {i \in DOMAIN stream : i > last[g] /\ i > trimmed}
             before(i) == {j \in new : j < i}
             S == Fresh(g)
  <1>1. Len(stream) \in Nat /\ DOMAIN stream = 1 .. Len(stream)
    BY DEF StreamType
  <1>2. S = {i \in new : Cardinality(before(i)) < Batch}
    BY Zenon DEF Fresh
  <1>3. S \in SUBSET (1 .. Len(stream))
    BY Zenon, <1>1, <1>2
  <1>4. ASSUME S # {}, NEW j \in new, j <= Newest(S)
        PROVE  j \in S
    <2>1. Newest(S) \in S
      BY Zenon, <1>1, <1>3, <1>4, NewestIs
    <2>2. IsFiniteSet(before(Newest(S)))
      <3>1. before(Newest(S)) \in SUBSET (1 .. Len(stream))
        BY Zenon, <1>1
      <3>2. IsFiniteSet(1 .. Len(stream))
        BY <1>1, FS_Interval
      <3> QED  BY Zenon, <3>1, <3>2, FS_Subset
    <2>3. before(j) \in SUBSET before(Newest(S))
      BY <1>1, <1>3, <1>4, <2>1
    <2>4. /\ Cardinality(before(j)) <= Cardinality(before(Newest(S)))
          /\ IsFiniteSet(before(j))
      BY Zenon, <2>2, <2>3, FS_Subset
    <2>5. Cardinality(before(j)) \in Nat /\ Cardinality(before(Newest(S))) \in Nat
      BY Zenon, <2>2, <2>4, FS_CardinalityType
    <2>6. Cardinality(before(Newest(S))) < Batch
      BY Zenon, <1>2, <2>1
    <2>7. Cardinality(before(j)) < Batch
      BY <2>4, <2>5, <2>6, StreamsAssumption
    <2> QED  BY Zenon, <1>2, <2>7
  <1>5. S # {} => Newest(S) \in S
    BY Zenon, <1>1, <1>3, NewestIs
  <1> HIDE DEF S
  <1>6. \A i \in S : i \in DOMAIN stream /\ i > last[g] /\ i > trimmed
    BY Zenon, <1>2
  <1>7. S # {} => \A j \in DOMAIN stream :
                    j > last[g] /\ j <= Newest(S) /\ j > trimmed => j \in S
    BY Zenon, <1>4
  <1> QED  BY Zenon, <1>5, <1>6, <1>7 DEF S

-----------------------------------------------------------------------------
(* What a step may do without harm. *)

\* An entry among the newest maxlen is not trimmed.
LEMMA RecentKept ==
    ASSUME StreamType, TrimInv
    PROVE  \A i \in DOMAIN stream : Recent(i) => i > trimmed
  <1>1. /\ DOMAIN stream = 1 .. Len(stream) /\ Len(stream) \in Nat
        /\ trimmed \in 0 .. Len(stream)
    BY DEF StreamType
  <1> QED  BY <1>1, StreamsAssumption DEF TrimInv, Recent

\* XADD leaves the older entries as they are, and trims none of the newest.
LEMMA XaddFacts ==
    ASSUME StreamType, TrimInv, NEW e \in Entry, Xadd(e), UNCHANGED class
    PROVE  /\ StreamType' /\ TrimInv'
           /\ Len(stream') = Len(stream) + 1 /\ Len(stream) \in Nat
           /\ DOMAIN stream = 1 .. Len(stream)
           /\ DOMAIN stream' = 1 .. Len(stream) + 1
           /\ DOMAIN stream \subseteq DOMAIN stream'
           /\ stream'[Len(stream) + 1].m = e.m
           /\ \A i \in DOMAIN stream :
                /\ (Good(i)' <=> Good(i)) /\ Mes(i)' = Mes(i)
                /\ Recent(i)' => Recent(i)
  <1>1. /\ stream \in Seq(Entry) /\ Len(stream) \in Nat
        /\ DOMAIN stream = 1 .. Len(stream)
        /\ Len(stream) < MaxEntries /\ trimmed \in 0 .. Len(stream)
        /\ MaxLen \in Nat \ {0} /\ MaxEntries \in Nat
    BY StreamsAssumption DEF StreamType, Xadd
  <1>2. stream' = Append(stream, e)
    BY Zenon DEF Xadd
  <1>3. /\ stream' \in Seq(Entry) /\ Len(stream') = Len(stream) + 1
        /\ DOMAIN stream' = 1 .. Len(stream) + 1
        /\ DOMAIN stream \subseteq DOMAIN stream'
        /\ stream'[Len(stream) + 1] = e
        /\ \A i \in DOMAIN stream : stream'[i] = stream[i]
    BY <1>1, <1>2
  <1>4. /\ trimmed' \in trimmed .. Len(stream')
        /\ trimmed' = trimmed \/ (bounded /\ trimmed' <= Len(stream') - MaxLen)
    BY Zenon DEF Xadd, Trims
  <1>5. StreamType'
    BY <1>1, <1>3, <1>4 DEF StreamType
  <1>6. TrimInv'
    BY <1>1, <1>3, <1>4 DEF TrimInv, bounded
  <1>7. \A i \in DOMAIN stream : Recent(i)' => Recent(i)
    BY <1>1, <1>3 DEF Recent, bounded
  <1> QED  BY Zenon, <1>1, <1>3, <1>5, <1>6, <1>7 DEF Good, Mes

\* Adding an entry e: claims may be given up, and e's message be released.
Grows(e) ==
    /\ Xadd(e)
    /\ UNCHANGED <<class, last, ready, up, joined, died, seen, stale>>
    /\ \A n \in Node : hold'[n] \subseteq hold[n]
    /\ \A g \in Group : /\ Pending(g)' \subseteq Pending(g)
                        /\ \A i \in Pending(g) \ Pending(g)' : Mes(i) = e.m

\* Such a step keeps the invariant.
LEMMA GrowsKeeps ==
    ASSUME StreamInv, NEW e \in Entry, Grows(e), ReaderType', HistType'
    PROVE  StreamInv'
  <1>1. /\ StreamType /\ TrimInv /\ Xadd(e) /\ HistType
        /\ class \in {"shared", "fanout", "bounded"} /\ stale \subseteq died
        /\ UNCHANGED <<class, last, ready, up, joined, died, seen, stale>>
    BY Zenon DEF StreamInv, Grows, StreamType
  <1>2. /\ StreamType' /\ TrimInv'
        /\ Len(stream') = Len(stream) + 1 /\ Len(stream) \in Nat
        /\ DOMAIN stream = 1 .. Len(stream)
        /\ DOMAIN stream' = 1 .. Len(stream) + 1
        /\ stream'[Len(stream) + 1].m = e.m
        /\ \A i \in DOMAIN stream :
             /\ (Good(i)' <=> Good(i)) /\ Mes(i)' = Mes(i)
             /\ Recent(i)' => Recent(i)
    BY Zenon, <1>1, XaddFacts
  <1>3. Group' = Group
    BY Zenon, <1>1 DEF Group, fan
  <1>4. ASSUME NEW g \in Group
        PROVE  GroupInv(g)' /\ \A i \in DOMAIN stream' : SkipInv(g, i)'
    <2>1. /\ GroupInv(g) /\ \A i \in DOMAIN stream : SkipInv(g, i)
          /\ Pending(g)' \subseteq Pending(g)
          /\ \A i \in Pending(g) \ Pending(g)' : Mes(i) = e.m
          /\ Made(g)' <=> Made(g)
          /\ last'[g] = last[g] /\ last[g] \in Nat
      BY <1>1 DEF StreamInv, Grows, Made, ReaderType
    <2>2. GroupInv(g)'
      BY <1>2, <2>1 DEF GroupInv
    <2>3. ASSUME NEW i \in DOMAIN stream'
          PROVE  SkipInv(g, i)'
      <3>1. CASE i = Len(stream) + 1
        BY <1>2, <2>1, <3>1 DEF SkipInv, GroupInv
      <3>2. CASE i \in DOMAIN stream
        <4>1. Copied(i) \/ Mes(i) = e.m => Copied(i)'
          <5>1. Copied(i) => \E j \in DOMAIN stream : j > i /\ Mes(j) = Mes(i)
            BY Zenon DEF Copied, Mes
          <5>2. (\E j \in DOMAIN stream' : j > i /\ Mes(j)' = Mes(i)') => Copied(i)'
            BY Zenon DEF Copied, Mes
          <5>3. \A j \in Nat : Mes(j)' = stream'[j].m
            BY Zenon DEF Mes
          <5> QED  BY <1>2, <3>2, <5>1, <5>2, <5>3
        <4>2. Given(g, i) => Given(g, i)'
          BY Zenon, <1>1, <1>2, <3>2 DEF Given
        <4>3. SkipInv(g, i)
          BY Zenon, <2>1, <3>2
        <4> QED  BY Zenon, <1>1, <1>2, <2>1, <3>2, <4>1, <4>2, <4>3 DEF
                    SkipInv, fan
      <3> QED  BY <1>2, <3>1, <3>2
    <2> QED  BY Zenon, <2>2, <2>3
  <1>5. ASSUME NEW n \in Node
        PROVE  NodeInv(n)' /\ FirstInv(n)'
    <2>1. /\ NodeInv(n) /\ FirstInv(n) /\ hold'[n] \subseteq hold[n]
          /\ joined[n] \in Nat
      BY Zenon DEF StreamInv, Grows, ReaderType
    <2>2. GroupOf(n)' = GroupOf(n) /\ \A g : Made(g)' <=> Made(g)
      BY Zenon, <1>1 DEF GroupOf, fan, Made
    <2>3. NodeInv(n)'
      BY <1>1, <1>2, <2>1, <2>2 DEF NodeInv
    <2>4. FirstInv(n)'
      <3>1. fan => Pending(n)' \subseteq Pending(n)
        BY Zenon, <1>1, GroupFacts DEF Grows
      <3> QED  BY Zenon, <1>1, <2>1, <2>2, <3>1 DEF FirstInv, fan
    <2> QED  BY Zenon, <2>3, <2>4
  <1> QED  BY Zenon, <1>1, <1>2, <1>3, <1>4, <1>5 DEF StreamInv

\* A step that adds no entry leaves what is said of entries alone.
LEMMA SameStream ==
    ASSUME StreamInv, UNCHANGED <<class, stream, trimmed>>
    PROVE  /\ StreamType' /\ TrimInv' /\ Group' = Group
           /\ \A n : GroupOf(n)' = GroupOf(n)
           /\ \A i : /\ (Good(i)' <=> Good(i)) /\ (Recent(i)' <=> Recent(i))
                     /\ (Copied(i)' <=> Copied(i)) /\ Mes(i)' = Mes(i)
  <1>1. StreamType' /\ TrimInv' /\ Group' = Group
    BY Zenon DEF StreamInv, StreamType, TrimInv, bounded, Group, fan
  <1>2. \A n : GroupOf(n)' = GroupOf(n)
    BY Zenon DEF GroupOf, fan
  <1>3. \A i : /\ (Good(i)' <=> Good(i)) /\ (Recent(i)' <=> Recent(i))
               /\ (Copied(i)' <=> Copied(i)) /\ Mes(i)' = Mes(i)
    BY Zenon DEF Good, Recent, bounded, Copied, Mes
  <1> QED  BY Zenon, <1>1, <1>2, <1>3

\* A claim is settled or passes to another consumer of the group.  An entry
\* leaves the pending list when it was given to a worker, or is not good, or
\* is trimmed.
Releases ==
    /\ UNCHANGED <<class, stream, trimmed, last, ready, up, joined, died>>
    /\ \A n \in Node : hold'[n] \subseteq hold[n] \cup Pending(GroupOf(n))
    /\ \A g \in Group :
         /\ Pending(g)' \subseteq Pending(g)
         /\ \A i \in Pending(g) \ Pending(g)' :
              Given(g, i)' \/ ~Good(i) \/ i <= trimmed
         /\ \A i \in DOMAIN stream : Given(g, i) => Given(g, i)'
    /\ stale' \subseteq died

\* Such a step keeps the invariant.
LEMMA ReleasesKeeps ==
    ASSUME StreamInv, Releases, ReaderType', HistType'
    PROVE  StreamInv'
  <1>1. /\ UNCHANGED <<class, stream, trimmed, last, ready, up, joined, died>>
        /\ stale' \subseteq died' /\ UNCHANGED <<class, stream, trimmed>>
        /\ \A g : Made(g)' <=> Made(g)
        /\ fan' <=> fan
    BY Zenon DEF Releases, Made, fan
  <1>2. /\ StreamType' /\ TrimInv' /\ Group' = Group
        /\ \A n : GroupOf(n)' = GroupOf(n)
        /\ \A i : /\ (Good(i)' <=> Good(i)) /\ (Recent(i)' <=> Recent(i))
                  /\ (Copied(i)' <=> Copied(i)) /\ Mes(i)' = Mes(i)
    BY Zenon, <1>1, SameStream
  <1>3. class \in {"shared", "fanout", "bounded"}
    BY Zenon DEF StreamInv, StreamType
  <1>4. ASSUME NEW g \in Group
        PROVE  GroupInv(g)' /\ \A i \in DOMAIN stream' : SkipInv(g, i)'
    <2>1. /\ GroupInv(g) /\ \A i \in DOMAIN stream : SkipInv(g, i)
          /\ Pending(g)' \subseteq Pending(g)
          /\ \A i \in Pending(g) \ Pending(g)' :
               Given(g, i)' \/ ~Good(i) \/ i <= trimmed
          /\ \A i \in DOMAIN stream : Given(g, i) => Given(g, i)'
      BY Zenon DEF StreamInv, Releases
    <2>2. GroupInv(g)'
      BY Zenon, <1>1, <2>1 DEF GroupInv
    <2>3. \A i \in DOMAIN stream : Recent(i) => i > trimmed
      BY Zenon, RecentKept DEF StreamInv
    <2>4. \A i \in DOMAIN stream : SkipInv(g, i)'
      BY <1>1, <1>2, <2>1, <2>3 DEF SkipInv, StreamInv, StreamType
    <2> QED  BY Zenon, <1>1, <2>2, <2>4
  <1>5. ASSUME NEW n \in Node
        PROVE  NodeInv(n)' /\ FirstInv(n)'
    <2>1. /\ NodeInv(n) /\ FirstInv(n)
          /\ hold'[n] \subseteq hold[n] \cup Pending(GroupOf(n))
          /\ GroupOf(n) \in Group /\ GroupInv(GroupOf(n))
          /\ Pending(GroupOf(n))' \subseteq Pending(GroupOf(n))
          /\ fan => GroupOf(n) = n
      <3>1. GroupOf(n) \in Group /\ (fan => GroupOf(n) = n)
        BY Zenon, <1>3, GroupFacts
      <3>2. /\ Pending(GroupOf(n))' = DOMAIN (pel'[GroupOf(n)'])
            /\ \A g \in Group : Pending(g)' = DOMAIN (pel'[g])
        BY Zenon DEF Pending
      <3> QED  BY Zenon, <1>2, <3>1, <3>2 DEF StreamInv, Releases
    <2>2. NodeInv(n)'
      <3>1. Made(GroupOf(n))' <=> Made(GroupOf(n))
        BY Zenon, <1>1, <1>2 DEF Made
      <3> QED  BY Zenon, <1>1, <2>1, <3>1 DEF NodeInv, GroupInv
    <2>3. FirstInv(n)'
      <3>1. fan => Pending(n)' \subseteq Pending(n)
        BY Zenon, <1>3, GroupFacts DEF Releases
      <3>2. fan /\ ~Made(n) => Pending(n) = {}
        BY Zenon, <2>1 DEF GroupInv
      <3> QED  BY Zenon, <1>1, <2>1, <3>1, <3>2 DEF FirstInv
    <2> QED  BY Zenon, <2>2, <2>3
  <1> QED  BY Zenon, <1>1, <1>2, <1>4, <1>5 DEF StreamInv

\* XREADGROUP by n: the batch S is delivered to its group g, and all of it but
\* entries that are not good becomes pending.
Reads(n, g, S) ==
    /\ n \in ready /\ g = GroupOf(n) /\ S = Fresh(g) /\ S # {}
    /\ UNCHANGED <<class, stream, trimmed, ready, up, joined, died, seen, stale>>
    /\ last' = [last EXCEPT ![g] = Newest(S)]
    /\ \A h \in Group \ {g} : Pending(h)' = Pending(h)
    /\ Pending(g)' \subseteq Pending(g) \cup S
    /\ Pending(g) \subseteq Pending(g)'
    /\ \A i \in S : Good(i) => i \in Pending(g)'
    /\ \A v \in Node : hold'[v] \subseteq hold[v] \cup (IF v = n THEN S ELSE {})

\* Such a step keeps the invariant, too.
LEMMA ReadsKeeps ==
    ASSUME StreamInv, NEW n \in Node, NEW g, NEW S, Reads(n, g, S),
           ReaderType', HistType'
    PROVE  StreamInv'
  <1>1. /\ UNCHANGED <<class, stream, trimmed, ready, up, joined, died, seen,
                       stale>>
        /\ UNCHANGED <<class, stream, trimmed>>
        /\ fan' <=> fan
    BY Zenon DEF Reads, fan
  <1>2. /\ StreamType' /\ TrimInv' /\ Group' = Group
        /\ \A v : GroupOf(v)' = GroupOf(v)
        /\ \A i : /\ (Good(i)' <=> Good(i)) /\ (Recent(i)' <=> Recent(i))
                  /\ (Copied(i)' <=> Copied(i)) /\ Mes(i)' = Mes(i)
    BY Zenon, <1>1, SameStream
  <1>3. class \in {"shared", "fanout", "bounded"} /\ StreamType /\ ReaderType
    BY Zenon DEF StreamInv, StreamType
  <1>4. g = GroupOf(n) /\ g \in Group /\ Made(g) /\ GroupInv(g)
    BY Zenon, <1>3, GroupFacts DEF StreamInv, NodeInv, Reads
  <1>5. /\ S # {} /\ S \subseteq DOMAIN stream /\ S \subseteq Nat
        /\ Newest(S) \in S
        /\ \A i \in S : i > last[g] /\ i > trimmed
        /\ \A j \in DOMAIN stream :
             j > last[g] /\ j <= Newest(S) /\ j > trimmed => j \in S
    BY <1>3, FreshFacts DEF Reads, StreamType
  <1>6. /\ \A h \in Group \ {g} : Pending(h)' = Pending(h)
        /\ last'[g] = Newest(S)
        /\ \A h \in Group \ {g} : last'[h] = last[h]
        /\ \A v \in Node : hold'[v] \subseteq
                             hold[v] \cup (IF v = n THEN S ELSE {})
        /\ Pending(g)' \subseteq Pending(g) \cup S
        /\ Pending(g) \subseteq Pending(g)'
        /\ \A i \in S : Good(i) => i \in Pending(g)'
    BY Zenon, <1>3, <1>4 DEF Reads, ReaderType
  <1>7. /\ last[g] \in Nat /\ Len(stream) \in Nat /\ Len(stream) < NotMade
        /\ DOMAIN stream = 1 .. Len(stream)
    BY <1>3, <1>4, StreamsAssumption DEF ReaderType, StreamType, NotMade
  <1>8. last[g] < last'[g] /\ last'[g] <= Len(stream)
    BY <1>5, <1>6, <1>7
  <1>9. \A h \in Group : Made(h)' <=> Made(h)
    <2>1. last'[g] # NotMade
      BY <1>5, <1>6, <1>7, <1>8, StreamsAssumption DEF NotMade
    <2> QED  BY Zenon, <1>4, <1>6, <2>1 DEF Made
  <1>10. ASSUME NEW h \in Group
         PROVE  GroupInv(h)' /\ \A i \in DOMAIN stream' : SkipInv(h, i)'
    <2>1. GroupInv(h) /\ \A i \in DOMAIN stream : SkipInv(h, i)
      BY Zenon DEF StreamInv
    <2>2. CASE h = g
      <3>1. \A i \in Pending(g)' : i \in DOMAIN stream /\ i <= last'[g]
        <4>1. \A i \in S : i <= Newest(S)
          BY Zenon, <1>5, <1>7, NewestIs
        <4>2. \A i \in Pending(g) : i \in DOMAIN stream /\ i <= last[g]
          BY Zenon, <1>4 DEF GroupInv
        <4> QED  BY <1>5, <1>6, <1>7, <1>8, <4>1, <4>2
      <3>2. GroupInv(h)'
        BY Zenon, <1>1, <1>4, <1>8, <1>9, <2>2, <3>1 DEF GroupInv
      <3>3. ASSUME NEW i \in DOMAIN stream
            PROVE  SkipInv(h, i)'
        <4>1. CASE i <= last[g]
          BY Zenon, <1>1, <1>2, <1>4, <1>6, <1>9, <2>1, <2>2, <4>1
             DEF SkipInv, Given
        <4>2. CASE i > last[g]
          <5>1. Recent(i) => i > trimmed
            BY Zenon, RecentKept DEF StreamInv
          <5> QED  BY Zenon, <1>1, <1>2, <1>5, <1>6, <2>2, <4>2, <5>1 DEF
                      SkipInv
        <4> QED  BY <1>7, <4>1, <4>2
      <3> QED  BY Zenon, <1>1, <3>2, <3>3
    <2>3. CASE h # g
      <3>1. GroupInv(h)'
        BY Zenon, <1>1, <1>6, <1>9, <2>1, <2>3 DEF GroupInv
      <3>2. \A i \in DOMAIN stream : SkipInv(h, i)'
        BY Zenon, <1>1, <1>2, <1>6, <1>9, <2>1, <2>3 DEF SkipInv, Given
      <3> QED  BY Zenon, <1>1, <3>1, <3>2
    <2> QED  BY Zenon, <2>2, <2>3
  <1>11. ASSUME NEW v \in Node
         PROVE  NodeInv(v)' /\ FirstInv(v)'
    <2>1. NodeInv(v) /\ FirstInv(v) /\ GroupOf(v) \in Group
      BY Zenon, <1>3, GroupFacts DEF StreamInv
    <2>2. NodeInv(v)'
      <3>1. Made(GroupOf(v))' <=> Made(GroupOf(v))
        BY Zenon, <1>2, <1>9, <2>1 DEF Made
      <3> QED  BY Zenon, <1>1, <1>5, <1>6, <2>1, <3>1 DEF NodeInv
    <2>3. FirstInv(v)'
      <3>1. CASE fan
        <4>1. v \in Group /\ g = n
          BY Zenon, <1>3, <1>4, <3>1, GroupFacts
        <4>2. v = n => n \in up /\ \A i \in S : i > last[n]
          BY Zenon, <1>3, <1>5, <4>1 DEF Reads, ReaderType
        <4>3. joined[v] \in Nat /\ last[v] \in Nat /\ Len(stream) \in Nat
          BY <1>3, <4>1 DEF ReaderType, StreamType, NotMade
        <4>4. CASE v = n
          BY <1>1, <1>4, <1>5, <1>6, <1>8, <1>9, <2>1, <4>1, <4>2, <4>3, <4>4
             DEF FirstInv
        <4>5. CASE v # n
          BY Zenon, <1>1, <1>6, <1>9, <2>1, <4>1, <4>5 DEF FirstInv
        <4> QED  BY Zenon, <4>4, <4>5
      <3>2. CASE ~fan
        BY Zenon, <1>1, <3>2 DEF FirstInv
      <3> QED  BY Zenon, <3>1, <3>2
    <2> QED  BY Zenon, <2>2, <2>3
  <1>12. stale' \subseteq died'
    BY Zenon, <1>1 DEF StreamInv
  <1> QED  BY Zenon, <1>2, <1>10, <1>11, <1>12 DEF StreamInv

-----------------------------------------------------------------------------
(* The actions. *)

\* What the invariant says of types, and where groups are.
LEMMA InvTypes ==
    ASSUME StreamInv
    PROVE  /\ StreamType /\ ReaderType /\ HistType
           /\ \A n \in Node : GroupOf(n) \in Group
           /\ DOMAIN stream = 1 .. Len(stream) /\ Len(stream) \in Nat
           /\ \A i \in DOMAIN stream : stream[i] \in Entry /\ Mes(i) \in Msg
  <1>1. StreamType /\ ReaderType /\ HistType
    BY Zenon DEF StreamInv
  <1>2. \A n \in Node : GroupOf(n) \in Group
    BY Zenon, <1>1, GroupFacts DEF StreamType
  <1>3. DOMAIN stream = 1 .. Len(stream) /\ Len(stream) \in Nat
    BY <1>1 DEF StreamType
  <1>4. \A i \in DOMAIN stream : stream[i] \in Entry /\ Mes(i) \in Msg
    <2>1. \A i \in DOMAIN stream : stream[i] \in Entry
      BY <1>1 DEF StreamType
    <2> QED  BY Zenon, <2>1 DEF Mes, Entry
  <1> QED  BY Zenon, <1>1, <1>2, <1>3, <1>4

\* A message is sent.
LEMMA SendKeeps ==
    ASSUME StreamInv, NEW m \in Msg, NEW k \in Kind, Send(m, k)
    PROVE  StreamInv'
  <1> DEFINE e == [m |-> m, kind |-> k]
  <1>1. e \in Entry
    BY Zenon DEF Entry
  <1>2. /\ Xadd(e)
        /\ UNCHANGED <<class, last, pel, ready, hold, up, joined, died, faults,
                       seen, nacked, stale>>
    BY Zenon DEF Send, fixed, local, hist
  <1>3. ReaderType' /\ HistType'
    BY Zenon, <1>2, InvTypes DEF ReaderType, HistType, Group, fan
  <1>4. Grows(e)
    BY Zenon, <1>2 DEF Grows, Pending
  <1> HIDE DEF e
  <1> QED  BY Zenon, <1>1, <1>3, <1>4, GrowsKeeps

\* Settling a claim takes it out of n's hands alone.
LEMMA SettledFacts ==
    ASSUME ReaderType, NEW n \in Node, NEW i, Settled(n, i)
    PROVE  /\ hold' \in [Node -> SUBSET Nat] /\ i \in hold[n]
           /\ \A v \in Node : hold'[v] \subseteq hold[v]
           /\ i \notin hold'[n]
           /\ \A v \in Node \ {n} : hold'[v] = hold[v]
  BY Zenon DEF ReaderType, Settled

\* XACK takes the entries out of one group's pending list.
LEMMA XackFacts ==
    ASSUME DOMAIN pel = Group, NEW g \in Group, NEW S, Xack(g, S),
           UNCHANGED class
    PROVE  /\ DOMAIN pel' = Group'
           /\ Pending(g)' = Pending(g) \ S
           /\ \A h \in Group \ {g} : Pending(h)' = Pending(h)
  <1>1. Group' = Group
    BY Zenon DEF Group, fan
  <1>2. pel' = [pel EXCEPT ![g] = Without(pel[g], S)]
    BY Zenon DEF Xack
  <1>3. DOMAIN Without(pel[g], S) = Pending(g) \ S
    BY Zenon DEF Without, Pending
  <1> QED  BY Zenon, <1>1, <1>2, <1>3 DEF Pending

\* ack: the message was given to a worker.
LEMMA AckKeeps ==
    ASSUME StreamInv, NEW n \in Node, NEW i, Ack(n, i)
    PROVE  StreamInv'
  <1>1. /\ StreamType /\ ReaderType /\ HistType /\ GroupOf(n) \in Group
        /\ hold[n] \subseteq DOMAIN stream
        /\ \A j \in DOMAIN stream : Mes(j) \in Msg
    BY Zenon, InvTypes DEF StreamInv, NodeInv
  <1>2. /\ UNCHANGED <<class, stream, trimmed, last, ready, up, joined, died,
                       nacked>>
        /\ UNCHANGED <<class, stream, trimmed>>
        /\ Settled(n, i)
        /\ seen' = [seen EXCEPT ![GroupOf(n)][Mes(i)] = @ + 1]
        /\ stale' = IF fan /\ i <= joined[n] THEN stale \cup {n} ELSE stale
    BY Zenon DEF Ack, fixed, Mes
  <1>3. PICK g \in Group : g = GroupOf(n)
    BY Zenon, <1>1
  <1>4. /\ hold' \in [Node -> SUBSET Nat] /\ i \in hold[n]
        /\ \A v \in Node : hold'[v] \subseteq hold[v]
    BY Zenon, <1>1, <1>2, SettledFacts
  <1>5. i \in DOMAIN stream /\ Mes(i) \in Msg
    BY Zenon, <1>1, <1>4
  <1>6. /\ faults' \in Nat /\ DOMAIN pel' = Group'
        /\ Pending(g)' \subseteq Pending(g)
        /\ Pending(g) \ Pending(g)' \subseteq {i}
        /\ \A h \in Group \ {g} : Pending(h)' = Pending(h)
    <2>1. CASE Xack(g, {i}) /\ UNCHANGED faults
      BY <1>1, <1>2, <2>1, XackFacts DEF ReaderType
    <2>2. CASE Fault /\ UNCHANGED pel
      BY <1>1, <1>2, <2>2 DEF ReaderType, Fault, Pending, Group, fan
    <2> QED  BY Zenon, <1>3, <2>1, <2>2 DEF Ack
  <1>7. HistType' /\ Given(g, i)'
        /\ \A h \in Group, j \in DOMAIN stream : Given(h, j) => Given(h, j)'
    <2>1. Group' = Group /\ \A j : Mes(j)' = Mes(j)
      BY Zenon, <1>2 DEF Group, fan, Mes
    <2>2. seen' \in [Group -> [Msg -> Nat]]
      BY <1>1, <1>2, <1>3, <1>5 DEF HistType
    <2>3. \A h \in Group, m \in Msg :
            seen'[h][m] = IF h = g /\ m = Mes(i) THEN seen[h][m] + 1
                                                 ELSE seen[h][m]
      BY Zenon, <1>1, <1>2, <1>3, <1>5 DEF HistType
    <2>4. \A h \in Group, m \in Msg : seen[h][m] \in Nat
      BY Zenon, <1>1 DEF HistType
    <2>5. HistType'
      BY Zenon, <1>1, <1>2, <2>1, <2>2 DEF HistType
    <2> QED  BY <1>1, <1>5, <2>1, <2>3, <2>4, <2>5 DEF Given
  <1>8. stale' \subseteq died
    <2>1. FirstInv(n) /\ stale \subseteq died
      BY Zenon DEF StreamInv
    <2>2. fan /\ n \notin died => i > joined[n]
      BY Zenon, <1>4, <2>1 DEF FirstInv
    <2>3. i \in Nat /\ joined[n] \in Nat
      BY Zenon, <1>1, <1>4 DEF ReaderType
    <2> QED  BY <1>2, <2>1, <2>2, <2>3
  <1>9. ReaderType'
    BY Zenon, <1>1, <1>2, <1>4, <1>6, <1>8 DEF ReaderType, Group, fan
  <1>10. Releases
    BY Zenon, <1>2, <1>4, <1>6, <1>7, <1>8 DEF Releases
  <1> QED  BY Zenon, <1>7, <1>9, <1>10, ReleasesKeeps

\* nack: a copy was added, or the entry stays pending.
LEMMA NackKeeps ==
    ASSUME StreamInv, NEW n \in Node, NEW i, Nack(n, i)
    PROVE  StreamInv'
  <1>1. /\ StreamType /\ ReaderType /\ HistType /\ GroupOf(n) \in Group
        /\ hold[n] \subseteq DOMAIN stream /\ stale \subseteq died
        /\ \A j \in DOMAIN stream : stream[j] \in Entry /\ Mes(j) \in Msg
    BY Zenon, InvTypes DEF StreamInv, NodeInv
  <1>2. /\ UNCHANGED <<class, last, ready, up, joined, died, seen, stale>>
        /\ UNCHANGED class /\ Settled(n, i)
    BY Zenon DEF Nack, fixed
  <1>3. PICK g \in Group : g = GroupOf(n)
    BY Zenon, <1>1
  <1>4. /\ hold' \in [Node -> SUBSET Nat] /\ i \in hold[n]
        /\ \A v \in Node : hold'[v] \subseteq hold[v]
    BY Zenon, <1>1, <1>2, SettledFacts
  <1>5. stream[i] \in Entry /\ Mes(i) \in Msg
    BY Zenon, <1>1, <1>4
  <1>6. \/ Xack(g, {i}) /\ UNCHANGED faults
        \/ Fault /\ UNCHANGED pel
    BY Zenon, <1>3 DEF Nack, LeftOver
  <1>7. /\ faults' \in Nat /\ DOMAIN pel' = Group'
        /\ \A h \in Group : /\ Pending(h)' \subseteq Pending(h)
                            /\ Pending(h) \ Pending(h)' \subseteq {i}
    <2>1. CASE Xack(g, {i}) /\ UNCHANGED faults
      BY <1>1, <1>2, <2>1, XackFacts DEF ReaderType
    <2>2. CASE Fault /\ UNCHANGED pel
      BY <1>1, <1>2, <2>2 DEF ReaderType, Fault, Pending, Group, fan
    <2> QED  BY Zenon, <1>6, <2>1, <2>2
  <1>8. ReaderType'
    BY Zenon, <1>1, <1>2, <1>4, <1>7 DEF ReaderType, Group, fan
  <1>9. HistType'
    <2>1. nacked' \in [Msg -> Nat]
      BY <1>1, <1>5 DEF Nack, HistType, Mes
    <2> QED  BY Zenon, <1>1, <1>2, <2>1 DEF HistType, Group, fan
  <1>10. CASE Xadd(stream[i])
    <2>1. Grows(stream[i])
      BY Zenon, <1>2, <1>4, <1>7, <1>10 DEF Grows, Mes
    <2> QED  BY Zenon, <1>5, <1>8, <1>9, <2>1, GrowsKeeps
  <1>11. CASE UNCHANGED <<stream, trimmed, pel>>
    <2>1. \A h : Pending(h)' = Pending(h) /\ \A j : Given(h, j)' <=> Given(h, j)
      BY Zenon, <1>2, <1>11 DEF Pending, Given, Mes
    <2>2. Releases
      BY Zenon, <1>1, <1>2, <1>4, <1>11, <2>1 DEF Releases
    <2> QED  BY Zenon, <1>8, <1>9, <2>2, ReleasesKeeps
  <1> QED  BY Zenon, <1>10, <1>11 DEF Nack, LeftOver

\* Positions can be counted.
LEMMA PositionsFinite ==
    ASSUME StreamType, NEW T \in SUBSET (DOMAIN stream)
    PROVE  IsFiniteSet(T) /\ Cardinality(T) \in Nat
  <1>1. DOMAIN stream = 1 .. Len(stream) /\ Len(stream) \in Nat
    BY DEF StreamType
  <1>2. IsFiniteSet(1 .. Len(stream))
    BY <1>1, FS_Interval
  <1>3. IsFiniteSet(T)
    BY Zenon, <1>1, <1>2, FS_Subset
  <1> QED  BY Zenon, <1>3, FS_CardinalityType

\* claim_stale takes trimmed and acknowledged entries off the pending list.
LEMMA ReapFacts ==
    ASSUME DOMAIN pel = Group, NEW n \in Node, NEW g \in Group, g = GroupOf(n),
           NEW S, NEW gone, Reap(n, S, gone), UNCHANGED class
    PROVE  /\ DOMAIN pel' = Group'
           /\ Pending(g)' = (Pending(g) \ ((S \ Live(S)) \cup gone))
                              \cup (Live(S) \ gone)
           /\ \A h \in Group \ {g} : Pending(h)' = Pending(h)
  <1>1. Group' = Group
    BY Zenon DEF Group, fan
  <1> DEFINE p == Owned(Without(pel[g], (S \ Live(S)) \cup gone),
                        Live(S) \ gone, n)
  <1>2. pel' = [pel EXCEPT ![g] = p]
    BY Zenon DEF Reap
  <1>3. DOMAIN p = (Pending(g) \ ((S \ Live(S)) \cup gone))
                     \cup (Live(S) \ gone)
    BY Zenon DEF Owned, Without, Pending
  <1> HIDE DEF p
  <1> QED  BY Zenon, <1>1, <1>2, <1>3 DEF Pending

\* claim_stale takes over entries of the group's pending list.
LEMMA ReapKeeps ==
    ASSUME StreamInv, NEW n \in Node, NEW g \in Group, g = GroupOf(n),
           NEW S \in SUBSET Pending(g),
           NEW gone \in SUBSET Of(Live(S), "bad"),
           Reap(n, S, gone), faults' \in Nat,
           UNCHANGED <<class, stream, trimmed, last, ready, up, joined, died,
                       seen, nacked, stale>>
    PROVE  StreamInv'
  <1>1. /\ StreamType /\ ReaderType /\ HistType /\ stale \subseteq died
        /\ Pending(g) \subseteq DOMAIN stream /\ DOMAIN stream \subseteq Nat
    BY InvTypes DEF StreamInv, GroupInv
  <1>2. Group' = Group
    BY Zenon DEF Group, fan
  <1>3. /\ DOMAIN pel' = Group'
        /\ Pending(g)' = (Pending(g) \ ((S \ Live(S)) \cup gone))
                           \cup (Live(S) \ gone)
        /\ \A h \in Group \ {g} : Pending(h)' = Pending(h)
    BY <1>1, ReapFacts DEF ReaderType
  <1>4. /\ Live(S) \subseteq S /\ \A i \in S \ Live(S) : ~(i > trimmed)
        /\ \A i \in gone : ~Good(i) /\ i \in Live(S)
    BY Zenon DEF Live, Of, Good
  <1>5. /\ hold' \in [Node -> SUBSET Nat]
        /\ \A v \in Node : hold'[v] \subseteq hold[v] \cup Pending(GroupOf(v))
    <2>1. hold' = [hold EXCEPT ![n] = Of(Live(S), "good")]
      BY Zenon DEF Reap
    <2>2. Of(Live(S), "good") \subseteq Pending(g)
      BY Zenon, <1>4 DEF Of
    <2> QED  BY Zenon, <1>1, <2>1, <2>2 DEF ReaderType
  <1>6. ReaderType' /\ HistType'
    BY Zenon, <1>1, <1>2, <1>3, <1>5 DEF ReaderType, HistType
  <1>7. \A h, j : Given(h, j)' <=> Given(h, j)
    BY Zenon DEF Given, Mes
  <1>8. Releases
    <2>1. \A i \in S \ Live(S) : i <= trimmed
      BY <1>1, <1>4 DEF StreamType
    <2>2. ASSUME NEW h \in Group
          PROVE  /\ Pending(h)' \subseteq Pending(h)
                 /\ \A i \in Pending(h) \ Pending(h)' :
                      Given(h, i)' \/ ~Good(i) \/ i <= trimmed
      BY Zenon, <1>3, <1>4, <2>1
    <2> QED  BY Zenon, <1>1, <1>5, <1>7, <2>2 DEF Releases
  <1> QED  BY Zenon, <1>6, <1>8, ReleasesKeeps

\* claim_stale on what is idle, and on what a slow dispatcher still has.
LEMMA StaleKeeps ==
    ASSUME StreamInv, NEW n \in Node,
           ClaimStale(n) \/ \E i : ClaimSlow(n, i)
    PROVE  StreamInv'
  <1>1. StreamType /\ ReaderType
    BY Zenon, InvTypes
  <1>2. PICK g \in Group : g = GroupOf(n)
    BY Zenon, InvTypes
  <1>3. UNCHANGED <<class, stream, trimmed, last, ready, up, joined, died, seen,
                    nacked, stale>>
    BY Zenon DEF ClaimStale, ClaimSlow, fixed, hist
  <1>4. CASE ClaimStale(n)
    <2> DEFINE S == Reapable(g)
    <2>1. PICK gone \in SUBSET Of(Live(S), "bad") :
            Discarded(Of(Live(S), "bad"), gone) /\ Reap(n, S, gone)
      BY Zenon, <1>2, <1>4 DEF ClaimStale
    <2>2. S \in SUBSET Pending(g)
      BY Zenon DEF Reapable, Pending
    <2>3. faults' \in Nat
      <3>1. Of(Live(S), "bad") \ gone \in SUBSET (DOMAIN stream)
        BY Zenon, <2>2 DEF StreamInv, GroupInv, Of, Live
      <3>2. Cardinality(Of(Live(S), "bad") \ gone) \in Nat
        BY Zenon, <1>1, <3>1, PositionsFinite
      <3> QED  BY <1>1, <2>1, <3>2 DEF Discarded, ReaderType
    <2> HIDE DEF S
    <2> QED  BY Zenon, <1>2, <1>3, <2>1, <2>2, <2>3, ReapKeeps
  <1>5. ASSUME NEW i, ClaimSlow(n, i)
        PROVE  StreamInv'
    <2>1. /\ {i} \in SUBSET Pending(g) /\ Reap(n, {i}, {}) /\ Fault
          /\ {} \in SUBSET Of(Live({i}), "bad")
      BY Zenon, <1>2, <1>5 DEF ClaimSlow, Pending
    <2>2. faults' \in Nat
      BY <1>1, <2>1 DEF Fault, ReaderType
    <2> QED  BY Zenon, <1>2, <1>3, <2>1, <2>2, ReapKeeps
  <1> QED  BY Zenon, <1>4, <1>5

\* Delivered entries become pending in the reader's group.
LEMMA OwnedFacts ==
    ASSUME DOMAIN pel = Group, NEW g \in Group, NEW T, NEW n,
           pel' = [pel EXCEPT ![g] = Owned(@, T, n)], UNCHANGED class
    PROVE  /\ DOMAIN pel' = Group'
           /\ Pending(g)' = Pending(g) \cup T
           /\ \A h \in Group \ {g} : Pending(h)' = Pending(h)
  <1>1. Group' = Group
    BY Zenon DEF Group, fan
  <1>2. pel' = [pel EXCEPT ![g] = Owned(pel[g], T, n)]
    OBVIOUS
  <1>3. DOMAIN Owned(pel[g], T, n) = Pending(g) \cup T
    BY Zenon DEF Owned, Pending
  <1> QED  BY Zenon, <1>1, <1>2, <1>3 DEF Pending

\* read_group, and one whose reply is lost.
LEMMA ClaimKeeps ==
    ASSUME StreamInv, NEW n \in Node, ClaimBatch(n) \/ LoseReply(n)
    PROVE  StreamInv'
  <1>1. StreamType /\ ReaderType /\ HistType
    BY Zenon, InvTypes
  <1>2. PICK g \in Group : g = GroupOf(n)
    BY Zenon, InvTypes
  <1>3. PICK S : S = Fresh(g)
    OBVIOUS
  <1>4. /\ UNCHANGED <<class, stream, trimmed, ready, up, joined, died, seen,
                       nacked, stale>>
        /\ UNCHANGED class /\ n \in ready /\ S # {}
        /\ last' = [last EXCEPT ![g] = Newest(S)]
    BY Zenon, <1>2, <1>3 DEF ClaimBatch, LoseReply, fixed, local, hist
  <1>5. S \subseteq DOMAIN stream /\ DOMAIN stream \subseteq Nat
        /\ Newest(S) \in 0 .. NotMade
    <2>1. S \subseteq DOMAIN stream /\ Newest(S) \in S
      BY Zenon, <1>1, <1>3, <1>4, FreshFacts
    <2> QED  BY <1>1, <2>1, StreamsAssumption DEF StreamType, NotMade
  <1>6. \E gone \in SUBSET {i \in S : ~Good(i)} :
          pel' = [pel EXCEPT ![g] = Owned(@, S \ gone, n)]
    <2>1. CASE ClaimBatch(n)
      <3>1. PICK gone \in SUBSET Of(S, "foreign") :
              pel' = [pel EXCEPT ![g] = Owned(@, S \ gone, n)]
        BY Zenon, <1>2, <1>3, <2>1 DEF ClaimBatch
      <3>2. gone \in SUBSET {i \in S : ~Good(i)}
        BY Zenon DEF Of, Good
      <3> QED  BY Zenon, <3>1, <3>2
    <2>2. CASE LoseReply(n)
      <3>1. {} \in SUBSET {i \in S : ~Good(i)} /\ S \ {} = S
        OBVIOUS
      <3>2. pel' = [pel EXCEPT ![g] = Owned(@, S, n)]
        BY Zenon, <1>2, <1>3, <2>2 DEF LoseReply
      <3> QED  BY Zenon, <3>1, <3>2
    <2> QED  BY Zenon, <2>1, <2>2
  <1>7. PICK gone \in SUBSET {i \in S : ~Good(i)} :
          pel' = [pel EXCEPT ![g] = Owned(@, S \ gone, n)]
    BY Zenon, <1>6
  <1>8. /\ DOMAIN pel' = Group'
        /\ Pending(g)' = Pending(g) \cup (S \ gone)
        /\ \A h \in Group \ {g} : Pending(h)' = Pending(h)
    BY Zenon, <1>1, <1>4, <1>7, OwnedFacts DEF ReaderType
  <1>9. /\ hold' \in [Node -> SUBSET Nat]
        /\ \A v \in Node : hold'[v] \subseteq
                             hold[v] \cup (IF v = n THEN S ELSE {})
    <2>1. CASE ClaimBatch(n)
      <3>1. PICK T \in SUBSET S : hold' = [hold EXCEPT ![n] = T]
        <4>1. Of(S, "good") \in SUBSET S /\ {} \in SUBSET S
          BY Zenon DEF Of
        <4> QED  BY Zenon, <1>2, <1>3, <2>1, <4>1 DEF ClaimBatch
      <3> QED  BY Zenon, <1>1, <1>5, <3>1 DEF ReaderType
    <2>2. CASE LoseReply(n)
      BY Zenon, <1>1, <2>2 DEF LoseReply, local, ReaderType
    <2> QED  BY Zenon, <2>1, <2>2
  <1>10. faults' \in Nat
    <2>1. CASE ClaimBatch(n)
      <3>1. PICK T \in SUBSET S : faults' = faults + Cardinality(T)
        <4> DEFINE passed == {i \in Of(S, "foreign") :
                                \A j \in Of(S, "bad") : i < j}
        <4>1. PICK G \in SUBSET passed : Discarded(passed, G)
          BY Zenon, <1>2, <1>3, <2>1 DEF ClaimBatch
        <4>2. passed \ G \in SUBSET S
          BY Zenon DEF Of
        <4> QED  BY Zenon, <4>1, <4>2 DEF Discarded
      <3>2. Cardinality(T) \in Nat
        BY Zenon, <1>1, <1>5, <3>1, PositionsFinite
      <3> QED  BY <1>1, <3>1, <3>2 DEF ReaderType
    <2>2. CASE LoseReply(n)
      BY <1>1, <2>2 DEF LoseReply, Fault, ReaderType
    <2> QED  BY Zenon, <2>1, <2>2
  <1>11. ReaderType' /\ HistType'
    BY Zenon, <1>1, <1>4, <1>5, <1>8, <1>9, <1>10 DEF ReaderType, HistType,
       Group, fan
  <1>12. Reads(n, g, S)
    BY Zenon, <1>2, <1>3, <1>4, <1>8, <1>9 DEF Reads
  <1> QED  BY Zenon, <1>11, <1>12, ReadsKeeps

\* A step that delivers nothing and takes nothing off a pending list.
Rests(g) ==
    /\ UNCHANGED <<class, stream, trimmed, seen, stale>>
    /\ last'[g] = last[g] /\ Pending(g)' = Pending(g)

\* It keeps what is said of that group.
LEMMA RestsKeeps ==
    ASSUME StreamInv, NEW g \in Group, Rests(g)
    PROVE  GroupInv(g)' /\ \A i \in DOMAIN stream' : SkipInv(g, i)'
  <1>1. /\ UNCHANGED <<class, stream, trimmed, seen>>
        /\ UNCHANGED <<class, stream, trimmed>>
        /\ (fan' <=> fan) /\ (Made(g)' <=> Made(g))
        /\ last'[g] = last[g] /\ Pending(g)' = Pending(g)
        /\ GroupInv(g) /\ \A i \in DOMAIN stream : SkipInv(g, i)
    BY Zenon DEF Rests, fan, Made, StreamInv
  <1>2. \A i : /\ (Good(i)' <=> Good(i)) /\ (Recent(i)' <=> Recent(i))
               /\ (Copied(i)' <=> Copied(i)) /\ Mes(i)' = Mes(i)
    BY Zenon, <1>1, SameStream
  <1>3. GroupInv(g)'
    BY Zenon, <1>1 DEF GroupInv
  <1>4. \A i : Given(g, i)' <=> Given(g, i)
    BY Zenon, <1>1, <1>2 DEF Given
  <1> QED  BY Zenon, <1>1, <1>2, <1>3, <1>4 DEF SkipInv

\* A process starts.
LEMMA StartKeeps ==
    ASSUME StreamInv, NEW n \in Node, Start(n)
    PROVE  StreamInv'
  <1>1. /\ StreamType /\ ReaderType /\ HistType /\ stale \subseteq died
        /\ Len(stream) \in Nat
    BY Zenon, InvTypes DEF StreamInv
  <1>2. /\ UNCHANGED <<class, stream, trimmed, last, pel, ready, hold, died,
                       faults, seen, nacked, stale>>
        /\ UNCHANGED <<class, stream, trimmed>>
        /\ n \notin up /\ up' = up \cup {n}
        /\ joined' = [joined EXCEPT ![n] = Len(stream)]
    BY Zenon DEF Start, fixed, redis, hist
  <1>3. /\ StreamType' /\ TrimInv' /\ Group' = Group
        /\ \A v : GroupOf(v)' = GroupOf(v)
    BY Zenon, <1>2, SameStream
  <1>4. ReaderType' /\ HistType'
    BY Zenon, <1>1, <1>2, <1>3 DEF ReaderType, HistType
  <1>5. \A g \in Group : GroupInv(g)' /\ \A i \in DOMAIN stream' : SkipInv(g, i)'
    BY Zenon, <1>2, RestsKeeps DEF Rests, Pending
  <1>6. ASSUME NEW v \in Node
        PROVE  NodeInv(v)' /\ FirstInv(v)'
    <2>1. /\ NodeInv(v) /\ FirstInv(v)
          /\ \A g : (Made(g)' <=> Made(g)) /\ Pending(g)' = Pending(g)
          /\ fan' <=> fan
      BY Zenon, <1>2 DEF StreamInv, Made, Pending, fan
    <2>2. joined'[v] = IF v = n THEN Len(stream) ELSE joined[v]
      BY Zenon, <1>1, <1>2 DEF ReaderType
    <2>3. NodeInv(v)'
      <3>1. Made(GroupOf(v))' <=> Made(GroupOf(v))
        BY Zenon, <1>2, <1>3 DEF Made
      <3> QED  BY <1>1, <1>2, <2>1, <2>2, <3>1 DEF NodeInv
    <2>4. FirstInv(v)'
      <3>1. fan /\ ~Made(v) => Pending(v) = {}
        BY Zenon, <1>1, GroupFacts DEF StreamInv, GroupInv, StreamType
      <3> QED  BY Zenon, <1>2, <2>1, <2>2, <3>1 DEF FirstInv
    <2> QED  BY Zenon, <2>3, <2>4
  <1> QED  BY Zenon, <1>1, <1>2, <1>3, <1>4, <1>5, <1>6 DEF StreamInv

\* It dies; what it had claimed stays pending.
LEMMA DieKeeps ==
    ASSUME StreamInv, NEW n \in Node, Die(n)
    PROVE  StreamInv'
  <1>1. StreamType /\ ReaderType /\ HistType /\ stale \subseteq died
    BY Zenon, InvTypes DEF StreamInv
  <1>2. /\ UNCHANGED <<class, stream, trimmed, last, joined, seen, nacked, stale>>
        /\ UNCHANGED <<class, stream, trimmed>>
        /\ Fault /\ died' = died \cup {n}
        /\ up' = up \ {n} /\ ready' = ready \ {n}
        /\ hold' = [hold EXCEPT ![n] = {}]
    BY Zenon DEF Die, fixed, hist
  <1>3. /\ StreamType' /\ TrimInv' /\ Group' = Group
        /\ \A v : GroupOf(v)' = GroupOf(v)
    BY Zenon, <1>2, SameStream
  <1>4. DOMAIN pel' = Group /\ \A g \in Group : Pending(g)' = Pending(g)
    <2> DEFINE p == [i \in DOMAIN pel[GroupOf(n)] |->
                       IF pel[GroupOf(n)][i] = n THEN "dead"
                                                 ELSE pel[GroupOf(n)][i]]
    <2>1. pel' = [pel EXCEPT ![GroupOf(n)] = p]
      BY Zenon DEF Die
    <2>2. DOMAIN p = Pending(GroupOf(n))
      BY Zenon DEF Pending
    <2> HIDE DEF p
    <2>3. DOMAIN pel = Group
      BY Zenon, <1>1 DEF ReaderType
    <2> QED  BY Zenon, <2>1, <2>2, <2>3 DEF Pending
  <1>5. ReaderType' /\ HistType'
    BY <1>1, <1>2, <1>3, <1>4 DEF ReaderType, HistType, Fault
  <1>6. \A g \in Group : GroupInv(g)' /\ \A i \in DOMAIN stream' : SkipInv(g, i)'
    BY Zenon, <1>2, <1>4, RestsKeeps DEF Rests
  <1>7. ASSUME NEW v \in Node
        PROVE  NodeInv(v)' /\ FirstInv(v)'
    <2>1. /\ NodeInv(v) /\ FirstInv(v)
          /\ \A g : Made(g)' <=> Made(g)
          /\ fan' <=> fan
      BY Zenon, <1>2 DEF StreamInv, Made, fan
    <2>2. hold'[v] = IF v = n THEN {} ELSE hold[v]
      BY Zenon, <1>1, <1>2 DEF ReaderType
    <2>3. NodeInv(v)'
      <3>1. Made(GroupOf(v))' <=> Made(GroupOf(v))
        BY Zenon, <1>2, <1>3 DEF Made
      <3> QED  BY <1>2, <2>1, <2>2, <3>1 DEF NodeInv
    <2>4. FirstInv(v)'
      <3>1. fan => Pending(v)' = Pending(v)
        BY Zenon, <1>1, <1>4, GroupFacts DEF StreamType
      <3> QED  BY Zenon, <1>2, <2>1, <2>2, <3>1 DEF FirstInv
    <2> QED  BY Zenon, <2>3, <2>4
  <1> QED  BY Zenon, <1>1, <1>2, <1>3, <1>5, <1>6, <1>7 DEF StreamInv

\* A consumer makes sure of its group.
LEMMA EnsureKeeps ==
    ASSUME StreamInv, NEW n \in Node, EnsureGroup(n)
    PROVE  StreamInv'
  <1>1. /\ StreamType /\ ReaderType /\ HistType /\ stale \subseteq died
        /\ DOMAIN stream = 1 .. Len(stream) /\ Len(stream) \in 0 .. MaxEntries
        /\ MaxEntries \in Nat
    BY InvTypes, StreamsAssumption DEF StreamInv, StreamType
  <1>2. PICK g \in Group : g = GroupOf(n)
    BY Zenon, InvTypes
  <1>3. /\ UNCHANGED <<class, stream, trimmed, pel, hold, up, joined, died,
                       faults, seen, nacked, stale>>
        /\ UNCHANGED <<class, stream, trimmed>>
        /\ n \in up /\ ready' = ready \cup {n}
        /\ last' = [last EXCEPT ![g] = IF last[g] = NotMade THEN GroupStart
                                                            ELSE last[g]]
        /\ fan' <=> fan
    BY Zenon, <1>2 DEF EnsureGroup, fixed, hist, fan
  <1>4. /\ StreamType' /\ TrimInv' /\ Group' = Group
        /\ \A v : GroupOf(v)' = GroupOf(v)
    BY Zenon, <1>3, SameStream
  <1>5. /\ last \in [Group -> 0 .. NotMade]
        /\ GroupStart = (IF fan THEN Len(stream) ELSE 0)
        /\ NotMade = MaxEntries + 1
        /\ \A h : Pending(h)' = Pending(h)
    BY Zenon, <1>1, <1>3 DEF ReaderType, GroupStart, NotMade, Pending
  <1>6. /\ last'[g] = IF Made(g) THEN last[g] ELSE GroupStart
        /\ Made(g)' /\ last'[g] \in 0 .. NotMade
        /\ \A h \in Group \ {g} : last'[h] = last[h]
    BY <1>1, <1>3, <1>5 DEF Made
  <1>7. ReaderType' /\ HistType'
    BY Zenon, <1>1, <1>3, <1>4, <1>5, <1>6 DEF ReaderType, HistType
  <1>8. ASSUME NEW h \in Group
        PROVE  GroupInv(h)' /\ \A i \in DOMAIN stream' : SkipInv(h, i)'
    <2>1. CASE h # g \/ Made(g)
      BY Zenon, <1>3, <1>5, <1>6, <2>1, RestsKeeps DEF Rests
    <2>2. CASE h = g /\ ~Made(g)
      <3>1. Pending(g) = {}
        BY Zenon, <2>2 DEF StreamInv, GroupInv
      <3>2. GroupInv(h)'
        BY <1>1, <1>3, <1>5, <1>6, <2>2, <3>1 DEF GroupInv
      <3>3. \A i \in DOMAIN stream' : SkipInv(h, i)'
        BY <1>1, <1>3, <1>5, <1>6, <2>2 DEF SkipInv
      <3> QED  BY Zenon, <3>2, <3>3
    <2> QED  BY Zenon, <2>1, <2>2
  <1>9. ASSUME NEW v \in Node
        PROVE  NodeInv(v)' /\ FirstInv(v)'
    <2>1. NodeInv(v) /\ FirstInv(v) /\ GroupOf(v) \in Group
      BY Zenon, InvTypes DEF StreamInv
    <2>2. NodeInv(v)'
      <3>1. Made(GroupOf(v))' <=> last'[GroupOf(v)] # NotMade
        BY Zenon, <1>4 DEF Made
      <3>2. Made(g)' <=> last'[g] # NotMade
        BY Zenon DEF Made
      <3>3. Made(GroupOf(v)) <=> last[GroupOf(v)] # NotMade
        BY Zenon DEF Made
      <3> QED  BY Zenon, <1>2, <1>3, <1>6, <2>1, <3>1, <3>2, <3>3 DEF NodeInv
    <2>3. FirstInv(v)'
      <3>1. CASE fan
        <4>1. g = n /\ v \in Group
          BY Zenon, <1>1, <1>2, <3>1, GroupFacts DEF StreamType
        <4>2. joined[v] <= Len(stream) /\ joined[v] \in Nat
          BY Zenon, <1>1, <2>1 DEF NodeInv, ReaderType
        <4>3. v # n => (Made(v)' <=> Made(v)) /\ last'[v] = last[v]
          BY Zenon, <1>6, <4>1 DEF Made
        <4> QED  BY Zenon, <1>3, <1>5, <1>6, <2>1, <3>1, <4>1, <4>2, <4>3
                    DEF FirstInv
      <3>2. CASE ~fan
        BY Zenon, <1>3, <3>2 DEF FirstInv
      <3> QED  BY Zenon, <3>1, <3>2
    <2> QED  BY Zenon, <2>2, <2>3
  <1> QED  BY Zenon, <1>1, <1>3, <1>4, <1>7, <1>8, <1>9 DEF StreamInv

-----------------------------------------------------------------------------
(* The theorems. *)

\* StreamInv holds in every reachable state.
THEOREM StreamInvariant == Spec => []StreamInv
  <1>1. Init => StreamInv
    <2> SUFFICES ASSUME Init PROVE StreamInv
      OBVIOUS
    <2>1. /\ class \in {"shared", "fanout", "bounded"}
          /\ stream = << >> /\ trimmed = 0
          /\ last = [g \in Group |-> NotMade]
          /\ ready = {} /\ hold = [n \in Node |-> {}] /\ up = {}
          /\ joined = [n \in Node |-> 0] /\ died = {} /\ faults = 0
          /\ stale = {} /\ DOMAIN pel = Group
      BY Zenon DEF Init
    <2>2. \A g \in Group : ~Made(g) /\ Pending(g) = {}
      BY Zenon DEF Init, Made, Pending, NoPel
    <2>3. StreamType /\ ReaderType /\ HistType /\ TrimInv
      <3>1. << >> \in Seq(Entry) /\ Len(<< >>) = 0 /\ MaxEntries \in Nat
        BY StreamsAssumption
      <3>2. StreamType /\ TrimInv
        BY <2>1, <3>1 DEF StreamType, TrimInv
      <3>3. ReaderType
        BY <2>1, <3>1 DEF ReaderType, NotMade
      <3>4. HistType
        BY Zenon DEF Init, HistType
      <3> QED  BY Zenon, <3>2, <3>3, <3>4
    <2>4. ASSUME NEW g \in Group
          PROVE  GroupInv(g) /\ \A i \in DOMAIN stream : SkipInv(g, i)
      BY Zenon, <2>2 DEF GroupInv, SkipInv
    <2>5. ASSUME NEW n \in Node
          PROVE  NodeInv(n) /\ FirstInv(n)
      <3>1. fan => n \in Group
        BY Zenon, <2>1, GroupFacts
      <3> QED  BY <2>1, <2>2, <3>1 DEF NodeInv, FirstInv
    <2> QED  BY Zenon, <2>1, <2>3, <2>4, <2>5 DEF StreamInv
  <1>2. StreamInv /\ [Next]_vars => StreamInv'
    <2> SUFFICES ASSUME StreamInv, [Next]_vars PROVE StreamInv'
      OBVIOUS
    <2>1. CASE Next
      BY Zenon, <2>1, SendKeeps, StartKeeps, DieKeeps, EnsureKeeps, ClaimKeeps,
         StaleKeeps, AckKeeps, NackKeeps DEF Next
    <2>2. CASE UNCHANGED vars
      <3>1. UNCHANGED <<class, stream, trimmed, last, pel, ready, hold, up,
                        joined, died, faults, seen, nacked, stale>>
        BY Zenon, <2>2 DEF vars, fixed, redis, local, hist
      <3>2. ReaderType' /\ HistType' /\ stale' \subseteq died
        BY Zenon, <3>1 DEF StreamInv, ReaderType, HistType, Group, fan
      <3>3. \A g, i : Pending(g)' = Pending(g) /\ (Given(g, i)' <=> Given(g, i))
        BY Zenon, <3>1 DEF Pending, Given, Mes
      <3>4. Releases
        BY Zenon, <3>1, <3>2, <3>3 DEF Releases
      <3> QED  BY Zenon, <3>2, <3>4, ReleasesKeeps
    <2> QED  BY Zenon, <2>1, <2>2
  <1> QED  BY <1>1, <1>2, PTL DEF Spec

\* No good entry is skipped: it is not trimmed while it is among the newest
\* maxlen, and once delivered it is pending, was given to a worker, or has been
\* re-injected (read_group, claim_stale, ack, nack, xadd).
THEOREM NoEntrySkipped == Spec => []NothingSkipped
  <1>1. StreamInv => NothingSkipped
    <2> SUFFICES ASSUME StreamInv, NEW g \in Group, NEW i \in DOMAIN stream,
                        stream[i].kind = "good", Recent(i)
                 PROVE  /\ i > trimmed
                        /\ last[g] # NotMade /\ ~fan /\ i <= last[g] =>
                             \/ i \in DOMAIN pel[g]
                             \/ seen[g][stream[i].m] > 0 \/ Copied(i)
      BY Zenon DEF NothingSkipped
    <2>1. i > trimmed
      BY Zenon, RecentKept DEF StreamInv
    <2>2. SkipInv(g, i)
      BY Zenon DEF StreamInv
    <2> QED  BY Zenon, <2>1, <2>2 DEF SkipInv, Made, Good, Pending, Given, Mes
  <1> QED  BY <1>1, StreamInvariant, PTL

\* A node that runs for the first time is given no fan-out command of before
\* (group_start_for: "$").
THEOREM NoCommandOfBefore == Spec => []NoStaleControl
  <1>1. StreamInv => NoStaleControl
    BY Zenon DEF StreamInv, NoStaleControl
  <1> QED  BY <1>1, StreamInvariant, PTL

-----------------------------------------------------------------------------
(***************************************************************************)
(* How often a consumer group is given a message.                          *)
(***************************************************************************)

\* The entries of m, and those that group g has done with.
All(m) == {i \in DOMAIN stream : Mes(i) = m}
Done(g, m) == {i \in All(m) : Made(g) /\ i <= last[g] /\ i \notin Pending(g)}

\* Messages are numbered as they are sent, and only nack adds another entry.
CountInv ==
    /\ Sent = 1 .. Cardinality(Sent) /\ Cardinality(Sent) \in Nat
    /\ \A m \in Msg : Cardinality(All(m)) <= 1 + nacked[m]

\* A claim in hand is pending, and no two dispatchers have the same.
ClaimInv ==
    \A n \in Node :
        /\ hold[n] \subseteq Pending(GroupOf(n))
        /\ \A v \in Node \ {n} :
             GroupOf(v) = GroupOf(n) => hold[n] \cap hold[v] = {}

\* Each time a worker was given m, an entry of m left the pending list.
GivenInv ==
    \A g \in Group, m \in Msg : seen[g][m] <= Cardinality(Done(g, m))

CopyInv == CountInv /\ (faults = 0 => ClaimInv /\ GivenInv)

\* Counting positions.
LEMMA FewerPositions ==
    ASSUME NEW b \in Nat, NEW T \in SUBSET (1 .. b), NEW S \in SUBSET T
    PROVE  /\ Cardinality(S) \in Nat /\ Cardinality(T) \in Nat
           /\ Cardinality(S) <= Cardinality(T)
           /\ IsFiniteSet(S)
           /\ \A i \in T \ S : Cardinality(S) + 1 <= Cardinality(T)
  <1>1. IsFiniteSet(T)
    <2>1. IsFiniteSet(1 .. b)
      BY FS_Interval
    <2> QED  BY Zenon, <2>1, FS_Subset
  <1>2. IsFiniteSet(S) /\ Cardinality(S) <= Cardinality(T)
    BY Zenon, <1>1, FS_Subset
  <1>3. Cardinality(S) \in Nat /\ Cardinality(T) \in Nat
    BY Zenon, <1>1, <1>2, FS_CardinalityType
  <1>4. ASSUME NEW i \in T \ S
        PROVE  Cardinality(S) + 1 <= Cardinality(T)
    <2>1. S \cup {i} \in SUBSET T
      OBVIOUS
    <2>2. Cardinality(S \cup {i}) <= Cardinality(T)
      BY Zenon, <1>1, <2>1, FS_Subset
    <2>3. Cardinality(S \cup {i}) = Cardinality(S) + 1
      BY Zenon, <1>2, FS_AddElement
    <2> QED  BY Zenon, <2>2, <2>3
  <1> QED  BY Zenon, <1>2, <1>3, <1>4

\* XADD of an entry of m adds one to the entries of m.
LEMMA XaddCounts ==
    ASSUME StreamInv, CountInv, NEW e \in Entry, Xadd(e), UNCHANGED class
    PROVE  /\ \A m \in Msg \ {e.m} :
                Cardinality(All(m)') = Cardinality(All(m))
           /\ Cardinality(All(e.m)') = Cardinality(All(e.m)) + 1
           /\ Sent' = Sent \cup {e.m}
           /\ \A m \in Msg : Cardinality(All(m)) \in Nat
  <1>1. PICK l \in Nat : l = Len(stream)
    BY Zenon, InvTypes
  <1>2. /\ DOMAIN stream = 1 .. l /\ DOMAIN stream' = 1 .. l + 1
        /\ stream'[l + 1].m = e.m
        /\ \A i \in 1 .. l : stream'[i].m = stream[i].m
    BY Zenon, <1>1, XaddFacts DEF StreamInv, Mes
  <1>3. PICK x : x = e.m
    OBVIOUS
  <1>4. ASSUME NEW m \in Msg
        PROVE  /\ All(m)' = All(m) \cup (IF m = x THEN {l + 1} ELSE {})
               /\ All(m) \in SUBSET (1 .. l)
    <2>1. /\ All(m) = {i \in 1 .. l : stream[i].m = m}
          /\ All(m)' = {i \in 1 .. l + 1 : stream'[i].m = m}
      BY Zenon, <1>2 DEF All, Mes
    <2>2. 1 .. l + 1 = (1 .. l) \cup {l + 1}
      OBVIOUS
    <2> QED  BY Zenon, <1>2, <1>3, <2>1, <2>2
  <1>5. ASSUME NEW m \in Msg
        PROVE  IsFiniteSet(All(m)) /\ Cardinality(All(m)) \in Nat
    BY Zenon, <1>4, FewerPositions
  <1>6. x \in Msg
    BY Zenon, <1>3 DEF Entry
  <1>7. Cardinality(All(x)') = Cardinality(All(x)) + 1
    <2>1. All(x)' = All(x) \cup {l + 1} /\ l + 1 \notin All(x)
      BY <1>4, <1>6
    <2> QED  BY Zenon, <1>5, <1>6, <2>1, FS_AddElement
  <1>8. Sent' = Sent \cup {x}
    <2>1. Sent' = {stream'[i].m : i \in 1 .. l + 1}
      BY Zenon, <1>2 DEF Sent
    <2>2. Sent = {stream[i].m : i \in 1 .. l}
      BY Zenon, <1>2 DEF Sent
    <2>3. 1 .. l + 1 = (1 .. l) \cup {l + 1}
      OBVIOUS
    <2> QED  BY <1>2, <1>3, <2>1, <2>2, <2>3
  <1>9. \A m \in Msg \ {x} : Cardinality(All(m)') = Cardinality(All(m))
    BY Zenon, <1>4
  <1> QED  BY Zenon, <1>3, <1>5, <1>7, <1>8, <1>9

\* A send is of a message with no entry yet.
LEMMA SendCounts ==
    ASSUME StreamInv, CountInv, NEW m \in Msg, NEW k \in Kind, Send(m, k)
    PROVE  CountInv'
  <1>1. PICK c \in Nat : c = Cardinality(Sent)
    BY Zenon DEF CountInv
  <1>2. PICK e \in Entry : e = [m |-> m, kind |-> k]
    BY Zenon DEF Entry
  <1>3. /\ Xadd(e) /\ UNCHANGED class /\ nacked' = nacked /\ m = c + 1 /\ e.m = m
        /\ Sent = 1 .. c /\ HistType
        /\ \A x \in Msg : Cardinality(All(x)) <= 1 + nacked[x]
    BY Zenon, <1>1, <1>2 DEF Send, fixed, hist, CountInv, StreamInv
  <1>4. /\ \A x \in Msg \ {m} : Cardinality(All(x)') = Cardinality(All(x))
        /\ Cardinality(All(m)') = Cardinality(All(m)) + 1
        /\ Sent' = Sent \cup {m}
    BY Zenon, <1>3, XaddCounts
  <1>5. Sent' = 1 .. c + 1 /\ Cardinality(1 .. c + 1) = c + 1
    <2>1. (1 .. c) \cup {c + 1} = 1 .. c + 1
      OBVIOUS
    <2>2. Cardinality(1 .. c + 1) = c + 1
      BY FS_Interval
    <2> QED  BY Zenon, <1>3, <1>4, <2>1, <2>2
  <1>6. Cardinality(All(m)) = 0
    <2>1. All(m) = {}
      <3>1. m \notin Sent
        BY <1>3
      <3> QED  BY Zenon, <3>1 DEF All, Mes, Sent
    <2> QED  BY Zenon, <2>1, FS_EmptySet
  <1>7. \A x \in Msg : Cardinality(All(x)') <= 1 + nacked'[x]
    BY <1>3, <1>4, <1>6 DEF HistType
  <1>8. /\ Sent' = 1 .. Cardinality(Sent') /\ Cardinality(Sent') \in Nat
    BY <1>5
  <1> QED  BY Zenon, <1>7, <1>8 DEF CountInv

\* A re-injection adds to the entries of m and to nacked[m].
LEMMA NackCounts ==
    ASSUME StreamInv, CountInv, NEW i \in DOMAIN stream, Xadd(stream[i]),
           UNCHANGED class,
           nacked' = [nacked EXCEPT ![stream[i].m] = @ + 1]
    PROVE  CountInv'
  <1>1. PICK e \in Entry : e = stream[i]
    BY Zenon, InvTypes
  <1>2. PICK m \in Msg : m = e.m
    BY Zenon DEF Entry
  <1>3. /\ nacked' = [nacked EXCEPT ![m] = @ + 1] /\ m \in Sent /\ HistType
        /\ Sent = 1 .. Cardinality(Sent) /\ Cardinality(Sent) \in Nat
        /\ \A x \in Msg : Cardinality(All(x)) <= 1 + nacked[x]
    BY Zenon, <1>1, <1>2 DEF CountInv, StreamInv, Sent
  <1>4. /\ \A x \in Msg \ {m} : Cardinality(All(x)') = Cardinality(All(x))
        /\ Cardinality(All(m)') = Cardinality(All(m)) + 1
        /\ Sent' = Sent \cup {m}
        /\ \A x \in Msg : Cardinality(All(x)) \in Nat
    BY Zenon, <1>1, <1>2, XaddCounts
  <1>5. Sent' = Sent
    BY Zenon, <1>3, <1>4
  <1>6. /\ nacked'[m] = nacked[m] + 1 /\ nacked[m] \in Nat
        /\ \A x \in Msg \ {m} : nacked'[x] = nacked[x]
    BY Zenon, <1>3 DEF HistType
  <1>7. \A x \in Msg : Cardinality(All(x)') <= 1 + nacked'[x]
    BY <1>3, <1>4, <1>6
  <1> QED  BY Zenon, <1>3, <1>5, <1>7 DEF CountInv

\* The stream and nacked stay.
LEMMA RestCounts ==
    ASSUME CountInv, UNCHANGED <<stream, nacked>>
    PROVE  CountInv'
  <1>1. Sent' = Sent /\ \A m : All(m)' = All(m)
    BY Zenon DEF Sent, All, Mes
  <1> QED  BY Zenon, <1>1 DEF CountInv

\* The stream only grows, and a group only moves on.
Onward(g) ==
    /\ Made(g) => Made(g)' /\ last[g] <= last'[g]
    /\ \A i \in Pending(g)' : i \in Pending(g) \/ ~Made(g) \/ i > last[g]
AllOnward ==
    /\ UNCHANGED class
    /\ DOMAIN stream \subseteq DOMAIN stream'
    /\ \A i \in DOMAIN stream : Mes(i)' = Mes(i)
    /\ \A g \in Group : Onward(g)

\* A group that is not read stays where it is.
LEMMA StillOnward ==
    ASSUME ReaderType, NEW g \in Group, last'[g] = last[g],
           Pending(g)' \subseteq Pending(g)
    PROVE  Onward(g)
  <1>1. last[g] <= last'[g]
    BY StreamsAssumption DEF ReaderType, NotMade
  <1>2. Made(g) => Made(g)'
    BY Zenon DEF Made, NotMade
  <1> QED  BY Zenon, <1>1, <1>2 DEF Onward

\* Then what is done with stays so, and each worker given m needs one more.
LEMMA OnwardKeeps ==
    ASSUME StreamInv, StreamInv', AllOnward, GivenInv,
           \A g \in Group, m \in Msg :
              \/ seen'[g][m] = seen[g][m]
              \/ /\ seen'[g][m] = seen[g][m] + 1
                 /\ \E i \in Done(g, m)' : i \notin Done(g, m)
    PROVE  GivenInv'
  <1>1. Group' = Group
    BY Zenon DEF AllOnward, Group, fan
  <1>2. Len(stream') \in Nat /\ DOMAIN stream' = 1 .. Len(stream')
    <2>1. stream' \in Seq(Entry)
      BY Zenon DEF StreamInv, StreamType, Entry, Kind, Msg
    <2> QED  BY <2>1
  <1>3. PICK l \in Nat : DOMAIN stream' = 1 .. l
    BY Zenon, <1>2
  <1>4. ASSUME NEW g \in Group, NEW m \in Msg
        PROVE  seen'[g][m] <= Cardinality(Done(g, m)')
    <2>1. Done(g, m) \subseteq Done(g, m)'
      <3>1. Onward(g)
        BY Zenon DEF AllOnward
      <3>2. last[g] \in 0 .. NotMade /\ last'[g] \in 0 .. NotMade
        BY Zenon, <1>1 DEF StreamInv, ReaderType
      <3>3. ASSUME NEW i \in Done(g, m)
            PROVE  i \in Done(g, m)'
        <4>1. /\ i \in DOMAIN stream /\ Mes(i) = m /\ Made(g)
              /\ i <= last[g] /\ i \notin Pending(g)
          BY Zenon, <3>3 DEF Done, All
        <4>2. i \in DOMAIN stream' /\ Mes(i)' = m /\ i \in Nat
          BY <1>3, <4>1 DEF AllOnward
        <4>3. Made(g)' /\ i <= last'[g]
          BY <3>1, <3>2, <4>1, <4>2, StreamsAssumption DEF Onward, NotMade
        <4>4. i \notin Pending(g)'
          <5>1. ~(i > last[g])
            BY <3>2, <4>1, <4>2, StreamsAssumption DEF NotMade
          <5> QED  BY Zenon, <3>1, <4>1, <5>1 DEF Onward
        <4> QED  BY Zenon, <4>2, <4>3, <4>4 DEF Done, All
      <3> QED  BY Zenon, <3>3
    <2>2. Done(g, m)' \in SUBSET (1 .. l)
      BY Zenon, <1>3 DEF Done, All
    <2>3. PICK S, T : S = Done(g, m) /\ T = Done(g, m)'
      OBVIOUS
    <2>4. /\ Cardinality(S) \in Nat /\ Cardinality(T) \in Nat
          /\ Cardinality(S) <= Cardinality(T)
          /\ \A i \in T \ S : Cardinality(S) + 1 <= Cardinality(T)
      BY Zenon, <2>1, <2>2, <2>3, FewerPositions
    <2>5. seen[g][m] \in Nat /\ seen[g][m] <= Cardinality(S)
      BY Zenon, <2>3 DEF StreamInv, HistType, GivenInv
    <2>6. \/ seen'[g][m] = seen[g][m]
          \/ seen'[g][m] = seen[g][m] + 1 /\ \E i \in T : i \notin S
      BY Zenon, <2>3
    <2>7. seen'[g][m] <= Cardinality(T)
      BY <2>4, <2>5, <2>6
    <2> QED  BY Zenon, <2>3, <2>7
  <1> QED  BY Zenon, <1>1, <1>4 DEF GivenInv

\* Steps that claim and settle nothing.
LEMMA RestCopies ==
    ASSUME StreamInv, StreamInv', CopyInv, CountInv', AllOnward,
           UNCHANGED <<hold, pel, seen, faults>>
    PROVE  CopyInv'
  <1>1. ASSUME faults' = 0
        PROVE  ClaimInv' /\ GivenInv'
    <2>1. ClaimInv /\ GivenInv
      BY Zenon, <1>1 DEF CopyInv
    <2>2. ClaimInv'
      <3>1. \A n : GroupOf(n)' = GroupOf(n)
        BY Zenon DEF AllOnward, GroupOf, fan
      <3>2. \A n : Pending(GroupOf(n))' = Pending(GroupOf(n))
        BY Zenon, <3>1 DEF Pending
      <3> QED  BY Zenon, <2>1, <3>1, <3>2 DEF ClaimInv
    <2>3. GivenInv'
      BY Zenon, <2>1, OnwardKeeps
    <2> QED  BY Zenon, <2>2, <2>3
  <1> QED  BY Zenon, <1>1 DEF CopyInv

\* A send adds an entry beyond what any group was delivered.
LEMMA SendCopies ==
    ASSUME StreamInv, StreamInv', CopyInv, NEW m \in Msg, NEW k \in Kind,
           Send(m, k)
    PROVE  CopyInv'
  <1>1. UNCHANGED <<class, last, pel, hold, seen, faults>> /\ UNCHANGED class
    BY Zenon DEF Send, fixed, local, hist
  <1>2. CountInv'
    BY Zenon, SendCounts DEF CopyInv
  <1>3. AllOnward
    <2>1. PICK e \in Entry : Xadd(e)
      BY Zenon DEF Send, Entry
    <2>2. /\ DOMAIN stream \subseteq DOMAIN stream'
          /\ \A i \in DOMAIN stream : Mes(i)' = Mes(i)
      <3>1. StreamType /\ TrimInv /\ UNCHANGED class
        BY Zenon, <1>1 DEF StreamInv
      <3> QED  BY Zenon, <2>1, <3>1, XaddFacts
    <2>3. \A g \in Group : Onward(g)
      BY Zenon, <1>1, InvTypes, StillOnward DEF Pending
    <2> QED  BY Zenon, <1>1, <2>2, <2>3 DEF AllOnward
  <1> QED  BY Zenon, <1>1, <1>2, <1>3, RestCopies

\* Starting a process and making a group give nothing to a worker.
LEMMA NodeCopies ==
    ASSUME StreamInv, StreamInv', CopyInv, NEW n \in Node,
           Start(n) \/ EnsureGroup(n)
    PROVE  CopyInv'
  <1>1. UNCHANGED <<class, stream, pel, hold, seen, nacked, faults>>
    BY Zenon DEF Start, EnsureGroup, fixed, redis, hist
  <1>2. CountInv'
    BY Zenon, <1>1, RestCounts DEF CopyInv
  <1>3. ASSUME NEW g \in Group
        PROVE  Onward(g)
    <2>1. Made(g) => last'[g] = last[g]
      BY Zenon, InvTypes DEF Start, EnsureGroup, redis, Made, ReaderType
    <2>2. Pending(g)' = Pending(g)
      BY Zenon, <1>1 DEF Pending
    <2>3. CASE Made(g)
      BY Zenon, <2>1, <2>2, <2>3, InvTypes, StillOnward
    <2>4. CASE ~Made(g)
      BY Zenon, <2>4 DEF Onward
    <2> QED  BY Zenon, <2>3, <2>4
  <1>4. AllOnward
    BY Zenon, <1>1, <1>3 DEF AllOnward, Mes
  <1> QED  BY Zenon, <1>1, <1>2, <1>4, RestCopies

\* A failure ends the promise.
LEMMA FaultCopies ==
    ASSUME StreamInv, CountInv', Fault
    PROVE  CopyInv'
  BY DEF Fault, CopyInv, StreamInv, ReaderType

\* Dispatcher n has taken new claims T of its group, none of them in hand, and
\* entries left the pending list that were in nobody's hand.
Takes(n, g, T) ==
    /\ UNCHANGED <<class, stream, seen>>
    /\ hold[n] = {} /\ hold' = [hold EXCEPT ![n] = T]
    /\ T \subseteq Pending(g)'
    /\ \A v \in Node : GroupOf(v) = g => hold[v] \subseteq Pending(g)' \ T
    /\ \A h \in Group \ {g} : Pending(h)' = Pending(h)

\* Claims stay apart and pending.
LEMMA TakesKeeps ==
    ASSUME StreamInv, ClaimInv, NEW n \in Node, NEW g \in Group, NEW T,
           g = GroupOf(n), Takes(n, g, T)
    PROVE  ClaimInv'
  <1>1. /\ \A v \in Node : hold'[v] = IF v = n THEN T ELSE hold[v]
        /\ UNCHANGED class
    BY Zenon DEF Takes, StreamInv, ReaderType
  <1>2. \A v : GroupOf(v)' = GroupOf(v)
    BY Zenon, <1>1 DEF GroupOf, fan
  <1>3. ASSUME NEW v \in Node
        PROVE  /\ hold'[v] \subseteq Pending(GroupOf(v))'
               /\ \A w \in Node \ {v} :
                    GroupOf(w) = GroupOf(v) => hold'[v] \cap hold'[w] = {}
    <2>1. PICK h \in Group : h = GroupOf(v)
      BY Zenon, InvTypes
    <2>2. Pending(GroupOf(v))' = Pending(h)' /\ Pending(GroupOf(v)) = Pending(h)
      BY Zenon, <1>2, <2>1 DEF Pending
    <2>3. hold'[v] \subseteq Pending(h)'
      BY <1>1, <2>1, <2>2 DEF Takes, ClaimInv
    <2>4. ASSUME NEW w \in Node \ {v}, GroupOf(w) = GroupOf(v)
          PROVE  hold'[v] \cap hold'[w] = {}
      <3>1. hold[v] \cap hold[w] = {}
        BY Zenon, <2>4 DEF ClaimInv
      <3>2. CASE v = n
        <4>1. hold[w] \cap T = {}
          BY Zenon, <2>4, <3>2 DEF Takes
        <4> QED  BY Zenon, <1>1, <2>4, <3>2, <4>1
      <3>3. CASE w = n
        <4>1. hold[v] \cap T = {}
          BY Zenon, <2>4, <3>3 DEF Takes
        <4> QED  BY Zenon, <1>1, <2>4, <3>3, <4>1
      <3>4. CASE v # n /\ w # n
        BY Zenon, <1>1, <3>1, <3>4
      <3> QED  BY Zenon, <3>2, <3>3, <3>4
    <2> QED  BY Zenon, <2>2, <2>3, <2>4
  <1> QED  BY Zenon, <1>2, <1>3 DEF ClaimInv

\* XREADGROUP delivers what nobody of the group was delivered before.
LEMMA BatchCopies ==
    ASSUME StreamInv, StreamInv', CopyInv, NEW n \in Node, ClaimBatch(n)
    PROVE  CopyInv'
  <1>1. /\ StreamType /\ ReaderType
        /\ DOMAIN stream = 1 .. Len(stream) /\ Len(stream) \in Nat
        /\ Len(stream) < NotMade
    BY InvTypes, StreamsAssumption DEF StreamType, NotMade
  <1>2. PICK g \in Group : g = GroupOf(n)
    BY Zenon, InvTypes
  <1>3. PICK S : S = Fresh(g)
    OBVIOUS
  <1>4. /\ UNCHANGED <<class, stream, seen, nacked>> /\ UNCHANGED class
        /\ n \in ready /\ S # {} /\ hold[n] = {}
        /\ last' = [last EXCEPT ![g] = Newest(S)]
    BY Zenon, <1>2, <1>3 DEF ClaimBatch, fixed, hist
  <1>5. /\ S \subseteq DOMAIN stream /\ Newest(S) \in S
        /\ \A i \in S : i > last[g]
    BY Zenon, <1>1, <1>3, <1>4, FreshFacts
  <1> DEFINE passed == {i \in Of(S, "foreign") :
                          \A j \in Of(S, "bad") : i < j}
  <1>6. PICK gone \in SUBSET passed :
          /\ Discarded(passed, gone)
          /\ pel' = [pel EXCEPT ![g] = Owned(@, S \ gone, n)]
    BY Zenon, <1>2, <1>3 DEF ClaimBatch
  <1>7. /\ Pending(g)' = Pending(g) \cup (S \ gone)
        /\ \A h \in Group \ {g} : Pending(h)' = Pending(h)
    BY Zenon, <1>1, <1>4, <1>6, OwnedFacts DEF ReaderType
  <1>8. CountInv'
    BY Zenon, <1>4, RestCounts DEF CopyInv
  <1>9. ASSUME faults' = 0
        PROVE  ClaimInv' /\ GivenInv'
    <2>1. faults = 0
      <3>1. passed \ gone \in SUBSET (DOMAIN stream)
        BY Zenon, <1>5 DEF Of
      <3>2. Cardinality(passed \ gone) \in Nat
        BY Zenon, <1>1, <3>1, PositionsFinite
      <3>3. faults' = faults + Cardinality(passed \ gone)
        BY Zenon, <1>6 DEF Discarded
      <3> HIDE DEF passed
      <3> QED  BY <1>1, <1>9, <3>2, <3>3 DEF ReaderType
    <2>2. ClaimInv /\ GivenInv
      BY Zenon, <2>1 DEF CopyInv
    <2>3. /\ Made(g) /\ last[g] \in Nat
          /\ \A i \in Pending(g) : i <= last[g] /\ i \in Nat
      <3>1. Made(g) /\ GroupInv(g)
        BY Zenon, <1>2, <1>4 DEF StreamInv, NodeInv
      <3>2. last[g] \in Nat
        BY <1>1, StreamsAssumption DEF ReaderType, NotMade
      <3>3. \A i \in Pending(g) : i <= last[g] /\ i \in DOMAIN stream
        BY Zenon, <3>1 DEF GroupInv
      <3> QED  BY <1>1, <3>1, <3>2, <3>3
    <2>4. \A v \in Node : GroupOf(v) = g => hold[v] \subseteq Pending(g)
      BY Zenon, <2>2 DEF ClaimInv
    <2>5. PICK T \in SUBSET (S \ gone) : hold' = [hold EXCEPT ![n] = T]
      <3>1. Of(S, "good") \in SUBSET (S \ gone) /\ {} \in SUBSET (S \ gone)
        BY Zenon, <1>6 DEF Of
      <3> QED  BY Zenon, <1>2, <1>3, <3>1 DEF ClaimBatch
    <2>6. \A i \in S : i \notin Pending(g)
      BY <1>1, <1>5, <2>3
    <2>7. Takes(n, g, T)
      BY Zenon, <1>4, <1>7, <2>4, <2>5, <2>6 DEF Takes
    <2>8. ClaimInv'
      BY Zenon, <1>2, <2>2, <2>7, TakesKeeps
    <2>9. ASSUME NEW h \in Group
          PROVE  Onward(h)
      <3>1. CASE h = g
        <4>1. last'[g] = Newest(S) /\ Newest(S) > last[g]
          BY Zenon, <1>1, <1>4, <1>5 DEF ReaderType
        <4>2. Made(g)' /\ last[g] <= last'[g]
          <5>1. Newest(S) \in 1 .. Len(stream)
            BY Zenon, <1>1, <1>5
          <5>2. last[g] <= Newest(S) /\ Newest(S) < NotMade
            <6>1. PICK k \in 1 .. Len(stream) : k = Newest(S)
              BY Zenon, <5>1
            <6>2. k > last[g] /\ last[g] \in Nat
              BY Zenon, <2>3, <4>1, <6>1
            <6>3. NotMade \in Nat /\ Len(stream) < NotMade /\ Len(stream) \in Nat
              BY <1>1, StreamsAssumption DEF NotMade
            <6>4. last[g] <= k /\ k < NotMade
              BY <6>2, <6>3
            <6> QED  BY Zenon, <6>1, <6>4
          <5>3. last'[g] # NotMade
            BY <4>1, <5>2, StreamsAssumption DEF NotMade
          <5> QED  BY Zenon, <4>1, <5>2, <5>3 DEF Made, NotMade
        <4> QED  BY Zenon, <1>5, <1>7, <3>1, <4>2 DEF Onward
      <3>2. CASE h # g
        <4>1. last'[h] = last[h]
          BY Zenon, <1>1, <1>4, <3>2 DEF ReaderType
        <4> QED  BY Zenon, <1>1, <1>7, <3>2, <4>1, StillOnward
      <3> QED  BY Zenon, <3>1, <3>2
    <2>10. AllOnward
      BY Zenon, <1>4, <2>9 DEF AllOnward, Mes
    <2>11. GivenInv'
      BY Zenon, <1>4, <2>2, <2>10, OnwardKeeps
    <2> QED  BY Zenon, <2>8, <2>11
  <1> QED  BY Zenon, <1>8, <1>9 DEF CopyInv

\* XAUTOCLAIM takes over only what is in nobody's hand.
LEMMA StaleCopies ==
    ASSUME StreamInv, StreamInv', CopyInv, NEW n \in Node, ClaimStale(n)
    PROVE  CopyInv'
  <1>1. StreamType /\ ReaderType
    BY Zenon, InvTypes
  <1>2. PICK g \in Group : g = GroupOf(n)
    BY Zenon, InvTypes
  <1>3. PICK S : S = Reapable(g)
    OBVIOUS
  <1>4. UNCHANGED <<class, stream, last, seen, nacked>> /\ UNCHANGED class
        /\ hold[n] = {}
    BY Zenon DEF ClaimStale, fixed, hist
  <1>5. PICK gone \in SUBSET Of(Live(S), "bad") :
          Discarded(Of(Live(S), "bad"), gone) /\ Reap(n, S, gone)
    BY Zenon, <1>2, <1>3 DEF ClaimStale
  <1>6. /\ S \subseteq Pending(g) /\ S \cap InHand(g) = {}
        /\ Live(S) \subseteq S /\ gone \subseteq Live(S)
        /\ Of(Live(S), "good") \subseteq Live(S) \ gone
    BY Zenon, <1>3, <1>5 DEF Reapable, Pending, Live, Of
  <1>7. /\ Pending(g)' = (Pending(g) \ ((S \ Live(S)) \cup gone))
                           \cup (Live(S) \ gone)
        /\ \A h \in Group \ {g} : Pending(h)' = Pending(h)
    BY <1>1, <1>2, <1>4, <1>5, ReapFacts DEF ReaderType
  <1>8. CountInv'
    BY Zenon, <1>4, RestCounts DEF CopyInv
  <1>9. ASSUME faults' = 0
        PROVE  ClaimInv' /\ GivenInv'
    <2>1. faults = 0
      <3>1. Of(Live(S), "bad") \ gone \in SUBSET (DOMAIN stream)
        BY Zenon, <1>6 DEF StreamInv, GroupInv, Of
      <3>2. Cardinality(Of(Live(S), "bad") \ gone) \in Nat
        BY Zenon, <1>1, <3>1, PositionsFinite
      <3>3. faults' = faults + Cardinality(Of(Live(S), "bad") \ gone)
        BY Zenon, <1>5 DEF Discarded
      <3> QED  BY <1>1, <1>9, <3>2, <3>3 DEF ReaderType
    <2>2. ClaimInv /\ GivenInv
      BY Zenon, <2>1 DEF CopyInv
    <2>3. PICK T : T = Of(Live(S), "good")
      OBVIOUS
    <2>4. hold' = [hold EXCEPT ![n] = T]
      BY Zenon, <1>5, <2>3 DEF Reap
    <2>5. \A v \in Node : GroupOf(v) = g =>
            hold[v] \subseteq Pending(g) /\ hold[v] \cap S = {}
      BY <1>6, <2>2 DEF ClaimInv, InHand
    <2>6. Takes(n, g, T)
      BY Zenon, <1>4, <1>6, <1>7, <2>3, <2>4, <2>5 DEF Takes
    <2>7. ClaimInv'
      BY Zenon, <1>2, <2>2, <2>6, TakesKeeps
    <2>8. \A h \in Group : Pending(h)' \subseteq Pending(h)
      BY Zenon, <1>6, <1>7
    <2>9. \A h \in Group : Onward(h)
      BY Zenon, <1>1, <1>4, <2>8, StillOnward
    <2>10. AllOnward
      BY Zenon, <1>4, <2>9 DEF AllOnward, Mes
    <2>11. GivenInv'
      BY Zenon, <1>4, <2>2, <2>10, OnwardKeeps
    <2> QED  BY Zenon, <2>7, <2>11
  <1> QED  BY Zenon, <1>8, <1>9 DEF CopyInv

\* A claim that is settled and acknowledged was in one hand.
LEMMA SettledClaims ==
    ASSUME StreamInv, ClaimInv, NEW n \in Node, NEW g \in Group, g = GroupOf(n),
           NEW i, Settled(n, i), Xack(g, {i}), UNCHANGED class
    PROVE  ClaimInv'
  <1>1. /\ i \in hold[n] /\ i \notin hold'[n]
        /\ \A v \in Node : hold'[v] \subseteq hold[v]
    BY Zenon, SettledFacts, InvTypes
  <1>2. /\ Pending(g)' = Pending(g) \ {i}
        /\ \A h \in Group \ {g} : Pending(h)' = Pending(h)
    BY Zenon, XackFacts DEF StreamInv, ReaderType
  <1>3. \A v : GroupOf(v)' = GroupOf(v)
    BY Zenon DEF GroupOf, fan
  <1>4. ASSUME NEW v \in Node
        PROVE  /\ hold'[v] \subseteq Pending(GroupOf(v))'
               /\ \A w \in Node \ {v} :
                    GroupOf(w) = GroupOf(v) => hold'[v] \cap hold'[w] = {}
    <2>1. PICK h \in Group : h = GroupOf(v)
      BY Zenon, InvTypes
    <2>2. Pending(GroupOf(v))' = Pending(h)' /\ Pending(GroupOf(v)) = Pending(h)
      BY Zenon, <1>3, <2>1 DEF Pending
    <2>3. hold[v] \subseteq Pending(h)
      BY Zenon, <2>2 DEF ClaimInv
    <2>4. h = g => i \notin hold'[v]
      BY Zenon, <1>1, <2>1 DEF ClaimInv
    <2>5. hold'[v] \subseteq Pending(h)'
      BY Zenon, <1>1, <1>2, <2>3, <2>4
    <2>6. \A w \in Node \ {v} :
            GroupOf(w) = GroupOf(v) => hold'[v] \cap hold'[w] = {}
      BY Zenon, <1>1 DEF ClaimInv
    <2> QED  BY Zenon, <2>2, <2>5, <2>6
  <1> QED  BY Zenon, <1>3, <1>4 DEF ClaimInv

\* A worker is given m and an entry of m is done with.
LEMMA AckCopies ==
    ASSUME StreamInv, StreamInv', CopyInv, NEW n \in Node, NEW i, Ack(n, i)
    PROVE  CopyInv'
  <1>1. PICK g \in Group : g = GroupOf(n)
    BY Zenon, InvTypes
  <1>2. /\ UNCHANGED <<class, stream, last, nacked>> /\ UNCHANGED class
        /\ Settled(n, i) /\ ReaderType /\ HistType
    BY Zenon, InvTypes DEF Ack, fixed
  <1>3. CountInv'
    BY Zenon, <1>2, RestCounts DEF CopyInv
  <1>4. CASE Fault
    BY Zenon, <1>3, <1>4, FaultCopies
  <1>5. CASE faults = 0 /\ Xack(g, {i}) /\ UNCHANGED faults
    <2>1. ClaimInv /\ GivenInv
      BY Zenon, <1>5 DEF CopyInv
    <2>2. ClaimInv'
      BY Zenon, <1>1, <1>2, <1>5, <2>1, SettledClaims
    <2>3. /\ Pending(g)' = Pending(g) \ {i}
          /\ \A h \in Group \ {g} : Pending(h)' = Pending(h)
      BY Zenon, <1>2, <1>5, XackFacts DEF ReaderType
    <2>4. /\ i \in DOMAIN stream /\ i \in Pending(g) /\ Made(g) /\ i <= last[g]
      <3>1. i \in Pending(GroupOf(n)) /\ Pending(GroupOf(n)) = Pending(g)
        BY Zenon, <1>1, <1>2, <2>1, SettledFacts DEF ClaimInv
      <3> QED  BY Zenon, <3>1 DEF StreamInv, GroupInv
    <2>5. PICK x \in Msg : x = Mes(i)
      BY Zenon, <2>4, InvTypes
    <2>6. \A h \in Group : Onward(h)
      BY Zenon, <1>2, <2>3, StillOnward
    <2>7. AllOnward
      BY Zenon, <1>2, <2>6 DEF AllOnward, Mes
    <2>8. seen' = [seen EXCEPT ![g][x] = @ + 1]
      BY Zenon, <1>1, <2>5 DEF Ack, Mes
    <2>9. i \in Done(g, x)' /\ i \notin Done(g, x)
      <3>1. Made(g)' /\ Mes(i)' = x
        BY Zenon, <1>2, <2>4, <2>5 DEF Made, Mes
      <3> QED  BY Zenon, <1>2, <2>3, <2>4, <3>1 DEF Done, All
    <2>10. ASSUME NEW h \in Group, NEW m \in Msg
           PROVE  \/ seen'[h][m] = seen[h][m]
                  \/ /\ seen'[h][m] = seen[h][m] + 1
                     /\ \E j \in Done(h, m)' : j \notin Done(h, m)
      <3>1. CASE h = g /\ m = x
        <4>1. seen'[g][x] = seen[g][x] + 1
          BY Zenon, <1>2, <2>8 DEF HistType
        <4> QED  BY Zenon, <2>9, <3>1, <4>1
      <3>2. CASE ~(h = g /\ m = x)
        BY Zenon, <1>2, <2>8, <3>2 DEF HistType
      <3> QED  BY Zenon, <3>1, <3>2
    <2>11. GivenInv'
      BY Zenon, <2>1, <2>7, <2>10, OnwardKeeps
    <2> QED  BY Zenon, <1>3, <2>2, <2>11 DEF CopyInv
  <1>6. CASE faults # 0 /\ UNCHANGED faults
    BY Zenon, <1>3, <1>6 DEF CopyInv
  <1>7. Fault \/ (Xack(g, {i}) /\ UNCHANGED faults)
    BY Zenon, <1>1 DEF Ack
  <1> QED  BY Zenon, <1>4, <1>5, <1>6, <1>7

\* A re-injected entry leaves the pending list unseen.
LEMMA NackCopies ==
    ASSUME StreamInv, StreamInv', CopyInv, NEW n \in Node, NEW i, Nack(n, i)
    PROVE  CopyInv'
  <1>1. PICK g \in Group : g = GroupOf(n)
    BY Zenon, InvTypes
  <1>2. /\ UNCHANGED <<class, last, seen>> /\ UNCHANGED class
        /\ Settled(n, i) /\ ReaderType
    BY Zenon, InvTypes DEF Nack, fixed
  <1>3. i \in DOMAIN stream
    BY Zenon, <1>2, SettledFacts DEF StreamInv, NodeInv
  <1>4. CASE Fault /\ UNCHANGED <<stream, trimmed, nacked>>
    <2>1. CountInv'
      BY Zenon, <1>4, RestCounts DEF CopyInv
    <2> QED  BY Zenon, <1>4, <2>1, FaultCopies
  <1>5. ASSUME Xadd(stream[i]),
               nacked' = [nacked EXCEPT ![stream[i].m] = @ + 1]
        PROVE  CountInv'
    BY Zenon, <1>2, <1>3, <1>5, NackCounts DEF CopyInv
  <1>6. CASE /\ Xadd(stream[i])
             /\ nacked' = [nacked EXCEPT ![stream[i].m] = @ + 1]
             /\ Fault
    BY Zenon, <1>5, <1>6, FaultCopies
  <1>7. CASE /\ Xadd(stream[i])
             /\ nacked' = [nacked EXCEPT ![stream[i].m] = @ + 1]
             /\ Xack(g, {i}) /\ UNCHANGED faults
    <2>1. CountInv'
      BY Zenon, <1>5, <1>7
    <2>2. ASSUME faults' = 0
          PROVE  ClaimInv' /\ GivenInv'
      <3>1. ClaimInv /\ GivenInv
        BY Zenon, <1>7, <2>2 DEF CopyInv
      <3>2. ClaimInv'
        BY Zenon, <1>1, <1>2, <1>7, <3>1, SettledClaims
      <3>3. \A h \in Group : Pending(h)' \subseteq Pending(h)
        BY Zenon, <1>2, <1>7, XackFacts DEF ReaderType
      <3>4. \A h \in Group : Onward(h)
        BY Zenon, <1>2, <3>3, StillOnward
      <3>5. /\ DOMAIN stream \subseteq DOMAIN stream'
            /\ \A j \in DOMAIN stream : Mes(j)' = Mes(j)
        <4>1. PICK e \in Entry : e = stream[i]
          BY Zenon, <1>3, InvTypes
        <4>2. StreamType /\ TrimInv /\ UNCHANGED class /\ Xadd(e)
          BY Zenon, <1>2, <1>7, <4>1 DEF StreamInv
        <4> QED  BY Zenon, <4>2, XaddFacts
      <3>6. AllOnward
        BY Zenon, <1>2, <3>4, <3>5 DEF AllOnward
      <3> QED  BY Zenon, <1>2, <3>1, <3>2, <3>6, OnwardKeeps
    <2> QED  BY Zenon, <2>1, <2>2 DEF CopyInv
  <1> QED  BY Zenon, <1>1, <1>4, <1>6, <1>7 DEF Nack

-----------------------------------------------------------------------------
\* Without faults no group is given a message more often than it was sent and
\* re-injected: XREADGROUP delivers an entry to one consumer, XAUTOCLAIM takes
\* nothing that is in hand, and XACK or nack uses the entry up.
THEOREM NoCopyTooMany == Spec => []NoExtraCopies
  <1>1. Init => CopyInv
    <2> SUFFICES ASSUME Init PROVE CopyInv
      OBVIOUS
    <2>1. Sent = {} /\ \A m : All(m) = {}
      BY DEF Init, Sent, All
    <2>2. CountInv
      <3>1. {} = 1 .. 0 /\ Cardinality({}) = 0
        BY FS_EmptySet
      <3>2. \A m \in Msg : nacked[m] = 0
        BY Zenon DEF Init
      <3>3. Cardinality(Sent) = 0 /\ Sent = 1 .. 0
        BY Zenon, <2>1, <3>1
      <3>4. \A m \in Msg : Cardinality(All(m)) = 0
        BY Zenon, <2>1, <3>1
      <3>5. Sent = 1 .. Cardinality(Sent)
        BY Zenon, <3>3
      <3>6. \A m \in Msg : Cardinality(All(m)) <= 1 + nacked[m]
        BY <3>2, <3>4
      <3> QED  BY <3>3, <3>5, <3>6 DEF CountInv
    <2>3. ClaimInv
      BY Zenon DEF Init, ClaimInv
    <2>4. GivenInv
      <3>1. \A g, m : Cardinality(Done(g, m)) = 0
        BY Zenon, <2>1, FS_EmptySet DEF Done
      <3>2. \A g \in Group, m \in Msg : seen[g][m] = 0
        BY Zenon DEF Init
      <3> QED  BY <3>1, <3>2 DEF GivenInv
    <2> QED  BY Zenon, <2>2, <2>3, <2>4 DEF CopyInv
  <1>2. StreamInv /\ StreamInv' /\ CopyInv /\ [Next]_vars => CopyInv'
    <2> SUFFICES ASSUME StreamInv, StreamInv', CopyInv, [Next]_vars
                 PROVE  CopyInv'
      OBVIOUS
    <2>1. ASSUME NEW n \in Node, Die(n) \/ LoseReply(n) \/ \E i : ClaimSlow(n, i)
          PROVE  CopyInv'
      <3>1. Fault /\ UNCHANGED <<stream, nacked>>
        BY Zenon, <2>1 DEF Die, LoseReply, ClaimSlow, hist
      <3> QED  BY Zenon, <3>1, RestCounts, FaultCopies DEF CopyInv
    <2>2. CASE Next
      BY Zenon, <2>1, <2>2, SendCopies, NodeCopies, BatchCopies, StaleCopies,
         AckCopies, NackCopies DEF Next
    <2>3. CASE UNCHANGED vars
      <3>1. UNCHANGED <<class, stream, last, pel, hold, seen, nacked, faults>>
        BY Zenon, <2>3 DEF vars, fixed, redis, local, hist
      <3>2. \A g \in Group : Onward(g)
        BY Zenon, <3>1, InvTypes, StillOnward DEF Pending
      <3>3. AllOnward
        BY Zenon, <3>1, <3>2 DEF AllOnward, Mes
      <3>4. CountInv'
        BY Zenon, <3>1, RestCounts DEF CopyInv
      <3> QED  BY Zenon, <3>1, <3>3, <3>4, RestCopies
    <2> QED  BY Zenon, <2>2, <2>3
  <1>3. StreamInv /\ CopyInv => NoExtraCopies
    <2> SUFFICES ASSUME StreamInv, CopyInv, faults = 0,
                        NEW g \in Group, NEW m \in Msg
                 PROVE  seen[g][m] <= 1 + nacked[m]
      BY Zenon DEF NoExtraCopies
    <2>1. /\ seen[g][m] <= Cardinality(Done(g, m))
          /\ Cardinality(All(m)) <= 1 + nacked[m]
          /\ seen[g][m] \in Nat /\ nacked[m] \in Nat
      BY Zenon DEF CopyInv, CountInv, GivenInv, StreamInv, HistType
    <2>2. PICK l \in Nat : DOMAIN stream = 1 .. l
      BY Zenon, InvTypes
    <2>3. PICK S, T : S = Done(g, m) /\ T = All(m)
      OBVIOUS
    <2>4. S \in SUBSET T /\ T \in SUBSET (1 .. l)
      BY Zenon, <2>2, <2>3 DEF Done, All
    <2>5. /\ Cardinality(S) <= Cardinality(T)
          /\ Cardinality(S) \in Nat /\ Cardinality(T) \in Nat
      BY Zenon, <2>4, FewerPositions
    <2> QED  BY <2>1, <2>3, <2>5
  <1> QED  BY <1>1, <1>2, <1>3, StreamInvariant, PTL DEF Spec

=============================================================================
