---------------------------- MODULE TopicsProofs ----------------------------
(***************************************************************************)
(* What the delay scheduler's guard can stop, for any fleet, any topics    *)
(* and any number of system workers, crashes and failed sends.             *)
(***************************************************************************)
EXTENDS Topics, FiniteSetTheorems, TLAPS

-----------------------------------------------------------------------------
(* Sequences of requests: who waits, once each, and who before whom.       *)

Ent(q) == {q[i] : i \in DOMAIN q}

Once(q) == \A i, j \in DOMAIN q : q[i][1] = q[j][1] => i = j

Before(q, a, b) ==
  \E i, j \in DOMAIN q : i < j /\ q[i][1] = a /\ q[j][1] = b

(* A request joins the queue at its end.                                   *)
LEMMA Joins ==
  ASSUME NEW S, NEW q \in Seq(S), NEW r \in S
  PROVE  /\ Append(q, r) \in Seq(S)
         /\ Ent(Append(q, r)) = Ent(q) \cup {r}
         /\ \A a, b : Before(q, a, b) => Before(Append(q, r), a, b)
         /\ \A e \in Ent(q) : Before(Append(q, r), e[1], r[1])
         /\ (Once(q) /\ \A e \in Ent(q) : e[1] # r[1]) => Once(Append(q, r))
  <1> DEFINE p == Append(q, r)
             k == Len(q) + 1
  <1>1. /\ p \in Seq(S) /\ DOMAIN p = DOMAIN q \cup {k} /\ p[k] = r
        /\ \A i \in DOMAIN q : p[i] = q[i] /\ i < k
    OBVIOUS
  <1> HIDE DEF p, k
  <1>2. Ent(p) = Ent(q) \cup {r}
    BY ZenonT(60), <1>1 DEF Ent
  <1>3. \A a, b : Before(q, a, b) => Before(p, a, b)
    BY Zenon, <1>1 DEF Before
  <1>4. \A e \in Ent(q) : Before(p, e[1], r[1])
    BY Zenon, <1>1 DEF Before, Ent
  <1>5. (Once(q) /\ \A e \in Ent(q) : e[1] # r[1]) => Once(p)
    <2> SUFFICES ASSUME Once(q), \A e \in Ent(q) : e[1] # r[1],
                        NEW i \in DOMAIN p, NEW j \in DOMAIN p,
                        p[i][1] = p[j][1]
                 PROVE  i = j
      BY Zenon DEF Once
    <2>1. \A m \in DOMAIN q : q[m][1] # r[1]
      BY Zenon DEF Ent
    <2>2. CASE i \in DOMAIN q /\ j \in DOMAIN q
      <3>1. q[i][1] = q[j][1]
        BY Zenon, <1>1, <2>2
      <3> QED  BY Zenon, <2>2, <3>1 DEF Once
    <2> QED  BY Zenon, <1>1, <2>1, <2>2
  <1> QED  BY Zenon, <1>1, <1>2, <1>3, <1>4, <1>5 DEF p

(* p is q without the request of t.                                        *)
IsWithout(p, q, t) ==
  /\ Once(p) /\ Ent(p) = {e \in Ent(q) : e[1] # t}
  /\ \A a, b : a # t /\ b # t /\ Before(q, a, b) => Before(p, a, b)

(* The request at place i leaves the queue; the others stay in order.      *)
LEMMA Leaves ==
  ASSUME NEW n, NEW S, queue[n] \in Seq(S), Once(queue[n]),
         NEW i \in DOMAIN queue[n], NEW t, queue[n][i][1] = t
  PROVE  Leave(n, t) \in Seq(S) /\ IsWithout(Leave(n, t), queue[n], t)
  <1> DEFINE q == queue[n]
             Old(j) == IF j < i THEN j ELSE j + 1
             p == [j \in 1 .. (Len(q) - 1) |-> q[Old(j)]]
  <1>1. i = CHOOSE j \in DOMAIN q : q[j][1] = t
    BY Zenon DEF Once
  <1>2. Leave(n, t) = p
    BY Zenon, <1>1 DEF Leave
  <1>3. Len(q) \in Nat /\ DOMAIN q = 1 .. Len(q) /\ i \in 1 .. Len(q)
        /\ \A j \in DOMAIN q : q[j] \in S
    OBVIOUS
  <1>4. p \in Seq(S) /\ DOMAIN p = 1 .. (Len(q) - 1)
    <2>1. \A j \in 1 .. (Len(q) - 1) : Old(j) \in DOMAIN q
      BY <1>3
    <2> HIDE DEF Old
    <2>2. \A j \in 1 .. (Len(q) - 1) : q[Old(j)] \in S
      BY Zenon, <1>3, <2>1
    <2> QED  BY <1>3, <2>2
  <1>5. /\ \A j \in DOMAIN p : Old(j) \in DOMAIN q /\ Old(j) # i
        /\ \A j, k \in DOMAIN p : Old(j) = Old(k) => j = k
        /\ \A j, k \in DOMAIN p : Old(j) < Old(k) => j < k
        /\ \A j \in DOMAIN q : j # i => \E k \in DOMAIN p : Old(k) = j
    <2> HIDE DEF p
    <2>1. /\ \A j \in DOMAIN p : Old(j) \in DOMAIN q /\ Old(j) # i
          /\ \A j, k \in DOMAIN p : Old(j) = Old(k) => j = k
          /\ \A j, k \in DOMAIN p : Old(j) < Old(k) => j < k
      BY <1>3, <1>4
    <2>2. ASSUME NEW j \in DOMAIN q, j # i
          PROVE  \E k \in DOMAIN p : Old(k) = j
      <3>1. CASE j < i
        BY <1>3, <1>4, <3>1
      <3>2. CASE j > i
        <4>1. j - 1 \in DOMAIN p /\ Old(j - 1) = j
          BY <1>3, <1>4, <3>2
        <4> QED  BY Zenon, <4>1
      <3> QED  BY <1>3, <2>2, <3>1, <3>2
    <2> QED  BY Zenon, <2>1, <2>2
  <1>6. \A j \in DOMAIN p : p[j] = q[Old(j)]
    BY Zenon, <1>4
  <1> HIDE DEF Old, p
  <1>7. \A j \in DOMAIN q : j # i => q[j][1] # t
    BY Zenon DEF Once
  <1>8. Once(p)
    <2> SUFFICES ASSUME NEW j \in DOMAIN p, NEW k \in DOMAIN p,
                        p[j][1] = p[k][1]
                 PROVE  j = k
      BY Zenon DEF Once
    <2>1. q[Old(j)][1] = q[Old(k)][1] /\ Old(j) \in DOMAIN q
          /\ Old(k) \in DOMAIN q
      BY Zenon, <1>5, <1>6
    <2>2. Old(j) = Old(k)
      BY Zenon, <2>1 DEF Once
    <2> QED  BY Zenon, <1>5, <2>2
  <1>9. Ent(p) = {e \in Ent(q) : e[1] # t}
    <2>1. ASSUME NEW e \in Ent(p)
          PROVE  e \in Ent(q) /\ e[1] # t
      <3>1. PICK j \in DOMAIN p : e = q[Old(j)]
        BY Zenon, <1>6 DEF Ent
      <3> QED  BY Zenon, <1>5, <1>7, <3>1 DEF Ent
    <2>2. ASSUME NEW e \in Ent(q), e[1] # t
          PROVE  e \in Ent(p)
      <3>1. PICK j \in DOMAIN q : e = q[j]
        BY Zenon DEF Ent
      <3>2. j # i
        BY Zenon, <2>2, <3>1
      <3>3. PICK k \in DOMAIN p : Old(k) = j
        BY Zenon, <1>5, <3>2
      <3> QED  BY Zenon, <1>6, <3>1, <3>3 DEF Ent
    <2> QED  BY Zenon, <2>1, <2>2
  <1>10. ASSUME NEW a, NEW b, a # t, b # t, Before(q, a, b)
         PROVE  Before(p, a, b)
    <2>1. PICK j, k \in DOMAIN q : j < k /\ q[j][1] = a /\ q[k][1] = b
      BY Zenon, <1>10 DEF Before
    <2>2. j # i /\ k # i
      BY Zenon, <1>10, <2>1
    <2>3. PICK x \in DOMAIN p : Old(x) = j
      BY Zenon, <1>5, <2>2
    <2>4. PICK y \in DOMAIN p : Old(y) = k
      BY Zenon, <1>5, <2>2
    <2> QED  BY Zenon, <1>5, <1>6, <2>1, <2>3, <2>4 DEF Before
  <1> QED  BY Zenon, <1>2, <1>4, <1>8, <1>9, <1>10 DEF IsWithout

-----------------------------------------------------------------------------
(* The lock of one node.                                                   *)

Lane == queue \in [Node -> Seq(Request)] /\ \A n \in Node : Once(queue[n])

Keeps(n, t) ==
  \A a, b : a # t /\ b # t /\ Before(queue[n], a, b)
              => Before(queue'[n], a, b)

(* t has left the queue of n.                                              *)
Gone(n, t) ==
  /\ queue' \in [Node -> Seq(Request)] /\ Once(queue'[n]) /\ Keeps(n, t)
  /\ Ent(queue'[n]) = {e \in Ent(queue[n]) : e[1] # t}
  /\ \A m \in Node \ {n} : queue'[m] = queue[m]

(* t is the last in the queue of n, and nowhere else.                      *)
Last(n, t, mode) ==
  /\ queue' \in [Node -> Seq(Request)] /\ Once(queue'[n]) /\ Keeps(n, t)
  /\ Ent(queue'[n]) = {e \in Ent(queue[n]) : e[1] # t} \cup {<<t, mode>>}
  /\ \A e \in Ent(queue[n]) : e[1] # t => Before(queue'[n], e[1], t)
  /\ \A m \in Node \ {n} : queue'[m] = queue[m]

(* What a task that is served knows of the queue.                          *)
LEMMA ServedFacts ==
  ASSUME NEW n, NEW t, NEW mode \in {"read", "write"}, Served(n, t, mode)
  PROVE  /\ \E i \in DOMAIN queue[n] : queue[n][i][1] = t
         /\ <<t, mode>> \in Ent(queue[n])
  <1>1. PICK i \in DOMAIN queue[n] : queue[n][i] = <<t, mode>>
    BY Zenon DEF Served
  <1>2. queue[n][i][1] = t
    BY <1>1
  <1> QED  BY Zenon, <1>1, <1>2 DEF Ent

(* A task drops its guard.                                                 *)
LEMMA Dropped ==
  ASSUME Lane, NEW n \in Node, NEW t, Drop(n, t),
         NEW mode \in {"read", "write"}, Served(n, t, mode)
  PROVE  Gone(n, t)
  <1>1. PICK i \in DOMAIN queue[n] : queue[n][i][1] = t
    BY Zenon, ServedFacts
  <1>2. queue[n] \in Seq(Request) /\ Once(queue[n])
    BY Zenon DEF Lane
  <1> HIDE DEF Request
  <1>3. Leave(n, t) \in Seq(Request) /\ IsWithout(Leave(n, t), queue[n], t)
    BY Zenon, <1>1, <1>2, Leaves
  <1>4. /\ queue'[n] = Leave(n, t) /\ queue' \in [Node -> Seq(Request)]
        /\ \A m \in Node \ {n} : queue'[m] = queue[m]
    BY Zenon, <1>3 DEF Drop, Lane
  <1> QED  BY Zenon, <1>3, <1>4 DEF Gone, Keeps, IsWithout

(* A task drops its guard and asks for the next one.                       *)
LEMMA AskedAgain ==
  ASSUME Lane, NEW n \in Node, NEW t \in Task,
         NEW mode \in {"read", "write"}, Served(n, t, mode),
         NEW next \in {"read", "write"}, AskAgain(n, t, next)
  PROVE  Last(n, t, next)
  <1>1. PICK i \in DOMAIN queue[n] : queue[n][i][1] = t
    BY Zenon, ServedFacts
  <1>2. queue[n] \in Seq(Request) /\ Once(queue[n])
    BY Zenon DEF Lane
  <1> DEFINE q == Leave(n, t)
             r == <<t, next>>
  <1>3. r \in Request /\ r[1] = t
    BY DEF Request
  <1> HIDE DEF Request, r
  <1>4. q \in Seq(Request) /\ IsWithout(q, queue[n], t)
    BY Zenon, <1>1, <1>2, Leaves
  <1> HIDE DEF q
  <1>5. /\ Append(q, r) \in Seq(Request)
        /\ Ent(Append(q, r)) = Ent(q) \cup {r}
        /\ \A a, b : Before(q, a, b) => Before(Append(q, r), a, b)
        /\ \A e \in Ent(q) : Before(Append(q, r), e[1], r[1])
        /\ (Once(q) /\ \A e \in Ent(q) : e[1] # r[1]) => Once(Append(q, r))
    BY Zenon, <1>3, <1>4, Joins
  <1>6. /\ queue'[n] = Append(q, r) /\ queue' \in [Node -> Seq(Request)]
        /\ \A m \in Node \ {n} : queue'[m] = queue[m]
    BY Zenon, <1>5 DEF AskAgain, Lane, q, r
  <1>7. Once(queue'[n]) /\ Keeps(n, t)
    BY ZenonT(60), <1>3, <1>4, <1>5, <1>6 DEF Keeps, IsWithout
  <1>8. /\ Ent(queue'[n]) = {e \in Ent(queue[n]) : e[1] # t} \cup {r}
        /\ \A e \in Ent(queue[n]) : e[1] # t => Before(queue'[n], e[1], t)
    BY Zenon, <1>3, <1>4, <1>5, <1>6 DEF IsWithout
  <1> QED  BY Zenon, <1>6, <1>7, <1>8 DEF Last, r

(* A task that waits for nothing asks for a guard.                         *)
LEMMA Asked ==
  ASSUME Lane, NEW n \in Node, NEW t \in Task,
         NEW next \in {"read", "write"}, Ask(n, t, next),
         \A e \in Ent(queue[n]) : e[1] # t
  PROVE  Last(n, t, next)
  <1> DEFINE q == queue[n]
             r == <<t, next>>
  <1>1. q \in Seq(Request) /\ Once(q)
    BY Zenon DEF Lane
  <1>2. r \in Request /\ r[1] = t
    BY DEF Request
  <1> HIDE DEF Request, r
  <1>3. /\ Append(q, r) \in Seq(Request)
        /\ Ent(Append(q, r)) = Ent(q) \cup {r}
        /\ \A a, b : Before(q, a, b) => Before(Append(q, r), a, b)
        /\ \A e \in Ent(q) : Before(Append(q, r), e[1], r[1])
        /\ (Once(q) /\ \A e \in Ent(q) : e[1] # r[1]) => Once(Append(q, r))
    BY Zenon, <1>1, <1>2, Joins
  <1>4. /\ queue'[n] = Append(q, r) /\ queue' \in [Node -> Seq(Request)]
        /\ \A m \in Node \ {n} : queue'[m] = queue[m]
    BY Zenon, <1>3 DEF Ask, Lane, r
  <1>5. Once(queue'[n]) /\ Keeps(n, t)
    BY Zenon, <1>1, <1>2, <1>3, <1>4 DEF Keeps
  <1>6. /\ Ent(queue'[n]) = {e \in Ent(queue[n]) : e[1] # t} \cup {r}
        /\ \A e \in Ent(queue[n]) : e[1] # t => Before(queue'[n], e[1], t)
    BY Zenon, <1>2, <1>3, <1>4
  <1> QED  BY Zenon, <1>4, <1>5, <1>6 DEF Last, r

-----------------------------------------------------------------------------
(* Types.                                                                  *)

Job == [step : Step \cup {"idle"}, told : SUBSET Topic, topics : SUBSET Topic]

Types ==
  /\ phase \in [Node -> {"down", "handlers", "announce", "up"}]
  /\ left \in [Node -> SUBSET Topic] /\ topics \in [Node -> SUBSET Topic]
  /\ queue \in [Node -> Seq(Request)]
  /\ sched \in [Node -> BOOLEAN]
  /\ job \in [Node -> [Slot -> Job]]
  /\ collector \in [Node -> {"off", "collect", "send", "stopped"}]
  /\ disc \in Seq(SUBSET Topic) /\ sync \in [Node -> Seq(SUBSET Topic)]

(* A request fits what its task is doing.                                  *)
Fits(n, e) ==
  /\ e[1] = <<"boot">> => \/ e[2] = "write" /\ phase[n] = "handlers"
                          \/ e[2] = "read" /\ phase[n] = "announce"
  /\ e[1] = <<"scheduler">> => e[2] = "read" /\ phase[n] = "up"
  /\ e[1] = <<"collector">> => e[2] = "read" /\ collector[n] = "send"
  /\ \A s \in Slot : e[1] = Worker(s) =>
       /\ job[n][s].step # "idle"
       /\ e[2] = "write" <=> job[n][s].step = "write"

RequestInv(n) == Once(queue[n]) /\ \A e \in Ent(queue[n]) : Fits(n, e)

(* What boot has registered, and that it waits as long as it runs.         *)
BootInv(n) ==
  /\ left[n] \subseteq Declared[n] /\ Declared[n] \ left[n] \subseteq topics[n]
  /\ phase[n] \in {"announce", "up"} => left[n] = {}
  /\ phase[n] \in {"handlers", "announce"} =>
       \E e \in Ent(queue[n]) : e[1] = <<"boot">>
  /\ phase[n] = "down" => \A s \in Slot : job[n][s] = Idle
  /\ sched[n] => phase[n] = "up"

(* A merge of nothing but declared topics takes turns with boot and has no *)
(* more to register than boot has; one more if it is its turn.             *)
InTurn(n, s) ==
  LET boot == <<"boot">>
      mine == Cardinality(job[n][s].topics)
  IN  /\ job[n][s].topics \subseteq Declared[n] /\ job[n][s].topics # {}
      /\ phase[n] \in {"handlers", "announce"}
      /\ \/ Before(queue[n], boot, Worker(s)) /\ mine <= Cardinality(left[n])
         \/ Before(queue[n], Worker(s), boot) /\ mine <= Cardinality(left[n]) + 1

TurnInv(n) ==
  \A s \in Slot :
    /\ job[n][s].step = "list" => job[n][s].topics = job[n][s].told
    /\ job[n][s].step = "write" /\ job[n][s].told \subseteq Declared[n]
         => InTurn(n, s)

TopicsInv ==
  Types /\ \A n \in Node : RequestInv(n) /\ BootInv(n) /\ TurnInv(n)

(* The tasks that may wait for a lock are different from each other.       *)
LEMMA Tasks ==
  /\ <<"boot">> \in Task /\ <<"scheduler">> \in Task /\ <<"collector">> \in Task
  /\ <<"boot">> # <<"scheduler">> /\ <<"boot">> # <<"collector">>
  /\ <<"scheduler">> # <<"collector">>
  /\ \A s \in Slot : /\ Worker(s) \in Task /\ Worker(s) # <<"boot">>
                     /\ Worker(s) # <<"scheduler">>
                     /\ Worker(s) # <<"collector">>
  /\ \A s, r \in Slot : Worker(s) = Worker(r) => s = r
  <1>1. <<"boot">> # <<"scheduler">> /\ <<"boot">> # <<"collector">>
        /\ <<"scheduler">> # <<"collector">>
    OBVIOUS
  <1>2. \A s \in Slot : /\ Worker(s) # <<"boot">>
                        /\ Worker(s) # <<"scheduler">>
                        /\ Worker(s) # <<"collector">>
    BY DEF Worker
  <1>3. \A s, r \in Slot : Worker(s) = Worker(r) => s = r
    BY DEF Worker
  <1> QED  BY Zenon, <1>1, <1>2, <1>3 DEF Task

(* Before any node is started, nobody waits.                               *)
LEMMA InitTopics == Init => TopicsInv
  <1> SUFFICES ASSUME Init  PROVE TopicsInv
    OBVIOUS
  <1>1. Idle \in Job /\ Idle.step = "idle"
    BY DEF Idle, Job
  <1>2. << >> \in Seq(Request) /\ << >> \in Seq(SUBSET Topic)
        /\ Ent(<< >>) = {} /\ Once(<< >>)
    BY DEF Ent, Once
  <1>3. Types
    BY Zenon, <1>1, <1>2, TopicsAssumption DEF Init, Types
  <1>4. ASSUME NEW n \in Node
        PROVE  RequestInv(n) /\ BootInv(n) /\ TurnInv(n)
    <2>1. /\ phase[n] = "down" /\ left[n] = Declared[n] /\ topics[n] = {}
          /\ queue[n] = << >> /\ sched[n] = FALSE
          /\ \A s \in Slot : job[n][s] = Idle
      BY Zenon DEF Init
    <2>2. RequestInv(n)
      BY Zenon, <1>2, <2>1 DEF RequestInv
    <2>3. BootInv(n)
      <3>1. Declared[n] \ left[n] \subseteq topics[n]
        BY Zenon, <2>1
      <3> QED  BY <2>1, <3>1 DEF BootInv
    <2>4. TurnInv(n)
      BY <1>1, <2>1 DEF TurnInv
    <2> QED  BY Zenon, <2>2, <2>3, <2>4
  <1> QED  BY Zenon, <1>3, <1>4 DEF TopicsInv

-----------------------------------------------------------------------------
(* One lemma per kind of step.                                             *)

NodeInv(n) == RequestInv(n) /\ BootInv(n) /\ TurnInv(n)

(* Nothing happens on node m.                                              *)
Still(m) ==
  /\ phase'[m] = phase[m] /\ left'[m] = left[m] /\ topics'[m] = topics[m]
  /\ queue'[m] = queue[m] /\ sched'[m] = sched[m] /\ job'[m] = job[m]
  /\ collector'[m] = collector[m]

(* A node on which nothing happens keeps its invariant.                    *)
LEMMA StillKeeps ==
  ASSUME NEW m, NodeInv(m), Still(m)
  PROVE  NodeInv(m)'
  <1>1. RequestInv(m)'
    BY Zenon DEF NodeInv, RequestInv, Fits, Still
  <1>2. BootInv(m)'
    BY Zenon DEF NodeInv, BootInv, Still
  <1>3. \A s : InTurn(m, s) => InTurn(m, s)'
    BY Zenon DEF InTurn, Still
  <1>4. TurnInv(m)'
    BY Zenon, <1>3 DEF NodeInv, TurnInv, Still
  <1> QED  BY Zenon, <1>1, <1>2, <1>4 DEF NodeInv

(* A step of node n.                                                       *)
LEMMA NodeStep ==
  ASSUME TopicsInv, NEW n \in Node, Types', NodeInv(n)',
         \A m \in Node \ {n} : Still(m)
  PROVE  TopicsInv'
  <1>1. \A m \in Node : NodeInv(m)
    BY Zenon DEF TopicsInv, NodeInv
  <1>2. \A m \in Node : NodeInv(m)'
    BY Zenon, <1>1, StillKeeps
  <1> QED  BY Zenon, <1>2 DEF TopicsInv, NodeInv

(* System worker s of n has asked for a guard: the others are in order, it *)
(* has to be.                                                              *)
LEMMA WorkerMoves ==
  ASSUME TopicsInv, NEW n \in Node, NEW s \in Slot, NEW j \in Job,
         phase'[n] = phase[n], left'[n] = left[n], sched'[n] = sched[n],
         collector'[n] = collector[n], topics[n] \subseteq topics'[n],
         phase[n] # "down", job' = [job EXCEPT ![n][s] = j],
         NEW mode, Last(n, Worker(s), mode), j.step # "idle",
         mode = "write" <=> j.step = "write",
         j.step = "list" => j.topics = j.told,
         j.step = "write" /\ j.told \subseteq Declared[n] => InTurn(n, s)'
  PROVE  NodeInv(n)'
  <1>1. /\ job'[n][s] = j /\ \A r \in Slot \ {s} : job'[n][r] = job[n][r]
    BY Zenon DEF TopicsInv, Types
  <1>2. RequestInv(n) /\ BootInv(n) /\ TurnInv(n)
    BY Zenon DEF TopicsInv
  <1>3. <<Worker(s), mode>>[1] = Worker(s) /\ <<Worker(s), mode>>[2] = mode
    OBVIOUS
  <1>4. ASSUME NEW e \in Ent(queue'[n])
        PROVE  Fits(n, e)'
    <2>1. CASE e = <<Worker(s), mode>>
      BY Zenon, <1>1, <1>3, <2>1, Tasks DEF Fits
    <2>2. CASE e \in Ent(queue[n]) /\ e[1] # Worker(s)
      <3>1. Fits(n, e)
        BY Zenon, <1>2, <2>2 DEF RequestInv
      <3> QED  BY ZenonT(60), <1>1, <2>2, <3>1 DEF Fits
    <2>3. e \in {d \in Ent(queue[n]) : d[1] # Worker(s)}
                  \cup {<<Worker(s), mode>>}
      BY Zenon DEF Last
    <2> QED  BY Zenon, <2>1, <2>2, <2>3
  <1>5. RequestInv(n)'
    BY Zenon, <1>4 DEF RequestInv, Last
  <1>6. BootInv(n)'
    <2>1. Declared[n] \ left'[n] \subseteq topics'[n]
      BY Zenon, <1>2 DEF BootInv
    <2>2. \A e \in Ent(queue[n]) : e[1] = <<"boot">> => e \in Ent(queue'[n])
      BY Zenon, Tasks DEF Last
    <2> QED  BY Zenon, <1>2, <2>1, <2>2 DEF BootInv
  <1>7. ASSUME NEW r \in Slot, r # s, InTurn(n, r)
        PROVE  InTurn(n, r)'
    <2>1. /\ Before(queue[n], <<"boot">>, Worker(r))
               => Before(queue'[n], <<"boot">>, Worker(r))
          /\ Before(queue[n], Worker(r), <<"boot">>)
               => Before(queue'[n], Worker(r), <<"boot">>)
      BY Zenon, <1>7, Tasks DEF Last, Keeps
    <2> QED  BY Zenon, <1>1, <1>7, <2>1 DEF InTurn
  <1>8. TurnInv(n)'
    <2> SUFFICES ASSUME NEW r \in Slot
                 PROVE  /\ job'[n][r].step = "list"
                             => job'[n][r].topics = job'[n][r].told
                        /\ job'[n][r].step = "write"
                             /\ job'[n][r].told \subseteq Declared[n]
                             => InTurn(n, r)'
      BY Zenon DEF TurnInv
    <2>1. CASE r = s
      BY Zenon, <1>1, <2>1
    <2>2. CASE r # s
      BY Zenon, <1>1, <1>2, <1>7, <2>2 DEF TurnInv
    <2> QED  BY Zenon, <2>1, <2>2
  <1> QED  BY Zenon, <1>5, <1>6, <1>8 DEF NodeInv

(* System worker s of n is done.                                           *)
LEMMA WorkerRests ==
  ASSUME TopicsInv, NEW n \in Node, NEW s \in Slot,
         phase'[n] = phase[n], left'[n] = left[n], sched'[n] = sched[n],
         collector'[n] = collector[n], topics[n] \subseteq topics'[n],
         phase[n] # "down", job' = [job EXCEPT ![n][s] = Idle],
         Gone(n, Worker(s))
  PROVE  NodeInv(n)'
  <1>1. /\ job'[n][s] = Idle /\ \A r \in Slot \ {s} : job'[n][r] = job[n][r]
    BY Zenon DEF TopicsInv, Types
  <1>2. RequestInv(n) /\ BootInv(n) /\ TurnInv(n)
    BY Zenon DEF TopicsInv
  <1>3. Idle.step = "idle"
    BY DEF Idle
  <1>4. ASSUME NEW e \in Ent(queue'[n])
        PROVE  Fits(n, e)'
    <2>1. e \in Ent(queue[n]) /\ e[1] # Worker(s)
      BY Zenon DEF Gone
    <2>2. Fits(n, e)
      BY Zenon, <1>2, <2>1 DEF RequestInv
    <2> QED  BY ZenonT(60), <1>1, <2>1, <2>2 DEF Fits
  <1>5. RequestInv(n)'
    BY Zenon, <1>4 DEF RequestInv, Gone
  <1>6. BootInv(n)'
    <2>1. Declared[n] \ left'[n] \subseteq topics'[n]
      BY Zenon, <1>2 DEF BootInv
    <2>2. \A e \in Ent(queue[n]) : e[1] = <<"boot">> => e \in Ent(queue'[n])
      BY Zenon, Tasks DEF Gone
    <2> QED  BY Zenon, <1>2, <2>1, <2>2 DEF BootInv
  <1>7. ASSUME NEW r \in Slot, r # s, InTurn(n, r)
        PROVE  InTurn(n, r)'
    <2>1. /\ Before(queue[n], <<"boot">>, Worker(r))
               => Before(queue'[n], <<"boot">>, Worker(r))
          /\ Before(queue[n], Worker(r), <<"boot">>)
               => Before(queue'[n], Worker(r), <<"boot">>)
      BY Zenon, <1>7, Tasks DEF Gone, Keeps
    <2> QED  BY Zenon, <1>1, <1>7, <2>1 DEF InTurn
  <1>8. TurnInv(n)'
    <2> SUFFICES ASSUME NEW r \in Slot
                 PROVE  /\ job'[n][r].step = "list"
                             => job'[n][r].topics = job'[n][r].told
                        /\ job'[n][r].step = "write"
                             /\ job'[n][r].told \subseteq Declared[n]
                             => InTurn(n, r)'
      BY Zenon DEF TurnInv
    <2>1. CASE r = s
      BY <1>1, <1>3, <2>1
    <2>2. CASE r # s
      BY Zenon, <1>1, <1>2, <1>7, <2>2 DEF TurnInv
    <2> QED  BY Zenon, <2>1, <2>2
  <1> QED  BY Zenon, <1>5, <1>6, <1>8 DEF NodeInv

(* The queues of the locks, as the lemmas on them need them.               *)
LEMMA LaneHolds == TopicsInv => Lane
  BY Zenon DEF TopicsInv, Types, RequestInv, Lane

(* start_system_impl begins.                                               *)
LEMMA StartStep ==
  ASSUME TopicsInv, NEW n \in Node, Start(n)
  PROVE  TopicsInv'
  <1> DEFINE rest == Declared[n]
             mode == IF rest # {} THEN "write" ELSE "read"
             r == <<<<"boot">>, mode>>
  <1>1. phase[n] = "down" /\ BootInv(n) /\ RequestInv(n) /\ Types
    BY Zenon DEF Start, TopicsInv
  <1>2. /\ left' = [left EXCEPT ![n] = rest]
        /\ phase' = [phase EXCEPT ![n] =
                       IF rest # {} THEN "handlers" ELSE "announce"]
        /\ queue' = [queue EXCEPT ![n] = Append(<< >>, r)]
        /\ collector' = [collector EXCEPT ![n] = "collect"]
        /\ UNCHANGED <<topics, sched, job, disc, sync>>
    BY Zenon DEF Start, GoOn
  <1>3. mode \in {"read", "write"} /\ r \in Request
        /\ r[1] = <<"boot">> /\ r[2] = mode
    BY Zenon, Tasks DEF Request
  <1>4. /\ Append(<< >>, r) \in Seq(Request)
        /\ Ent(Append(<< >>, r)) = {r} /\ Once(Append(<< >>, r))
    <2> HIDE DEF r, Request
    <2> DEFINE q == Append(<< >>, r)
    <2>1. q \in Seq(Request) /\ DOMAIN q = {1} /\ q[1] = r
      BY <1>3
    <2> HIDE DEF q
    <2>2. Ent(q) = {r} /\ Once(q)
      BY Zenon, <2>1 DEF Ent, Once
    <2> QED  BY Zenon, <2>1, <2>2 DEF q
  <1> HIDE DEF r
  <1>5. rest \in SUBSET Topic
    BY Zenon, TopicsAssumption
  <1>6. Types'
    BY Zenon, <1>1, <1>2, <1>4, <1>5 DEF Types
  <1>7. /\ left'[n] = rest /\ queue'[n] = Append(<< >>, r)
        /\ phase'[n] = (IF rest # {} THEN "handlers" ELSE "announce")
        /\ topics'[n] = topics[n] /\ sched'[n] = sched[n]
        /\ job'[n] = job[n]
    BY Zenon, <1>1, <1>2 DEF Types
  <1>8. \A s \in Slot : job'[n][s] = Idle
    BY Zenon, <1>1, <1>7 DEF BootInv
  <1>9. RequestInv(n)'
    <2>1. ASSUME NEW e \in Ent(queue'[n])
          PROVE  Fits(n, e)'
      <3>1. e[1] = <<"boot">> /\ e[2] = mode
        BY Zenon, <1>3, <1>4, <1>7
      <3>2. \/ e[2] = "write" /\ phase'[n] = "handlers"
            \/ e[2] = "read" /\ phase'[n] = "announce"
        BY Zenon, <1>7, <3>1
      <3> QED  BY Zenon, <3>1, <3>2, Tasks DEF Fits
    <2> QED  BY Zenon, <1>4, <1>7, <2>1 DEF RequestInv
  <1>10. BootInv(n)'
    <2>1. left'[n] \subseteq Declared[n]
          /\ Declared[n] \ left'[n] \subseteq topics'[n]
      BY Zenon, <1>7
    <2>2. sched'[n] => FALSE
      BY <1>1, <1>7 DEF BootInv
    <2>3. \E e \in Ent(queue'[n]) : e[1] = <<"boot">>
      BY Zenon, <1>3, <1>4, <1>7
    <2>4. /\ phase'[n] \in {"announce", "up"} => left'[n] = {}
          /\ phase'[n] # "down"
      BY <1>7
    <2> QED  BY Zenon, <2>1, <2>2, <2>3, <2>4 DEF BootInv
  <1>11. TurnInv(n)'
    <2>1. Idle.step = "idle"
      BY DEF Idle
    <2> QED  BY <1>8, <2>1 DEF TurnInv
  <1>12. \A m \in Node \ {n} : Still(m)
    BY Zenon, <1>1, <1>2 DEF Still, Types
  <1>13. NodeInv(n)'
    BY Zenon, <1>9, <1>10, <1>11 DEF NodeInv
  <1> QED  BY Zenon, <1>6, <1>12, <1>13, NodeStep

(* Who is first in the queue waits behind nobody.                          *)
LEMMA FirstInLine ==
  ASSUME TopicsInv, NEW n \in Node, NEW t, Served(n, t, "write")
  PROVE  \A a : ~Before(queue[n], a, t)
  <1>1. Once(queue[n]) /\ queue[n] \in Seq(Request)
    BY Zenon DEF TopicsInv, RequestInv, Types
  <1>2. 1 \in DOMAIN queue[n] /\ queue[n][1] = <<t, "write">>
    BY Zenon DEF Served
  <1>3. queue[n][1][1] = t
    BY <1>2
  <1> SUFFICES ASSUME NEW a, NEW i \in DOMAIN queue[n], NEW k \in DOMAIN queue[n],
                      i < k, queue[n][k][1] = t
               PROVE  FALSE
    BY Zenon DEF Before
  <1>4. k = 1
    BY Zenon, <1>1, <1>2, <1>3 DEF Once
  <1>5. DOMAIN queue[n] = 1 .. Len(queue[n]) /\ Len(queue[n]) \in Nat
    BY <1>1
  <1> QED  BY <1>4, <1>5

(* Sizes of the sets boot and the merges work off.                         *)
LEMMA Counts ==
  ASSUME NEW n \in Node
  PROVE  /\ \A S : S \subseteq Declared[n] => Cardinality(S) \in Nat
         /\ \A S, R : S \subseteq R /\ R \subseteq Declared[n]
                        => Cardinality(S) <= Cardinality(R)
         /\ \A S : S \subseteq Declared[n] => \A t \in S :
              Cardinality(S) = Cardinality(S \ {t}) + 1
         /\ \A S : S \subseteq Declared[n] /\ S # {} => Cardinality(S) >= 1
         /\ Cardinality({}) = 0
  <1>1. \A S : S \subseteq Declared[n] => IsFiniteSet(S)
    BY Zenon, TopicsAssumption, FS_Subset
  <1>2. \A S : S \subseteq Declared[n] => Cardinality(S) \in Nat
    BY Zenon, <1>1, FS_CardinalityType
  <1>3. \A S, R : S \subseteq R /\ R \subseteq Declared[n]
                    => Cardinality(S) <= Cardinality(R)
    BY Zenon, <1>1, FS_Subset
  <1>4. ASSUME NEW S, S \subseteq Declared[n], NEW t \in S
        PROVE  Cardinality(S) = Cardinality(S \ {t}) + 1
    <2>1. IsFiniteSet(S) /\ S \ {t} \subseteq Declared[n]
      BY Zenon, <1>1, <1>4
    <2>2. Cardinality(S \ {t}) = Cardinality(S) - 1
      BY Zenon, <2>1, FS_RemoveElement
    <2>3. Cardinality(S) \in Nat /\ Cardinality(S \ {t}) \in Nat
      BY Zenon, <1>2, <1>4, <2>1
    <2> QED  BY <2>2, <2>3
  <1>5. ASSUME NEW S, S \subseteq Declared[n], S # {}
        PROVE  Cardinality(S) >= 1
    <2>1. PICK t : t \in S
      BY Zenon, <1>5
    <2>2. S \ {t} \subseteq Declared[n]
      BY Zenon, <1>5
    <2>3. /\ Cardinality(S \ {t}) \in Nat
          /\ Cardinality(S) = Cardinality(S \ {t}) + 1
      BY Zenon, <1>2, <1>4, <1>5, <2>1, <2>2
    <2> QED  BY <2>3
  <1> QED  BY Zenon, <1>2, <1>3, <1>4, <1>5, FS_EmptySet

(* boot registers one of its topics.                                       *)
LEMMA RegisterStep ==
  ASSUME TopicsInv, NEW n \in Node, Register(n)
  PROVE  TopicsInv'
  <1> DEFINE boot == <<"boot">>
  <1>1. PICK t \in left[n] :
          /\ topics' = [topics EXCEPT ![n] = @ \cup {t}]
          /\ GoOn(n, left[n] \ {t}, Leave(n, boot))
    BY Zenon DEF Register
  <1> DEFINE rest == left[n] \ {t}
             mode == IF rest # {} THEN "write" ELSE "read"
  <1>2. /\ Served(n, boot, "write") /\ Types /\ RequestInv(n) /\ BootInv(n)
        /\ TurnInv(n) /\ UNCHANGED <<sched, job, collector, disc, sync>>
    BY Zenon DEF Register, TopicsInv
  <1>3. /\ left' = [left EXCEPT ![n] = rest]
        /\ phase' = [phase EXCEPT ![n] =
                       IF rest # {} THEN "handlers" ELSE "announce"]
        /\ AskAgain(n, boot, mode)
    BY Zenon, <1>1 DEF GoOn, AskAgain
  <1>4. mode \in {"read", "write"}
    BY Zenon
  <1>5. Last(n, boot, mode)
    BY Zenon, <1>2, <1>3, <1>4, LaneHolds, AskedAgain, Tasks
  <1>6. phase[n] = "handlers"
    <2>1. <<boot, "write">> \in Ent(queue[n])
      BY Zenon, <1>2, ServedFacts
    <2>2. <<boot, "write">>[1] = boot /\ <<boot, "write">>[2] = "write"
      OBVIOUS
    <2>3. Fits(n, <<boot, "write">>)
      BY Zenon, <1>2, <2>1 DEF RequestInv
    <2> QED  BY <2>2, <2>3 DEF Fits
  <1>7. t \in Topic /\ rest \in SUBSET Topic
    BY Zenon, <1>2 DEF Types
  <1>8. Types'
    <2>1. topics' \in [Node -> SUBSET Topic]
      BY Zenon, <1>1, <1>2, <1>7 DEF Types
    <2> QED  BY Zenon, <1>2, <1>3, <1>5, <1>7, <2>1 DEF Types, Last
  <1>9. /\ left'[n] = rest /\ topics'[n] = topics[n] \cup {t}
        /\ phase'[n] = (IF rest # {} THEN "handlers" ELSE "announce")
        /\ sched'[n] = sched[n] /\ job'[n] = job[n]
        /\ collector'[n] = collector[n]
    BY Zenon, <1>1, <1>2, <1>3 DEF Types
  <1>10. RequestInv(n)'
    <2>1. ASSUME NEW e \in Ent(queue'[n])
          PROVE  Fits(n, e)'
      <3>1. CASE e = <<boot, mode>>
        <4>1. e[1] = boot /\ e[2] = mode
          BY <3>1
        <4> QED  BY Zenon, <1>9, <4>1, Tasks DEF Fits
      <3>2. CASE e \in Ent(queue[n]) /\ e[1] # boot
        <4>1. Fits(n, e)
          BY Zenon, <1>2, <3>2 DEF RequestInv
        <4>2. e[1] # <<"scheduler">>
          BY <1>6, <4>1 DEF Fits
        <4> QED  BY Zenon, <1>9, <3>2, <4>1, <4>2 DEF Fits
      <3>3. e \in {d \in Ent(queue[n]) : d[1] # boot} \cup {<<boot, mode>>}
        BY Zenon, <1>5 DEF Last
      <3> QED  BY Zenon, <3>1, <3>2, <3>3
    <2> QED  BY Zenon, <1>5, <2>1 DEF RequestInv, Last
  <1>11. BootInv(n)'
    <2>1. left'[n] \subseteq Declared[n]
          /\ Declared[n] \ left'[n] \subseteq topics'[n]
      BY Zenon, <1>2, <1>9 DEF BootInv
    <2>2. <<boot, mode>> \in Ent(queue'[n]) /\ <<boot, mode>>[1] = boot
      BY Zenon, <1>5 DEF Last
    <2>3. /\ phase'[n] \in {"announce", "up"} => left'[n] = {}
          /\ phase'[n] # "down"
      BY <1>9
    <2>4. ~sched'[n]
      BY <1>2, <1>6, <1>9 DEF BootInv
    <2> QED  BY Zenon, <2>1, <2>2, <2>3, <2>4 DEF BootInv
  <1>12. ASSUME NEW s \in Slot, InTurn(n, s)
         PROVE  InTurn(n, s)'
    <2> DEFINE mine == Cardinality(job[n][s].topics)
    <2>1. /\ Before(queue[n], boot, Worker(s))
          /\ mine <= Cardinality(left[n])
      BY Zenon, <1>2, <1>12, FirstInLine DEF InTurn
    <2>2. \E e \in Ent(queue[n]) : e[1] = Worker(s)
      BY Zenon, <2>1 DEF Before, Ent
    <2>3. Before(queue'[n], Worker(s), boot)
      BY Zenon, <1>5, <2>2, Tasks DEF Last
    <2>4. left[n] \subseteq Declared[n] /\ rest \subseteq Declared[n]
      BY Zenon, <1>2 DEF BootInv
    <2>5. /\ Cardinality(left[n]) = Cardinality(left'[n]) + 1
          /\ Cardinality(left[n]) \in Nat /\ Cardinality(left'[n]) \in Nat
      <3>1. /\ \A S : S \subseteq Declared[n] => Cardinality(S) \in Nat
            /\ \A S : S \subseteq Declared[n] => \A x \in S :
                 Cardinality(S) = Cardinality(S \ {x}) + 1
        BY Zenon, Counts
      <3>2. /\ Cardinality(left[n]) = Cardinality(rest) + 1
            /\ Cardinality(left[n]) \in Nat /\ Cardinality(rest) \in Nat
        BY Zenon, <2>4, <3>1
      <3> QED  BY <1>9, <3>2
    <2>6. mine <= Cardinality(left'[n]) + 1
      BY Zenon, <2>1, <2>5
    <2>7. phase'[n] \in {"handlers", "announce"}
      BY <1>9
    <2> QED  BY Zenon, <1>9, <1>12, <2>3, <2>6, <2>7 DEF InTurn
  <1>13. TurnInv(n)'
    BY Zenon, <1>2, <1>9, <1>12 DEF TurnInv
  <1>14. \A m \in Node \ {n} : Still(m)
    BY Zenon, <1>1, <1>2, <1>3, <1>5 DEF Still, Types, Last
  <1>15. NodeInv(n)'
    BY Zenon, <1>10, <1>11, <1>13 DEF NodeInv
  <1> QED  BY Zenon, <1>8, <1>14, <1>15, NodeStep

(* boot's read guard: every merge of declared topics is over.              *)
LEMMA AnnounceStep ==
  ASSUME TopicsInv, NEW n \in Node, Announce(n)
  PROVE  TopicsInv'
  <1> DEFINE boot == <<"boot">>
  <1>1. /\ Served(n, boot, "read") /\ Types /\ RequestInv(n) /\ BootInv(n)
        /\ TurnInv(n) /\ phase' = [phase EXCEPT ![n] = "up"] /\ Drop(n, boot)
        /\ UNCHANGED <<left, topics, sched, job, collector, sync>>
    BY Zenon DEF Announce, TopicsInv
  <1>2. Gone(n, boot)
    BY Zenon, <1>1, LaneHolds, Dropped
  <1>3. phase[n] = "announce" /\ left[n] = {}
    <2>1. <<boot, "read">> \in Ent(queue[n])
      BY Zenon, <1>1, ServedFacts
    <2>2. <<boot, "read">>[1] = boot /\ <<boot, "read">>[2] = "read"
      OBVIOUS
    <2>3. Fits(n, <<boot, "read">>)
      BY Zenon, <1>1, <2>1 DEF RequestInv
    <2>4. phase[n] = "announce"
      BY <2>2, <2>3 DEF Fits
    <2> QED  BY <1>1, <2>4 DEF BootInv
  <1>4. ASSUME NEW s \in Slot, job[n][s].step = "write", InTurn(n, s)
        PROVE  FALSE
    <2>1. PICK i \in DOMAIN queue[n] :
            /\ queue[n][i] = <<boot, "read">>
            /\ \A j \in 1 .. (i - 1) : queue[n][j][2] = "read"
      BY Zenon, <1>1 DEF Served
    <2>2. queue[n] \in Seq(Request)
      BY Zenon, <1>1 DEF Types
    <2>3. ~Before(queue[n], Worker(s), boot)
      <3> SUFFICES ASSUME NEW j \in DOMAIN queue[n], NEW k \in DOMAIN queue[n],
                          j < k, queue[n][j][1] = Worker(s),
                          queue[n][k][1] = boot
                   PROVE  FALSE
        BY Zenon DEF Before
      <3>1. queue[n][i][1] = boot
        BY <2>1
      <3>2. k = i
        BY Zenon, <1>1, <2>1, <3>1 DEF RequestInv, Once
      <3>3. j \in 1 .. (i - 1)
        BY <2>2, <3>2
      <3>4. queue[n][j][2] = "read"
        BY Zenon, <2>1, <3>3
      <3>5. Fits(n, queue[n][j])
        BY Zenon, <1>1 DEF RequestInv, Ent
      <3> QED  BY <1>4, <3>4, <3>5 DEF Fits
    <2>4. /\ job[n][s].topics \subseteq Declared[n] /\ job[n][s].topics # {}
          /\ Cardinality(job[n][s].topics) <= Cardinality(left[n])
      BY Zenon, <1>4, <2>3 DEF InTurn
    <2>5. /\ \A S : S \subseteq Declared[n] /\ S # {} => Cardinality(S) >= 1
          /\ \A S : S \subseteq Declared[n] => Cardinality(S) \in Nat
          /\ Cardinality({}) = 0
      BY Zenon, Counts
    <2>6. Cardinality(job[n][s].topics) >= 1
          /\ Cardinality(job[n][s].topics) \in Nat
      BY Zenon, <2>4, <2>5
    <2> QED  BY <1>3, <2>4, <2>5, <2>6
  <1>5. disc' \in Seq(SUBSET Topic)
    <2>1. disc \in Seq(SUBSET Topic) /\ topics[n] \in SUBSET Topic
      BY Zenon, <1>1 DEF Types
    <2>2. Append(disc, topics[n]) \in Seq(SUBSET Topic)
      BY <2>1
    <2> QED  BY Zenon, <2>1, <2>2 DEF Announce
  <1>6. Types'
    BY Zenon, <1>1, <1>2, <1>5 DEF Types, Gone
  <1>7. /\ phase'[n] = "up" /\ left'[n] = left[n] /\ topics'[n] = topics[n]
        /\ sched'[n] = sched[n] /\ job'[n] = job[n]
        /\ collector'[n] = collector[n]
    BY Zenon, <1>1 DEF Types
  <1>8. RequestInv(n)'
    <2>1. ASSUME NEW e \in Ent(queue'[n])
          PROVE  Fits(n, e)'
      <3>1. e \in Ent(queue[n]) /\ e[1] # boot
        BY Zenon, <1>2 DEF Gone
      <3>2. Fits(n, e)
        BY Zenon, <1>1, <3>1 DEF RequestInv
      <3>3. e[1] # <<"scheduler">>
        BY <1>3, <3>2 DEF Fits
      <3> QED  BY Zenon, <1>7, <3>1, <3>2, <3>3 DEF Fits
    <2> QED  BY Zenon, <1>2, <2>1 DEF RequestInv, Gone
  <1>9. BootInv(n)'
    BY <1>1, <1>3, <1>7 DEF BootInv
  <1>10. TurnInv(n)'
    BY Zenon, <1>1, <1>4, <1>7 DEF TurnInv
  <1>11. \A m \in Node \ {n} : Still(m)
    BY Zenon, <1>1, <1>2 DEF Still, Types, Gone
  <1>12. NodeInv(n)'
    BY Zenon, <1>8, <1>9, <1>10 DEF NodeInv
  <1> QED  BY Zenon, <1>6, <1>11, <1>12, NodeStep

(* A step of the scheduler or of the collector: t asks or leaves.          *)
LEMMA SenderMoves ==
  ASSUME TopicsInv, NEW n \in Node,
         NEW t \in {<<"scheduler">>, <<"collector">>},
         phase'[n] = phase[n], left'[n] = left[n], topics'[n] = topics[n],
         job'[n] = job[n], sched'[n] => phase[n] = "up",
         t # <<"collector">> => collector'[n] = collector[n],
         Once(queue'[n]), Keeps(n, t),
         \A e \in Ent(queue[n]) : e[1] # t => e \in Ent(queue'[n]),
         \A e \in Ent(queue'[n]) : \/ e \in Ent(queue[n]) /\ e[1] # t
                                   \/ Fits(n, e)'
  PROVE  NodeInv(n)'
  <1>1. RequestInv(n) /\ BootInv(n) /\ TurnInv(n)
    BY Zenon DEF TopicsInv
  <1>2. ASSUME NEW e \in Ent(queue[n]), e[1] # t
        PROVE  Fits(n, e)'
    <2>1. Fits(n, e)
      BY Zenon, <1>1 DEF RequestInv
    <2> QED  BY Zenon, <1>2, <2>1 DEF Fits
  <1>3. RequestInv(n)'
    BY Zenon, <1>2 DEF RequestInv
  <1>4. t # <<"boot">> /\ \A s \in Slot : t # Worker(s)
    BY Zenon, Tasks
  <1>5. BootInv(n)'
    BY Zenon, <1>1, <1>4 DEF BootInv
  <1>6. ASSUME NEW s \in Slot, InTurn(n, s)
        PROVE  InTurn(n, s)'
    <2>1. /\ Before(queue[n], <<"boot">>, Worker(s))
               => Before(queue'[n], <<"boot">>, Worker(s))
          /\ Before(queue[n], Worker(s), <<"boot">>)
               => Before(queue'[n], Worker(s), <<"boot">>)
      BY Zenon, <1>4 DEF Keeps
    <2> QED  BY Zenon, <1>6, <2>1 DEF InTurn
  <1>7. TurnInv(n)'
    BY Zenon, <1>1, <1>6 DEF TurnInv
  <1> QED  BY Zenon, <1>3, <1>5, <1>7 DEF NodeInv

(* The scheduler asks for its guard and gets it.                           *)
LEMMA SchedulerStep ==
  ASSUME TopicsInv, NEW n \in Node, Scheduler(n)
  PROVE  TopicsInv'
  <1> DEFINE t == <<"scheduler">>
  <1>1. Types /\ RequestInv(n) /\ BootInv(n)
    BY Zenon DEF TopicsInv
  <1>2. t \in Task /\ t # <<"boot">> /\ t # <<"collector">>
        /\ \A s \in Slot : t # Worker(s)
    BY Zenon, Tasks
  <1>3. CASE AskSchedule(n)
    <2>1. /\ phase[n] = "up" /\ ~sched[n] /\ ~Waits(n, t, "read")
          /\ Ask(n, t, "read")
          /\ UNCHANGED <<phase, left, topics, sched, job, collector, disc, sync>>
      BY Zenon, <1>3 DEF AskSchedule, Schedules
    <2>2. ASSUME NEW e \in Ent(queue[n]), e[1] = t  PROVE FALSE
      <3>1. e[2] = "read"
        BY Zenon, <1>1, <2>2 DEF RequestInv, Fits
      <3>2. queue[n] \in Seq(Request)
        BY Zenon, <1>1 DEF Types
      <3>3. e \in Request
        BY <3>2 DEF Ent
      <3>4. e = <<t, "read">>
        BY <2>2, <3>1, <3>3 DEF Request
      <3> QED  BY Zenon, <2>1, <3>4 DEF Waits, Ent
    <2>3. Last(n, t, "read")
      BY Zenon, <1>2, <2>1, <2>2, LaneHolds, Asked
    <2>4. ASSUME NEW e \in Ent(queue'[n])
          PROVE  (e \in Ent(queue[n]) /\ e[1] # t) \/ Fits(n, e)'
      <3>1. e \in {d \in Ent(queue[n]) : d[1] # t} \cup {<<t, "read">>}
        BY Zenon, <2>3 DEF Last
      <3>2. CASE e = <<t, "read">>
        <4>1. e[1] = t /\ e[2] = "read"
          BY <3>2
        <4> QED  BY Zenon, <1>2, <2>1, <4>1 DEF Fits
      <3> QED  BY Zenon, <3>1, <3>2
    <2>5. \A e \in Ent(queue[n]) : e[1] # t => e \in Ent(queue'[n])
      BY Zenon, <2>3 DEF Last
    <2>6. NodeInv(n)'
      BY Zenon, <2>1, <2>3, <2>4, <2>5, SenderMoves DEF Last
    <2>7. Types'
      BY Zenon, <1>1, <2>1, <2>3 DEF Types, Last
    <2>8. \A m \in Node \ {n} : Still(m)
      BY Zenon, <1>1, <2>1, <2>3 DEF Still, Types, Last
    <2> QED  BY Zenon, <2>6, <2>7, <2>8, NodeStep
  <1>4. CASE RunScheduler(n)
    <2>1. /\ Served(n, t, "read") /\ sched' = [sched EXCEPT ![n] = TRUE]
          /\ Drop(n, t)
          /\ UNCHANGED <<phase, left, topics, job, collector, disc, sync>>
      BY Zenon, <1>4 DEF RunScheduler
    <2>2. Gone(n, t)
      BY Zenon, <2>1, LaneHolds, Dropped
    <2>3. phase[n] = "up"
      <3>1. <<t, "read">> \in Ent(queue[n])
        BY Zenon, <2>1, ServedFacts
      <3>2. <<t, "read">>[1] = t
        OBVIOUS
      <3> QED  BY Zenon, <1>1, <3>1, <3>2 DEF RequestInv, Fits
    <2>4. \A e \in Ent(queue'[n]) : e \in Ent(queue[n]) /\ e[1] # t
      BY Zenon, <2>2 DEF Gone
    <2>5. \A e \in Ent(queue[n]) : e[1] # t => e \in Ent(queue'[n])
      BY Zenon, <2>2 DEF Gone
    <2>6. NodeInv(n)'
      BY Zenon, <2>1, <2>2, <2>3, <2>4, <2>5, SenderMoves DEF Gone
    <2>7. Types'
      BY Zenon, <1>1, <2>1, <2>2 DEF Types, Gone
    <2>8. \A m \in Node \ {n} : Still(m)
      BY Zenon, <1>1, <2>1, <2>2 DEF Still, Types, Gone
    <2> QED  BY Zenon, <2>6, <2>7, <2>8, NodeStep
  <1> QED  BY Zenon, <1>3, <1>4 DEF Scheduler

(* The collector asks for a guard and publishes its sample.                *)
LEMMA CollectorStep ==
  ASSUME TopicsInv, NEW n \in Node, Collector(n)
  PROVE  TopicsInv'
  <1> DEFINE t == <<"collector">>
  <1>1. Types /\ RequestInv(n) /\ BootInv(n)
    BY Zenon DEF TopicsInv
  <1>2. t \in Task /\ t # <<"boot">> /\ t # <<"scheduler">>
        /\ \A s \in Slot : t # Worker(s)
    BY Zenon, Tasks
  <1>3. CASE Collect(n)
    <2>1. /\ collector[n] = "collect" /\ Ask(n, t, "read")
          /\ collector' = [collector EXCEPT ![n] = "send"]
          /\ UNCHANGED <<phase, left, topics, sched, job, disc, sync>>
      BY Zenon, <1>3 DEF Collect
    <2>2. \A e \in Ent(queue[n]) : e[1] # t
      BY <1>1, <2>1 DEF RequestInv, Fits
    <2>3. Last(n, t, "read")
      BY Zenon, <1>2, <2>1, <2>2, LaneHolds, Asked
    <2>4. collector'[n] = "send"
      BY Zenon, <1>1, <2>1 DEF Types
    <2>5. ASSUME NEW e \in Ent(queue'[n])
          PROVE  (e \in Ent(queue[n]) /\ e[1] # t) \/ Fits(n, e)'
      <3>1. e \in {d \in Ent(queue[n]) : d[1] # t} \cup {<<t, "read">>}
        BY Zenon, <2>3 DEF Last
      <3>2. CASE e = <<t, "read">>
        <4>1. e[1] = t /\ e[2] = "read"
          BY <3>2
        <4> QED  BY Zenon, <1>2, <2>4, <4>1 DEF Fits
      <3> QED  BY Zenon, <3>1, <3>2
    <2>6. \A e \in Ent(queue[n]) : e[1] # t => e \in Ent(queue'[n])
      BY Zenon, <2>3 DEF Last
    <2>7. NodeInv(n)'
      BY Zenon, <1>1, <2>1, <2>3, <2>5, <2>6, SenderMoves DEF Last, BootInv
    <2>8. Types'
      BY Zenon, <1>1, <2>1, <2>3 DEF Types, Last
    <2>9. \A m \in Node \ {n} : Still(m)
      BY Zenon, <1>1, <2>1, <2>3 DEF Still, Types, Last
    <2> QED  BY Zenon, <2>7, <2>8, <2>9, NodeStep
  <1>4. CASE Publish(n)
    <2>1. PICK c \in {"collect", "stopped"} :
            /\ Served(n, t, "read") /\ Drop(n, t)
            /\ collector' = [collector EXCEPT ![n] = c]
            /\ UNCHANGED <<phase, left, topics, sched, job, disc, sync>>
      BY Zenon, <1>4 DEF Publish
    <2>2. Gone(n, t)
      BY Zenon, <2>1, LaneHolds, Dropped
    <2>3. \A e \in Ent(queue'[n]) : e \in Ent(queue[n]) /\ e[1] # t
      BY Zenon, <2>2 DEF Gone
    <2>4. \A e \in Ent(queue[n]) : e[1] # t => e \in Ent(queue'[n])
      BY Zenon, <2>2 DEF Gone
    <2>5. NodeInv(n)'
      BY Zenon, <1>1, <2>1, <2>2, <2>3, <2>4, SenderMoves DEF Gone, BootInv
    <2>6. Types'
      BY Zenon, <1>1, <2>1, <2>2 DEF Types, Gone
    <2>7. \A m \in Node \ {n} : Still(m)
      BY Zenon, <1>1, <2>1, <2>2 DEF Still, Types, Gone
    <2> QED  BY Zenon, <2>5, <2>6, <2>7, NodeStep
  <1> QED  BY Zenon, <1>3, <1>4 DEF Collector

(* A system worker takes a message.                                        *)
LEMMA BeginStep ==
  ASSUME TopicsInv, NEW n \in Node, NEW s \in Slot, NEW told \in SUBSET Topic,
         Begin(n, s, told),
         disc' \in Seq(SUBSET Topic), sync' \in [Node -> Seq(SUBSET Topic)],
         UNCHANGED <<phase, left, topics, sched, collector>>
  PROVE  TopicsInv'
  <1> DEFINE j == [step |-> "list", told |-> told, topics |-> told]
  <1>1. Types /\ RequestInv(n)
    BY Zenon DEF TopicsInv
  <1>2. /\ phase[n] # "down" /\ job[n][s] = Idle
        /\ job' = [job EXCEPT ![n][s] = j] /\ Ask(n, Worker(s), "read")
    BY Zenon DEF Begin, Serving
  <1>3. /\ j \in Job /\ j.step = "list" /\ j.told = told /\ j.topics = told
        /\ Idle.step = "idle"
    BY DEF Job, Step, Idle
  <1> HIDE DEF j
  <1>4. \A e \in Ent(queue[n]) : e[1] # Worker(s)
    BY <1>1, <1>2, <1>3 DEF RequestInv, Fits
  <1>5. Last(n, Worker(s), "read")
    BY Zenon, <1>2, <1>4, LaneHolds, Asked, Tasks
  <1>6. NodeInv(n)'
    <2>1. j.step # "idle" /\ ("read" = "write" <=> j.step = "write")
          /\ j.step # "write"
      BY <1>3
    <2> QED  BY Zenon, <1>2, <1>3, <1>5, <2>1, WorkerMoves
  <1>7. Types'
    <2>1. job' \in [Node -> [Slot -> Job]]
      BY Zenon, <1>1, <1>2, <1>3 DEF Types
    <2> QED  BY Zenon, <1>1, <1>5, <2>1 DEF Types, Last
  <1>8. \A m \in Node \ {n} : Still(m)
    BY Zenon, <1>1, <1>2, <1>5 DEF Still, Types, Last
  <1> QED  BY Zenon, <1>6, <1>7, <1>8, NodeStep

(* TopicSync and TopicDiscovery take the oldest message.                   *)
LEMMA TakeStep ==
  ASSUME TopicsInv, NEW n \in Node, NEW s \in Slot,
         TakeSync(n, s) \/ (n = Host /\ TakeDiscovery(s))
  PROVE  TopicsInv'
  <1>1. Types
    BY Zenon DEF TopicsInv
  <1>2. CASE TakeSync(n, s)
    <2>1. sync[n] \in Seq(SUBSET Topic) /\ sync[n] # << >>
      BY Zenon, <1>1, <1>2 DEF Types, TakeSync
    <2>2. Head(sync[n]) \in SUBSET Topic /\ Tail(sync[n]) \in Seq(SUBSET Topic)
      BY <2>1
    <2>3. sync' \in [Node -> Seq(SUBSET Topic)] /\ disc' \in Seq(SUBSET Topic)
      BY Zenon, <1>1, <1>2, <2>2 DEF Types, TakeSync
    <2>4. Begin(n, s, Head(sync[n]))
          /\ UNCHANGED <<phase, left, topics, sched, collector>>
      BY Zenon, <1>2 DEF TakeSync
    <2> QED  BY Zenon, <2>2, <2>3, <2>4, BeginStep
  <1>3. CASE n = Host /\ TakeDiscovery(s)
    <2>1. disc \in Seq(SUBSET Topic) /\ disc # << >>
      BY Zenon, <1>1, <1>3 DEF Types, TakeDiscovery
    <2>2. Head(disc) \in SUBSET Topic /\ Tail(disc) \in Seq(SUBSET Topic)
      BY <2>1
    <2>3. sync' \in [Node -> Seq(SUBSET Topic)] /\ disc' \in Seq(SUBSET Topic)
      BY Zenon, <1>1, <1>3, <2>2 DEF Types, TakeDiscovery
    <2>4. Begin(n, s, Head(disc))
          /\ UNCHANGED <<phase, left, topics, sched, collector>>
      BY Zenon, <1>3 DEF TakeDiscovery
    <2> QED  BY Zenon, <2>2, <2>3, <2>4, BeginStep
  <1> QED  BY Zenon, <1>2, <1>3

(* A merge goes on: with a write if any topic is left, which is in turn if *)
(* all are declared; with the answer, or not at all, if none is.           *)
LEMMA ProceedStep ==
  ASSUME TopicsInv, NEW n \in Node, NEW s \in Slot, NEW todo \in SUBSET Topic,
         NEW mode \in {"read", "write"}, Served(n, Worker(s), mode),
         Proceed(n, s, todo), job[n][s].step # "idle",
         topics' \in [Node -> SUBSET Topic], topics[n] \subseteq topics'[n],
         \A m \in Node \ {n} : topics'[m] = topics[m],
         UNCHANGED <<phase, left, sched, collector, disc, sync>>,
         (todo # {} /\ job[n][s].told \subseteq Declared[n]) =>
           /\ todo \subseteq Declared[n] /\ phase[n] \in {"handlers", "announce"}
           /\ Cardinality(todo) <= Cardinality(left[n])
  PROVE  TopicsInv'
  <1>1. Types /\ RequestInv(n) /\ BootInv(n) /\ job[n][s] \in Job
    BY Zenon DEF TopicsInv, Types
  <1>2. phase[n] # "down"
    <2>1. Idle.step = "idle"
      BY DEF Idle
    <2> QED  BY <1>1, <2>1 DEF BootInv
  <1>3. Idle \in Job
    BY DEF Idle, Job
  <1>4. \A m \in Node \ {n} : job'[m] = job[m]
    BY Zenon, <1>1 DEF Types, Proceed
  <1>5. CASE todo # {}
    <2> DEFINE j == [job[n][s] EXCEPT !.step = "write", !.topics = todo]
    <2>1. job' = [job EXCEPT ![n][s] = j] /\ AskAgain(n, Worker(s), "write")
      BY <1>1, <1>5 DEF Proceed, Types
    <2>2. /\ j \in Job /\ j.step = "write" /\ j.told = job[n][s].told
          /\ j.topics = todo
      BY Zenon, <1>1 DEF Job, Step
    <2> HIDE DEF j
    <2>3. Last(n, Worker(s), "write")
      BY Zenon, <2>1, LaneHolds, AskedAgain, Tasks
    <2>4. job'[n][s] = j
      BY Zenon, <1>1, <2>1 DEF Types
    <2>5. ASSUME j.told \subseteq Declared[n]
          PROVE  InTurn(n, s)'
      <3>1. PICK e \in Ent(queue[n]) : e[1] = <<"boot">>
        BY Zenon, <1>1, <1>5, <2>2, <2>5 DEF BootInv
      <3>2. Before(queue'[n], <<"boot">>, Worker(s))
        BY Zenon, <2>3, <3>1, Tasks DEF Last
      <3> QED  BY Zenon, <1>5, <2>2, <2>4, <2>5, <3>2 DEF InTurn
    <2>6. NodeInv(n)'
      <3>1. /\ j.step # "idle" /\ ("write" = "write" <=> j.step = "write")
            /\ j.step # "list"
        BY <2>2
      <3> QED  BY Zenon, <1>2, <2>1, <2>2, <2>3, <2>5, <3>1, WorkerMoves
    <2>7. Types'
      <3>1. job' \in [Node -> [Slot -> Job]]
        BY Zenon, <1>1, <2>1, <2>2 DEF Types
      <3> QED  BY Zenon, <1>1, <2>3, <3>1 DEF Types, Last
    <2>8. \A m \in Node \ {n} : Still(m)
      BY Zenon, <1>4, <2>3 DEF Still, Last
    <2> QED  BY Zenon, <2>6, <2>7, <2>8, NodeStep
  <1>6. CASE todo = {} /\ n = Host
    <2> DEFINE j == [step |-> "relist", told |-> {}, topics |-> {}]
    <2>1. job' = [job EXCEPT ![n][s] = j] /\ AskAgain(n, Worker(s), "read")
      BY Zenon, <1>6 DEF Proceed
    <2>2. j \in Job /\ j.step = "relist"
      BY DEF Job, Step
    <2> HIDE DEF j
    <2>3. Last(n, Worker(s), "read")
      BY Zenon, <2>1, LaneHolds, AskedAgain, Tasks
    <2>4. NodeInv(n)'
      <3>1. /\ j.step # "idle" /\ ("read" = "write" <=> j.step = "write")
            /\ j.step # "list" /\ j.step # "write"
        BY <2>2
      <3> QED  BY Zenon, <1>2, <2>1, <2>2, <2>3, <3>1, WorkerMoves
    <2>5. Types'
      <3>1. job' \in [Node -> [Slot -> Job]]
        BY Zenon, <1>1, <2>1, <2>2 DEF Types
      <3> QED  BY Zenon, <1>1, <2>3, <3>1 DEF Types, Last
    <2>6. \A m \in Node \ {n} : Still(m)
      BY Zenon, <1>4, <2>3 DEF Still, Last
    <2> QED  BY Zenon, <2>4, <2>5, <2>6, NodeStep
  <1>7. CASE todo = {} /\ n # Host
    <2>1. job' = [job EXCEPT ![n][s] = Idle] /\ Drop(n, Worker(s))
      BY Zenon, <1>7 DEF Proceed
    <2>2. Gone(n, Worker(s))
      BY Zenon, <2>1, LaneHolds, Dropped
    <2>3. NodeInv(n)'
      BY Zenon, <1>2, <2>1, <2>2, WorkerRests
    <2>4. Types'
      <3>1. job' \in [Node -> [Slot -> Job]]
        BY Zenon, <1>1, <1>3, <2>1 DEF Types
      <3> QED  BY Zenon, <1>1, <2>2, <3>1 DEF Types, Gone
    <2>5. \A m \in Node \ {n} : Still(m)
      BY Zenon, <1>4, <2>2 DEF Still, Gone
    <2> QED  BY Zenon, <2>3, <2>4, <2>5, NodeStep
  <1> QED  BY Zenon, <1>5, <1>6, <1>7

(* What a merge finds missing is still boot's to register.                 *)
LEMMA ListStep ==
  ASSUME TopicsInv, NEW n \in Node, NEW s \in Slot, List(n, s)
  PROVE  TopicsInv'
  <1> DEFINE told == job[n][s].topics
             todo == Unknown(n, told)
  <1>1. /\ Types /\ BootInv(n) /\ TurnInv(n) /\ job[n][s] \in Job
        /\ phase[n] \in {"down", "handlers", "announce", "up"}
    BY Zenon DEF TopicsInv, Types
  <1>2. /\ job[n][s].step = "list" /\ Served(n, Worker(s), "read")
        /\ Proceed(n, s, todo)
        /\ UNCHANGED <<phase, left, topics, sched, collector, disc, sync>>
    BY Zenon DEF List
  <1>3. told \in SUBSET Topic
    BY <1>1 DEF Job
  <1>4. todo \in SUBSET Topic /\ topics' \in [Node -> SUBSET Topic]
    BY Zenon, <1>1, <1>2, <1>3 DEF Unknown, Types
  <1>5. ASSUME todo # {}, job[n][s].told \subseteq Declared[n]
        PROVE  /\ todo \subseteq Declared[n]
               /\ phase[n] \in {"handlers", "announce"}
               /\ Cardinality(todo) <= Cardinality(left[n])
    <2>1. told \subseteq Declared[n]
      BY Zenon, <1>1, <1>2, <1>5 DEF TurnInv
    <2>2. todo \subseteq left[n] /\ left[n] \subseteq Declared[n]
      BY Zenon, <1>1, <2>1 DEF Unknown, BootInv
    <2>3. left[n] # {}
      BY Zenon, <1>5, <2>2
    <2>4. phase[n] # "down"
      <3>1. Idle.step = "idle"
        BY DEF Idle
      <3> QED  BY <1>1, <1>2, <3>1 DEF BootInv
    <2>5. phase[n] = "handlers"
      BY <1>1, <2>3, <2>4 DEF BootInv
    <2>6. \A S, R : S \subseteq R /\ R \subseteq Declared[n]
                      => Cardinality(S) <= Cardinality(R)
      BY Zenon, Counts
    <2> QED  BY Zenon, <2>2, <2>5, <2>6
  <1>6. job[n][s].step # "idle"
    BY <1>2
  <1> HIDE DEF todo
  <1> QED  BY Zenon, <1>2, <1>4, <1>5, <1>6, ProceedStep

(* A merge whose turn it is registers one topic.                           *)
LEMMA WriteStep ==
  ASSUME TopicsInv, NEW n \in Node, NEW s \in Slot, Write(n, s)
  PROVE  TopicsInv'
  <1> DEFINE mine == job[n][s].topics
  <1>1. /\ Types /\ BootInv(n) /\ TurnInv(n) /\ job[n][s] \in Job
    BY Zenon DEF TopicsInv, Types
  <1>2. PICK t \in mine :
          /\ topics' = [topics EXCEPT ![n] = @ \cup {t}]
          /\ Proceed(n, s, mine \ {t})
    BY Zenon DEF Write
  <1>3. /\ job[n][s].step = "write" /\ Served(n, Worker(s), "write")
        /\ UNCHANGED <<phase, left, sched, collector, disc, sync>>
    BY Zenon DEF Write
  <1>4. mine \in SUBSET Topic
    BY <1>1 DEF Job
  <1> DEFINE todo == mine \ {t}
  <1>5. /\ todo \in SUBSET Topic /\ topics' \in [Node -> SUBSET Topic]
        /\ topics[n] \subseteq topics'[n]
        /\ \A m \in Node \ {n} : topics'[m] = topics[m]
    BY Zenon, <1>1, <1>2, <1>4 DEF Types
  <1>6. ASSUME todo # {}, job[n][s].told \subseteq Declared[n]
        PROVE  /\ todo \subseteq Declared[n]
               /\ phase[n] \in {"handlers", "announce"}
               /\ Cardinality(todo) <= Cardinality(left[n])
    <2>1. InTurn(n, s)
      BY Zenon, <1>1, <1>3, <1>6 DEF TurnInv
    <2>2. ~Before(queue[n], <<"boot">>, Worker(s))
      BY Zenon, <1>3, FirstInLine
    <2>3. /\ mine \subseteq Declared[n]
          /\ phase[n] \in {"handlers", "announce"}
          /\ Cardinality(mine) <= Cardinality(left[n]) + 1
      BY Zenon, <2>1, <2>2 DEF InTurn
    <2>4. left[n] \subseteq Declared[n] /\ todo \subseteq Declared[n]
      BY Zenon, <1>1, <2>3 DEF BootInv
    <2>5. /\ \A S : S \subseteq Declared[n] => Cardinality(S) \in Nat
          /\ \A S : S \subseteq Declared[n] => \A x \in S :
               Cardinality(S) = Cardinality(S \ {x}) + 1
      BY Zenon, Counts
    <2>6. /\ Cardinality(mine) = Cardinality(todo) + 1
          /\ Cardinality(todo) \in Nat /\ Cardinality(left[n]) \in Nat
      BY Zenon, <2>3, <2>4, <2>5
    <2>7. Cardinality(todo) <= Cardinality(left[n])
      BY <2>3, <2>6
    <2> QED  BY Zenon, <2>3, <2>4, <2>7
  <1>7. job[n][s].step # "idle"
    BY <1>3
  <1>8. Proceed(n, s, todo)
    BY Zenon, <1>2
  <1> HIDE DEF todo
  <1> QED  BY Zenon, <1>3, <1>5, <1>6, <1>7, <1>8, ProceedStep

(* The Host reads its list again, and answers.                             *)
LEMMA AnswerStep ==
  ASSUME TopicsInv, NEW s \in Slot, Relist(s) \/ Answer(s)
  PROVE  TopicsInv'
  <1> DEFINE n == Host
  <1>0. n \in Node
    BY Zenon, TopicsAssumption
  <1> HIDE DEF n
  <1>1. Types /\ BootInv(n) /\ job[n][s] \in Job /\ topics[n] \in SUBSET Topic
    BY Zenon, <1>0 DEF TopicsInv, Types
  <1>2. job[n][s].step # "idle" => phase[n] # "down"
    <2>1. Idle.step = "idle"
      BY DEF Idle
    <2> QED  BY <1>1, <2>1 DEF BootInv
  <1>3. CASE Relist(s)
    <2> DEFINE j == [job[n][s] EXCEPT !.step = "send", !.topics = topics[n]]
    <2>1. /\ job[n][s].step = "relist" /\ Served(n, Worker(s), "read")
          /\ job' = [job EXCEPT ![n][s] = j] /\ AskAgain(n, Worker(s), "read")
          /\ UNCHANGED <<phase, left, topics, sched, collector, disc, sync>>
      BY <1>0, <1>1, <1>3 DEF Relist, Types, n
    <2>2. j \in Job /\ j.step = "send"
      BY Zenon, <1>1 DEF Job, Step
    <2> HIDE DEF j
    <2>3. Last(n, Worker(s), "read")
      BY Zenon, <1>0, <2>1, LaneHolds, AskedAgain, Tasks
    <2>4. NodeInv(n)'
      <3>1. /\ j.step # "idle" /\ ("read" = "write" <=> j.step = "write")
            /\ j.step # "list" /\ j.step # "write" /\ phase[n] # "down"
        BY <1>2, <2>1, <2>2
      <3> QED  BY Zenon, <1>0, <2>1, <2>2, <2>3, <3>1, WorkerMoves
    <2>5. Types'
      <3>1. job' \in [Node -> [Slot -> Job]]
        BY Zenon, <1>0, <1>1, <2>1, <2>2 DEF Types
      <3> QED  BY Zenon, <1>1, <2>1, <2>3, <3>1 DEF Types, Last
    <2>6. \A m \in Node \ {n} : Still(m)
      BY Zenon, <1>1, <2>1, <2>3 DEF Still, Types, Last
    <2> QED  BY Zenon, <1>0, <2>4, <2>5, <2>6, NodeStep
  <1>4. CASE Answer(s)
    <2>1. /\ job[n][s].step = "send" /\ Served(n, Worker(s), "read")
          /\ job' = [job EXCEPT ![n][s] = Idle] /\ Drop(n, Worker(s))
          /\ UNCHANGED <<phase, left, topics, sched, collector, disc>>
      BY Zenon, <1>4 DEF Answer, n
    <2>2. sync' \in [Node -> Seq(SUBSET Topic)]
      <3> DEFINE told == job[n][s].topics
      <3>1. told \in SUBSET Topic
        BY <1>1 DEF Job
      <3>2. \A m \in Node : sync[m] \in Seq(SUBSET Topic)
        BY Zenon, <1>1 DEF Types
      <3> HIDE DEF told
      <3>3. \A m \in Node : Append(sync[m], told) \in Seq(SUBSET Topic)
        BY <3>1, <3>2
      <3>4. CASE UNCHANGED sync
        BY Zenon, <1>1, <3>4 DEF Types
      <3>5. CASE sync' = [m \in Node |-> IF m \in group
                                         THEN Append(sync[m], told)
                                         ELSE sync[m]]
        BY Zenon, <3>2, <3>3, <3>5
      <3> QED  BY Zenon, <1>4, <3>4, <3>5 DEF Answer, n, told
    <2>3. Gone(n, Worker(s))
      BY Zenon, <1>0, <2>1, LaneHolds, Dropped
    <2>4. phase[n] # "down"
      BY <1>2, <2>1
    <2>5. NodeInv(n)'
      BY Zenon, <1>0, <2>1, <2>3, <2>4, WorkerRests
    <2>6. Types'
      <3>1. Idle \in Job
        BY DEF Idle, Job
      <3>2. job' \in [Node -> [Slot -> Job]]
        BY Zenon, <1>0, <1>1, <2>1, <3>1 DEF Types
      <3> QED  BY Zenon, <1>1, <2>1, <2>2, <2>3, <3>2 DEF Types, Gone
    <2>7. \A m \in Node \ {n} : Still(m)
      BY Zenon, <1>1, <2>1, <2>3 DEF Still, Types, Gone
    <2> QED  BY Zenon, <1>0, <2>5, <2>6, <2>7, NodeStep
  <1> QED  BY Zenon, <1>3, <1>4

(* A node that died has forgotten everything.                              *)
LEMMA CrashStep ==
  ASSUME TopicsInv, NEW n \in Node, Crash(n)
  PROVE  TopicsInv'
  <1>1. Types
    BY Zenon DEF TopicsInv
  <1>2. Idle \in Job /\ Idle.step = "idle"
    BY DEF Idle, Job
  <1>3. << >> \in Seq(Request) /\ Ent(<< >>) = {} /\ Once(<< >>)
    BY DEF Ent, Once
  <1>4. Declared[n] \in SUBSET Topic /\ {} \in SUBSET Topic
    BY Zenon, TopicsAssumption
  <1>5. Types'
    BY Zenon, <1>1, <1>2, <1>3, <1>4 DEF Types, Crash
  <1>6. /\ phase'[n] = "down" /\ left'[n] = Declared[n] /\ topics'[n] = {}
        /\ queue'[n] = << >> /\ sched'[n] = FALSE
        /\ \A s \in Slot : job'[n][s] = Idle
    BY Zenon, <1>1 DEF Types, Crash
  <1>7. RequestInv(n)'
    BY Zenon, <1>3, <1>6 DEF RequestInv
  <1>8. BootInv(n)'
    <2>1. Declared[n] \ left'[n] \subseteq topics'[n]
      BY Zenon, <1>6
    <2> QED  BY <1>6, <2>1 DEF BootInv
  <1>9. TurnInv(n)'
    BY <1>2, <1>6 DEF TurnInv
  <1>10. \A m \in Node \ {n} : Still(m)
    BY Zenon, <1>1 DEF Still, Types, Crash
  <1>11. NodeInv(n)'
    BY Zenon, <1>7, <1>8, <1>9 DEF NodeInv
  <1> QED  BY Zenon, <1>5, <1>10, <1>11, NodeStep

(* A step that leaves the nodes alone.                                     *)
LEMMA NothingStep ==
  ASSUME TopicsInv,
         UNCHANGED <<phase, left, topics, queue, sched, job, collector, disc,
                     sync>>
  PROVE  TopicsInv'
  <1>1. \A m : Still(m)
    BY Zenon DEF Still
  <1>2. \A m \in Node : NodeInv(m)'
    BY Zenon, <1>1, StillKeeps DEF TopicsInv, NodeInv
  <1>3. Types'
    BY Zenon DEF TopicsInv, Types
  <1> QED  BY Zenon, <1>2, <1>3 DEF TopicsInv, NodeInv

-----------------------------------------------------------------------------
(* The theorems.                                                           *)

(* In every reachable state, boot, the scheduler, the collector and the    *)
(* system workers of a node wait for its TopicRouter as the program point  *)
(* of each says, and merges of declared topics take turns with boot.       *)
THEOREM TopicsInvariant == Spec => []TopicsInv
  <1>1. TopicsInv /\ [Next]_vars => TopicsInv'
    <2> SUFFICES ASSUME TopicsInv, [Next]_vars  PROVE TopicsInv'
      OBVIOUS
    <2>1. CASE UNCHANGED vars
      BY Zenon, <2>1, NothingStep DEF vars
    <2>2. ASSUME NEW n \in Node, Boot(n)  PROVE TopicsInv'
      BY Zenon, <2>2, StartStep, RegisterStep, AnnounceStep DEF Boot
    <2>3. ASSUME NEW n \in Node, Work(n)  PROVE TopicsInv'
      BY Zenon, <2>3, TakeStep, ListStep, WriteStep, AnswerStep DEF Work
    <2>4. ASSUME NEW n \in Node, EnsureGroup(n)  PROVE TopicsInv'
      BY Zenon, <2>4, NothingStep DEF EnsureGroup
    <2> QED  BY Zenon, <2>1, <2>2, <2>3, <2>4, SchedulerStep, CollectorStep,
                CrashStep DEF Next
  <1> QED  BY <1>1, InitTopics, PTL DEF Spec

(* The delay scheduler's guard only ever stops the merge of a message that *)
(* names a topic the Host's own program does not declare, for any topics,  *)
(* fleet and number of system workers, crashes and failed sends included.  *)
THEOREM OnlyForeignStuck == Spec => []StuckOnForeign
  <1>1. TopicsInv => StuckOnForeign
    <2> SUFFICES ASSUME TopicsInv, sched[Host], NEW i \in DOMAIN queue[Host],
                        queue[Host][i][2] = "write"
                 PROVE  \E s \in Slot :
                          /\ queue[Host][i][1] = Worker(s)
                          /\ ~(job[Host][s].told \subseteq Declared[Host])
      BY Zenon DEF StuckOnForeign
    <2> DEFINE e == queue[Host][i]
    <2>1. Host \in Node
      BY Zenon, TopicsAssumption
    <2>2. /\ RequestInv(Host) /\ BootInv(Host) /\ TurnInv(Host)
          /\ queue[Host] \in Seq(Request)
      BY Zenon, <2>1 DEF TopicsInv, Types
    <2>3. e \in Request
      BY <2>2
    <2>4. e[1] \in Task
      BY <2>3 DEF Request
    <2>5. Fits(Host, e)
      BY Zenon, <2>2 DEF RequestInv, Ent
    <2>6. phase[Host] = "up"
      BY Zenon, <2>2 DEF BootInv
    <2>7. /\ e[1] # <<"boot">> /\ e[1] # <<"scheduler">>
          /\ e[1] # <<"collector">>
      BY <2>5, <2>6 DEF Fits
    <2>8. PICK s \in Slot : e[1] = Worker(s)
      BY Zenon, <2>4, <2>7 DEF Task
    <2>9. job[Host][s].step = "write"
      BY Zenon, <2>5, <2>8 DEF Fits
    <2>10. ~InTurn(Host, s)
      BY <2>6 DEF InTurn
    <2> QED  BY Zenon, <2>2, <2>8, <2>9, <2>10 DEF TurnInv
  <1> QED  BY <1>1, TopicsInvariant, PTL

=============================================================================
