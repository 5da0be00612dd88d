----------------------------- MODULE BusProofs -----------------------------
(***************************************************************************)
(* Safety of the in-memory bus, for every backend, any topics, any         *)
(* capacities, and any number of messages, workers and calls; for the      *)
(* Crossfire backend also that a queue belongs to one topic, and that a    *)
(* topic with a worker has one dispatcher.                                 *)
(***************************************************************************)
EXTENDS Bus, TLAPS

-----------------------------------------------------------------------------
(* The inductive invariant: types and capacities. *)

\* Messages that were accepted, with the topic they were sent to; those that
\* still have the address they were sent with.
Carried == {m \in Message : m.id \in DOMAIN sent
                            /\ m.topic = sent[m.id].topic}
Sealed == {m \in Carried : m.to = sent[m.id].to}

HistType ==
    /\ sent \in Seq([topic : Topic, to : 0 .. MaxWorker])
    /\ Len(sent) <= MaxMsg /\ settled \subseteq DOMAIN sent

\* Only an inbox holds stamped messages.
MailType ==
    /\ chan \in [Channel -> Seq(Sealed)]
    /\ inbox \in [Worker -> Seq(Carried)]
    /\ readers \in Seq([topic : Topic, chan : Channel, back : Seq(Sealed)])
    /\ main \in [batch : Seq(Sealed), want : Nat, nacks : Seq(Sealed)]

Bounded ==
    /\ \A c \in Channel : Len(chan[c]) <= Cap
    /\ \A w \in Worker : Len(inbox[w]) <= InboxCap
    /\ \A r \in DOMAIN readers : Len(readers[r].back) <= 1
    /\ main.want + Len(main.batch) + Len(main.nacks) <= Batch

\* The topics and the workers created for them.
Created == [topic : Topic, chan : Channel]

PlanType ==
    /\ backend \in Backends
    /\ made \in Channel /\ tchan \in [Topic -> Channel] /\ routes = tchan
    /\ reg \subseteq Topic /\ enabled \subseteq Topic /\ spanned \subseteq Topic
    /\ names \in [Topic -> SUBSET Worker]
    /\ worker \in Seq(Created)
    /\ Len(worker) <= MaxWorker
    /\ index \subseteq DOMAIN worker /\ boxes \subseteq DOMAIN worker
    /\ \A t \in Topic : \A w \in names[t] :
         w \in DOMAIN worker /\ worker[w].topic = t

\* A creation is about a worker of its topic, and takes a lock only at the end.
CallType ==
    /\ calls \subseteq Call /\ lock \in [Lock -> calls \cup {NoCall}]
    /\ begun \in 0 .. MaxCalls
    /\ \A l \in Lock : lock[l].at # "flag"
    /\ \A c \in calls :
         /\ c.at \in {"flag", "register"} =>
              c.w \in DOMAIN worker /\ worker[c.w].topic = c.t
         /\ c.at # "unname" => c.t \in Topic

-----------------------------------------------------------------------------
(* Messages and sequences of messages. *)

\* The constants are numbers.
LEMMA Sizes ==
    /\ Cap \in Nat /\ InboxCap \in Nat /\ Batch \in Nat /\ Hops \in Nat
    /\ MaxMsg \in Nat /\ MaxChan \in Nat /\ MaxWorker \in Nat
  BY Zenon, BusAssumption

\* A message on its way is one that was accepted.
LEMMA SealedFacts ==
    ASSUME NEW m \in Sealed
    PROVE  /\ m \in Carried /\ m \in Message /\ m.id \in DOMAIN sent
           /\ m.topic = sent[m.id].topic /\ m.to = sent[m.id].to
  BY Zenon DEF Sealed, Carried

\* So is a message in an inbox, stamped or not.
LEMMA CarriedFacts ==
    ASSUME NEW m \in Carried
    PROVE  m \in Message /\ m.id \in DOMAIN sent /\ m.topic = sent[m.id].topic
  BY Zenon DEF Carried

\* A relay counts a hop and changes nothing else (dispatch, recv).
LEMMA HopKeeps ==
    ASSUME NEW m \in Sealed, m.hops < Hops
    PROVE  LET h == [m EXCEPT !.hops = @ + 1] IN
           h \in Sealed /\ h.id = m.id /\ h.topic = m.topic
  BY BusAssumption DEF Sealed, Carried, Message

\* A delivery stamps the worker and changes nothing else.
LEMMA StampKeeps ==
    ASSUME NEW m \in Sealed, NEW w \in Worker
    PROVE  LET s == [m EXCEPT !.to = w] IN
           s \in Carried /\ s.id = m.id /\ s.topic = m.topic
  BY BusAssumption DEF Sealed, Carried, Message, Worker

\* What was accepted stays accepted, as it was.
LEMMA SealedStill ==
    ASSUME UNCHANGED sent
    PROVE  Sealed' = Sealed /\ Carried' = Carried
  BY Zenon DEF Sealed, Carried

\* An accepted message (send of the global producer) is one more of them.
LEMMA SealedGrows ==
    ASSUME HistType, NEW t \in Topic, NEW w \in 0 .. MaxWorker, Accept(t, w)
    PROVE  /\ Sealed \subseteq Sealed' /\ Carried \subseteq Carried'
           /\ sent' \in Seq([topic : Topic, to : 0 .. MaxWorker])
           /\ Len(sent') = Len(sent) + 1 /\ Len(sent') <= MaxMsg
           /\ DOMAIN sent' = DOMAIN sent \cup {Len(sent')}
           /\ [id |-> Len(sent'), topic |-> t, to |-> w, hops |-> 0]
                 \in Sealed'
  <1>1. /\ sent' \in Seq([topic : Topic, to : 0 .. MaxWorker])
        /\ Len(sent') = Len(sent) + 1 /\ Len(sent') <= MaxMsg
        /\ DOMAIN sent' = DOMAIN sent \cup {Len(sent')}
    <2> DEFINE E == [topic : Topic, to : 0 .. MaxWorker]
               e == [topic |-> t, to |-> w]
    <2>1. /\ sent \in Seq(E) /\ e \in E /\ sent' = Append(sent, e)
          /\ Len(sent) < MaxMsg
      BY DEF HistType, Accept
    <2> HIDE DEF E, e
    <2>2. /\ sent' \in Seq(E) /\ Len(sent') = Len(sent) + 1
          /\ DOMAIN sent' = DOMAIN sent \cup {Len(sent')}
      BY <2>1
    <2>3. Len(sent') <= MaxMsg
      BY <2>1, <2>2, Sizes
    <2> QED  BY Zenon, <2>2, <2>3 DEF E
  <1>2. \A i \in DOMAIN sent : i \in DOMAIN sent' /\ sent'[i] = sent[i]
    BY DEF HistType, Accept
  <1>3. sent'[Len(sent')] = [topic |-> t, to |-> w]
    BY <1>1 DEF HistType, Accept
  <1>4. Sealed \subseteq Sealed' /\ Carried \subseteq Carried'
    BY Zenon, <1>2 DEF Sealed, Carried
  <1>5. [id |-> Len(sent'), topic |-> t, to |-> w, hops |-> 0] \in Message
    BY <1>1, BusAssumption DEF HistType, Message
  <1>6. [id |-> Len(sent'), topic |-> t, to |-> w, hops |-> 0] \in Sealed'
    BY <1>1, <1>3, <1>5 DEF Sealed, Carried, HistType
  <1> QED  BY Zenon, <1>1, <1>4, <1>6

\* What is in a sequence stays in it.
LEMMA SeqGrows ==
    ASSUME NEW S, NEW T, S \subseteq T
    PROVE  Seq(S) \subseteq Seq(T)
  OBVIOUS

\* A worker was created for a topic, with the producer of its queue.
LEMMA CreatedParts ==
    ASSUME PlanType, NEW w \in DOMAIN worker
    PROVE  worker[w].topic \in Topic /\ worker[w].chan \in Channel
  <1>1. worker[w] \in Created
    BY DEF PlanType
  <1> QED  BY Zenon, <1>1 DEF Created

\* Appending, taking the head, splitting: what becomes of the ids.
LEMMA IdsAppend ==
    ASSUME NEW S, NEW s \in Seq(S), NEW m \in S
    PROVE  /\ Append(s, m) \in Seq(S) /\ Len(Append(s, m)) = Len(s) + 1
           /\ Ids(Append(s, m)) = Ids(s) \cup {m.id}
  <1> DEFINE q == Append(s, m)
  <1>1. /\ q \in Seq(S) /\ Len(q) = Len(s) + 1
        /\ DOMAIN q = DOMAIN s \cup {Len(s) + 1}
        /\ q[Len(s) + 1] = m /\ \A i \in DOMAIN s : q[i] = s[i]
    OBVIOUS
  <1> HIDE DEF q
  <1>2. Ids(q) = Ids(s) \cup {m.id}
    BY <1>1, ZenonT(60) DEF Ids
  <1> QED  BY Zenon, <1>1, <1>2 DEF q

\* What taking the first message leaves.
LEMMA IdsTail ==
    ASSUME NEW S, NEW s \in Seq(S), s # << >>
    PROVE  /\ Head(s) \in S /\ Tail(s) \in Seq(S)
           /\ Len(Tail(s)) = Len(s) - 1 /\ Len(s) > 0
           /\ Ids(s) = Ids(Tail(s)) \cup {Head(s).id}
           /\ \A i \in DOMAIN Tail(s) :
                i + 1 \in DOMAIN s /\ Tail(s)[i] = s[i + 1]
           /\ Head(s) = s[1] /\ 1 \in DOMAIN s
  <1> DEFINE q == Tail(s)
  <1>1. /\ q \in Seq(S) /\ Len(q) = Len(s) - 1 /\ Len(s) > 0
        /\ Head(s) = s[1] /\ Head(s) \in S /\ 1 \in DOMAIN s
        /\ \A i \in DOMAIN q : i + 1 \in DOMAIN s /\ q[i] = s[i + 1]
    OBVIOUS
  <1>2. \A i \in DOMAIN s : i = 1 \/ (i - 1 \in DOMAIN q /\ q[i - 1] = s[i])
    OBVIOUS
  <1> HIDE DEF q
  <1>3. \A i \in DOMAIN s : s[i].id \in Ids(q) \cup {s[1].id}
    BY Zenon, <1>1, <1>2 DEF Ids
  <1>4. \A i \in DOMAIN q : q[i].id \in Ids(s)
    BY Zenon, <1>1 DEF Ids
  <1>5. Ids(s) = Ids(q) \cup {Head(s).id}
    BY Zenon, <1>1, <1>3, <1>4 DEF Ids
  <1> QED  BY Zenon, <1>1, <1>5 DEF q

\* claim_batch splits the channel and forgets nothing.
LEMMA IdsSplit ==
    ASSUME NEW S, NEW s \in Seq(S), NEW k \in 1 .. Len(s)
    PROVE  /\ SubSeq(s, 1, k) \in Seq(S) /\ Len(SubSeq(s, 1, k)) = k
           /\ SubSeq(s, k + 1, Len(s)) \in Seq(S)
           /\ Len(SubSeq(s, k + 1, Len(s))) = Len(s) - k
           /\ Ids(s) \subseteq Ids(SubSeq(s, 1, k))
                                 \cup Ids(SubSeq(s, k + 1, Len(s)))
  <1> DEFINE p == SubSeq(s, 1, k)
             q == SubSeq(s, k + 1, Len(s))
  <1>1. /\ p \in Seq(S) /\ Len(p) = k /\ \A i \in 1 .. k : p[i] = s[i]
    OBVIOUS
  <1>2. q \in Seq(S) /\ Len(q) = Len(s) - k
    OBVIOUS
  <1>3. \A i \in 1 .. Len(s) - k : q[i] = s[i + k]
    OBVIOUS
  <1>4. \A i \in DOMAIN s : \/ i \in DOMAIN p /\ p[i] = s[i]
                            \/ i - k \in DOMAIN q /\ q[i - k] = s[i]
    <2> HIDE DEF p, q
    <2> SUFFICES ASSUME NEW i \in 1 .. Len(s)
                 PROVE  \/ i \in DOMAIN p /\ p[i] = s[i]
                        \/ i - k \in DOMAIN q /\ q[i - k] = s[i]
      OBVIOUS
    <2>1. CASE i <= k
      BY <2>1, <1>1
    <2>2. CASE i > k
      <3>1. i - k \in 1 .. Len(s) - k /\ (i - k) + k = i
        BY <2>2
      <3> QED  BY <3>1, <1>2, <1>3
    <2> QED  BY <2>1, <2>2
  <1> HIDE DEF p, q
  <1>5. Ids(s) \subseteq Ids(p) \cup Ids(q)
    BY <1>4, Zenon DEF Ids
  <1> QED  BY Zenon, <1>1, <1>2, <1>5 DEF p, q

-----------------------------------------------------------------------------
(* Where the messages are, and the moves between those places. *)

\* A step that forgets no message.
Keeps == Somewhere \cup settled \subseteq Somewhere' \cup settled'

ReaderSet(S) == [topic : Topic, chan : Channel, back : Seq(S)]

\* A send that waited for room (send of a producer, of a nack, of a relay).
LEMMA PutFacts ==
    ASSUME NEW S, chan \in [Channel -> Seq(S)],
           \A d \in Channel : Len(chan[d]) <= Cap,
           NEW c \in Channel, NEW m \in S, Put(c, m)
    PROVE  /\ chan' \in [Channel -> Seq(S)]
           /\ \A d \in Channel : Len(chan'[d]) <= Cap
           /\ chan'[c] = Append(chan[c], m)
           /\ \A d \in Channel \ {c} : chan'[d] = chan[d]
           /\ OnChan \cup {m.id} \subseteq OnChan'
  <1>1. /\ chan' = [chan EXCEPT ![c] = Append(chan[c], m)]
        /\ Len(chan[c]) < Cap
    BY Zenon DEF Put, Room
  <1>2. /\ Append(chan[c], m) \in Seq(S)
        /\ Len(Append(chan[c], m)) = Len(chan[c]) + 1
        /\ Ids(Append(chan[c], m)) = Ids(chan[c]) \cup {m.id}
    BY Zenon, IdsAppend
  <1>3. chan' \in [Channel -> Seq(S)]
    BY Zenon, <1>1, <1>2
  <1>4. /\ chan'[c] = Append(chan[c], m)
        /\ \A d \in Channel \ {c} : chan'[d] = chan[d]
    BY Zenon, <1>1
  <1>5. \A d \in Channel : Len(chan'[d]) <= Cap
    BY <1>1, <1>2, <1>4, BusAssumption
  <1>6. \A d \in Channel : Ids(chan[d]) \subseteq Ids(chan'[d])
    BY Zenon, <1>2, <1>4
  <1>7. m.id \in Ids(chan'[c])
    BY Zenon, <1>2, <1>4
  <1>8. OnChan \cup {m.id} \subseteq OnChan'
    BY Zenon, <1>6, <1>7 DEF OnChan
  <1> QED  BY Zenon, <1>3, <1>4, <1>5, <1>8

\* A reader takes the head of channel c.
LEMMA TakeFacts ==
    ASSUME NEW S, chan \in [Channel -> Seq(S)],
           \A d \in Channel : Len(chan[d]) <= Cap,
           NEW c \in Channel, Take(c)
    PROVE  /\ chan' \in [Channel -> Seq(S)]
           /\ \A d \in Channel : Len(chan'[d]) <= Cap
           /\ chan[c] # << >> /\ chan'[c] = Tail(chan[c])
           /\ \A d \in Channel \ {c} : chan'[d] = chan[d]
           /\ Head(chan[c]) \in S
           /\ OnChan \subseteq OnChan' \cup {Head(chan[c]).id}
  <1>1. chan' = [chan EXCEPT ![c] = Tail(chan[c])] /\ chan[c] # << >>
    BY Zenon DEF Take
  <1>2. /\ Head(chan[c]) \in S /\ Tail(chan[c]) \in Seq(S)
        /\ Len(Tail(chan[c])) = Len(chan[c]) - 1
        /\ Ids(chan[c]) = Ids(Tail(chan[c])) \cup {Head(chan[c]).id}
    BY Zenon, <1>1, IdsTail
  <1>3. chan' \in [Channel -> Seq(S)]
    BY Zenon, <1>1, <1>2
  <1>4. /\ chan'[c] = Tail(chan[c])
        /\ \A d \in Channel \ {c} : chan'[d] = chan[d]
    BY Zenon, <1>1
  <1>5. \A d \in Channel : Len(chan'[d]) <= Cap
    BY <1>2, <1>4, BusAssumption
  <1>6. \A d \in Channel : Ids(chan[d]) \subseteq Ids(chan'[d])
                                                   \cup {Head(chan[c]).id}
    BY Zenon, <1>2, <1>4
  <1>7. OnChan \subseteq OnChan' \cup {Head(chan[c]).id}
    BY Zenon, <1>6 DEF OnChan
  <1> QED  BY Zenon, <1>1, <1>2, <1>3, <1>4, <1>5, <1>7

\* A dispatcher takes a message in hand to send it back.
LEMMA HandFacts ==
    ASSUME NEW S, readers \in Seq(ReaderSet(S)),
           \A q \in DOMAIN readers : Len(readers[q].back) <= 1,
           NEW r \in DOMAIN readers, readers[r].back = << >>,
           NEW m \in S, PutsBack(r, m)
    PROVE  /\ readers' \in Seq(ReaderSet(S))
           /\ DOMAIN readers' = DOMAIN readers
           /\ \A q \in DOMAIN readers :
                /\ Len(readers'[q].back) <= 1
                /\ readers'[q].topic = readers[q].topic
                /\ readers'[q].chan = readers[q].chan
           /\ readers'[r].back = <<m>>
           /\ \A q \in DOMAIN readers \ {r} : readers'[q] = readers[q]
           /\ InHand \cup {m.id} \subseteq InHand'
  <1>1. readers' = [readers EXCEPT ![r].back = <<m>>]
    BY Zenon DEF PutsBack
  <1>2. readers[r] \in ReaderSet(S)
    OBVIOUS
  <1>3. [readers[r] EXCEPT !.back = <<m>>] \in ReaderSet(S)
    <2>1. <<m>> \in Seq(S)
      OBVIOUS
    <2> QED  BY Zenon, <1>2, <2>1 DEF ReaderSet
  <1>4. /\ readers' \in Seq(ReaderSet(S)) /\ DOMAIN readers' = DOMAIN readers
        /\ readers'[r] = [readers[r] EXCEPT !.back = <<m>>]
        /\ \A q \in DOMAIN readers \ {r} : readers'[q] = readers[q]
    BY <1>1, <1>3
  <1>5. /\ readers'[r].back = <<m>> /\ readers'[r].topic = readers[r].topic
        /\ readers'[r].chan = readers[r].chan
    BY Zenon, <1>2, <1>4 DEF ReaderSet
  <1>6. Ids(<<m>>) = {m.id} /\ Ids(<< >>) = {} /\ Len(<<m>>) <= 1
    BY DEF Ids
  <1>7. /\ \A q \in DOMAIN readers : Ids(readers[q].back)
                                          \subseteq Ids(readers'[q].back)
        /\ m.id \in Ids(readers'[r].back)
    BY Zenon, <1>4, <1>5, <1>6
  <1>8. InHand \cup {m.id} \subseteq InHand'
    BY ZenonT(60), <1>4, <1>7 DEF InHand
  <1>9. \A q \in DOMAIN readers :
          /\ Len(readers'[q].back) <= 1
          /\ readers'[q].topic = readers[q].topic
          /\ readers'[q].chan = readers[q].chan
    BY Zenon, <1>4, <1>5, <1>6
  <1> QED  BY Zenon, <1>4, <1>5, <1>8, <1>9

\* It has sent the message back.
LEMMA ClearFacts ==
    ASSUME NEW S, readers \in Seq(ReaderSet(S)),
           \A q \in DOMAIN readers : Len(readers[q].back) <= 1,
           NEW r \in DOMAIN readers, readers[r].back # << >>,
           readers' = [readers EXCEPT ![r].back = << >>]
    PROVE  /\ readers' \in Seq(ReaderSet(S))
           /\ DOMAIN readers' = DOMAIN readers
           /\ \A q \in DOMAIN readers :
                /\ Len(readers'[q].back) <= 1
                /\ readers'[q].topic = readers[q].topic
                /\ readers'[q].chan = readers[q].chan
           /\ readers'[r].back = << >>
           /\ \A q \in DOMAIN readers \ {r} : readers'[q] = readers[q]
           /\ Head(readers[r].back) \in S
           /\ InHand \subseteq InHand' \cup {Head(readers[r].back).id}
  <1>2. readers[r] \in ReaderSet(S)
    OBVIOUS
  <1>3. [readers[r] EXCEPT !.back = << >>] \in ReaderSet(S)
    <2>1. << >> \in Seq(S)
      OBVIOUS
    <2> QED  BY Zenon, <1>2, <2>1 DEF ReaderSet
  <1>4. /\ readers' \in Seq(ReaderSet(S)) /\ DOMAIN readers' = DOMAIN readers
        /\ readers'[r] = [readers[r] EXCEPT !.back = << >>]
        /\ \A q \in DOMAIN readers \ {r} : readers'[q] = readers[q]
    BY <1>3
  <1>5. /\ readers'[r].back = << >> /\ readers'[r].topic = readers[r].topic
        /\ readers'[r].chan = readers[r].chan /\ readers[r].back \in Seq(S)
    BY Zenon, <1>2, <1>4 DEF ReaderSet
  <1>6. Head(readers[r].back) \in S
    BY <1>5
  <1>7. Ids(readers[r].back) = {Head(readers[r].back).id}
    <2>1. DOMAIN readers[r].back = {1}
      BY <1>5
    <2> QED  BY <1>5, <2>1 DEF Ids
  <1>8. \A q \in DOMAIN readers :
          Ids(readers[q].back) \subseteq Ids(readers'[q].back)
                                           \cup {Head(readers[r].back).id}
    BY Zenon, <1>4, <1>7
  <1>9. InHand \subseteq InHand' \cup {Head(readers[r].back).id}
    <2> SUFFICES ASSUME NEW i \in InHand, i # Head(readers[r].back).id
                 PROVE  i \in InHand'
      OBVIOUS
    <2>1. PICK q \in DOMAIN readers : i \in Ids(readers[q].back)
      BY Zenon DEF InHand
    <2>2. q \in DOMAIN readers' /\ i \in Ids(readers'[q].back)
      BY Zenon, <1>4, <1>8, <2>1
    <2> QED  BY Zenon, <2>2 DEF InHand
  <1>10. Len(<< >>) <= 1
    OBVIOUS
  <1>11. \A q \in DOMAIN readers :
          /\ Len(readers'[q].back) <= 1
          /\ readers'[q].topic = readers[q].topic
          /\ readers'[q].chan = readers[q].chan
    BY Zenon, <1>4, <1>5, <1>10
  <1> QED  BY Zenon, <1>4, <1>5, <1>6, <1>9, <1>11

\* A delivery into an inbox with room, and what a worker takes out of it.
LEMMA BoxFacts ==
    ASSUME NEW S, inbox \in [Worker -> Seq(S)], NEW w \in Worker, NEW m \in S,
           inbox' = [inbox EXCEPT ![w] = Append(@, m)]
    PROVE  /\ inbox' \in [Worker -> Seq(S)]
           /\ \A v \in Worker \ {w} : inbox'[v] = inbox[v]
           /\ inbox'[w] = Append(inbox[w], m)
           /\ Len(inbox'[w]) = Len(inbox[w]) + 1
           /\ InBox \cup {m.id} \subseteq InBox'
  <1>1. /\ Append(inbox[w], m) \in Seq(S)
        /\ Len(Append(inbox[w], m)) = Len(inbox[w]) + 1
        /\ Ids(Append(inbox[w], m)) = Ids(inbox[w]) \cup {m.id}
    BY ZenonT(60), IdsAppend
  <1>2. /\ inbox' \in [Worker -> Seq(S)] /\ inbox'[w] = Append(inbox[w], m)
        /\ \A v \in Worker \ {w} : inbox'[v] = inbox[v]
    BY Zenon, <1>1
  <1>3. /\ \A v \in Worker : Ids(inbox[v]) \subseteq Ids(inbox'[v])
        /\ m.id \in Ids(inbox'[w])
    BY Zenon, <1>1, <1>2
  <1>4. InBox \cup {m.id} \subseteq InBox'
    BY Zenon, <1>3 DEF InBox
  <1> QED  BY Zenon, <1>1, <1>2, <1>4

\* A worker takes a message from its inbox.
LEMMA UnboxFacts ==
    ASSUME NEW S, inbox \in [Worker -> Seq(S)], NEW w \in Worker,
           inbox[w] # << >>, inbox' = [inbox EXCEPT ![w] = Tail(@)]
    PROVE  /\ inbox' \in [Worker -> Seq(S)]
           /\ \A v \in Worker \ {w} : inbox'[v] = inbox[v]
           /\ inbox'[w] = Tail(inbox[w])
           /\ Len(inbox'[w]) = Len(inbox[w]) - 1
           /\ Head(inbox[w]) \in S
           /\ InBox \subseteq InBox' \cup {Head(inbox[w]).id}
  <1>1. /\ Tail(inbox[w]) \in Seq(S) /\ Head(inbox[w]) \in S
        /\ Len(Tail(inbox[w])) = Len(inbox[w]) - 1
        /\ Ids(inbox[w]) = Ids(Tail(inbox[w])) \cup {Head(inbox[w]).id}
    BY Zenon, IdsTail
  <1>2. /\ inbox' \in [Worker -> Seq(S)] /\ inbox'[w] = Tail(inbox[w])
        /\ \A v \in Worker \ {w} : inbox'[v] = inbox[v]
    BY Zenon, <1>1
  <1>3. \A v \in Worker : Ids(inbox[v]) \subseteq Ids(inbox'[v])
                                                   \cup {Head(inbox[w]).id}
    BY Zenon, <1>1, <1>2
  <1>4. InBox \subseteq InBox' \cup {Head(inbox[w]).id}
    BY Zenon, <1>3 DEF InBox
  <1> QED  BY Zenon, <1>1, <1>2, <1>4

-----------------------------------------------------------------------------
(* Steps that move messages. *)

MailInv == HistType /\ MailType /\ Bounded

\* Everything but the messages is left alone.
PlanStill == UNCHANGED <<backend, made, routes, topics, worker, index, boxes,
                         admin>>

\* Readers are named by topic and channel, whatever they have in hand.
ReadersStill ==
    /\ DOMAIN readers' = DOMAIN readers
    /\ \A r \in DOMAIN readers : /\ readers'[r].topic = readers[r].topic
                                 /\ readers'[r].chan = readers[r].chan

\* What stays in its place.
LEMMA StillPlaces ==
    /\ (UNCHANGED chan => OnChan' = OnChan)
    /\ (UNCHANGED inbox => InBox' = InBox)
    /\ (UNCHANGED readers => InHand' = InHand /\ ReadersStill)
    /\ (UNCHANGED main => /\ Ids(main'.batch) = Ids(main.batch)
                          /\ Ids(main'.nacks) = Ids(main.nacks))
  <1>1. UNCHANGED chan => OnChan' = OnChan
    BY Zenon DEF OnChan
  <1>2. UNCHANGED inbox => InBox' = InBox
    BY Zenon DEF InBox
  <1>3. UNCHANGED readers => InHand' = InHand /\ ReadersStill
    BY Zenon DEF InHand, ReadersStill
  <1> QED  BY Zenon, <1>1, <1>2, <1>3

\* The producer's send.
LEMMA SendMail ==
    ASSUME MailInv, PlanType, NEW t \in Topic, NEW w \in 0 .. MaxWorker,
           Send(t, w)
    PROVE  /\ MailInv' /\ Keeps /\ PlanStill /\ ReadersStill
           /\ DOMAIN sent' \subseteq DOMAIN sent \cup Somewhere'
  <1> DEFINE m == [id |-> Len(sent'), topic |-> t, to |-> w, hops |-> 0]
  <1>1. /\ Accept(t, w) /\ Put(routes[t], m) /\ PlanStill
        /\ UNCHANGED <<inbox, readers, main, settled>>
    BY Zenon DEF Send, PlanStill, workers, tasks
  <1>2. /\ Sealed \subseteq Sealed' /\ Carried \subseteq Carried'
        /\ sent' \in Seq([topic : Topic, to : 0 .. MaxWorker])
        /\ Len(sent') <= MaxMsg
        /\ DOMAIN sent' = DOMAIN sent \cup {Len(sent')} /\ m \in Sealed'
    BY Zenon, <1>1, SealedGrows DEF MailInv
  <1>3. Seq(Sealed) \subseteq Seq(Sealed') /\ Seq(Carried) \subseteq Seq(Carried')
    BY Zenon, <1>2, SeqGrows
  <1>4. routes[t] \in Channel
    BY Zenon DEF PlanType
  <1>5. chan \in [Channel -> Seq(Sealed')]
    BY Zenon, <1>3 DEF MailInv, MailType
  <1>6. /\ chan' \in [Channel -> Seq(Sealed')]
        /\ \A d \in Channel : Len(chan'[d]) <= Cap
        /\ OnChan \cup {m.id} \subseteq OnChan'
    <2> HIDE DEF m
    <2> QED  BY Zenon, <1>1, <1>2, <1>4, <1>5, PutFacts DEF MailInv, Bounded
  <1>7. HistType'
    BY Zenon, <1>1, <1>2 DEF MailInv, HistType
  <1>8. MailType'
    <2>1. readers' \in Seq([topic : Topic, chan : Channel,
                            back : Seq(Sealed')])
      <3>1. [topic : Topic, chan : Channel, back : Seq(Sealed)]
              \subseteq [topic : Topic, chan : Channel, back : Seq(Sealed')]
        BY Zenon, <1>3
      <3> QED  BY ZenonT(60), <1>1, <3>1, SeqGrows DEF MailInv, MailType
    <2>2. main' \in [batch : Seq(Sealed'), want : Nat, nacks : Seq(Sealed')]
      BY Zenon, <1>1, <1>3 DEF MailInv, MailType
    <2>3. inbox' \in [Worker -> Seq(Carried')]
      BY Zenon, <1>1, <1>3 DEF MailInv, MailType
    <2> QED  BY Zenon, <1>6, <2>1, <2>2, <2>3 DEF MailType
  <1>9. Bounded'
    BY Zenon, <1>1, <1>6 DEF MailInv, Bounded
  <1>10. Keeps /\ m.id \in Somewhere'
    BY Zenon, <1>1, <1>6, StillPlaces DEF Keeps, Somewhere
  <1>11. ReadersStill
    BY Zenon, <1>1 DEF ReadersStill
  <1> QED  BY Zenon, <1>1, <1>2, <1>7, <1>8, <1>9, <1>10, <1>11 DEF MailInv

\* The system message nobody takes.
LEMMA SendNowhereMail ==
    ASSUME MailInv, NEW t \in Topic, SendNowhere(t)
    PROVE  /\ MailInv' /\ Keeps /\ PlanStill /\ ReadersStill
           /\ DOMAIN sent' \subseteq DOMAIN sent \cup settled'
  <1>1. /\ Accept(t, NoWorker) /\ settled' = settled \cup {Len(sent')}
        /\ PlanStill /\ UNCHANGED <<chan, inbox, readers, main>>
    BY Zenon DEF SendNowhere, PlanStill, queues, workers, tasks
  <1>2. NoWorker \in 0 .. MaxWorker
    BY BusAssumption DEF NoWorker
  <1>3. /\ Sealed \subseteq Sealed' /\ Carried \subseteq Carried'
        /\ sent' \in Seq([topic : Topic, to : 0 .. MaxWorker])
        /\ Len(sent') <= MaxMsg
        /\ DOMAIN sent' = DOMAIN sent \cup {Len(sent')}
    BY Zenon, <1>1, <1>2, SealedGrows DEF MailInv
  <1>4. Seq(Sealed) \subseteq Seq(Sealed') /\ Seq(Carried) \subseteq Seq(Carried')
    BY Zenon, <1>3, SeqGrows
  <1>5. HistType'
    BY Zenon, <1>1, <1>3 DEF MailInv, HistType
  <1>6. MailType'
    <2>1. readers' \in Seq([topic : Topic, chan : Channel,
                            back : Seq(Sealed')])
      <3>1. [topic : Topic, chan : Channel, back : Seq(Sealed)]
              \subseteq [topic : Topic, chan : Channel, back : Seq(Sealed')]
        BY Zenon, <1>4
      <3> QED  BY ZenonT(60), <1>1, <3>1, SeqGrows DEF MailInv, MailType
    <2>2. main' \in [batch : Seq(Sealed'), want : Nat, nacks : Seq(Sealed')]
      BY Zenon, <1>1, <1>4 DEF MailInv, MailType
    <2>3. /\ inbox' \in [Worker -> Seq(Carried')]
          /\ chan' \in [Channel -> Seq(Sealed')]
      BY Zenon, <1>1, <1>4 DEF MailInv, MailType
    <2> QED  BY Zenon, <2>1, <2>2, <2>3 DEF MailType
  <1>7. Bounded'
    BY Zenon, <1>1 DEF MailInv, Bounded
  <1>8. Keeps
    BY Zenon, <1>1, StillPlaces DEF Keeps, Somewhere
  <1>9. ReadersStill
    BY Zenon, <1>1 DEF ReadersStill
  <1> QED  BY Zenon, <1>1, <1>3, <1>5, <1>7, <1>6, <1>8, <1>9 DEF MailInv

\* The conjuncts of MailInv.
LEMMA MailParts ==
    ASSUME MailInv
    PROVE  /\ settled \subseteq DOMAIN sent
           /\ chan \in [Channel -> Seq(Sealed)]
           /\ \A c \in Channel : Len(chan[c]) <= Cap
           /\ inbox \in [Worker -> Seq(Carried)]
           /\ \A w \in Worker : Len(inbox[w]) <= InboxCap
           /\ readers \in Seq(ReaderSet(Sealed))
           /\ \A q \in DOMAIN readers : Len(readers[q].back) <= 1
           /\ main \in [batch : Seq(Sealed), want : Nat, nacks : Seq(Sealed)]
           /\ main.want + Len(main.batch) + Len(main.nacks) <= Batch
  BY Zenon DEF MailInv, HistType, MailType, Bounded, ReaderSet

\* What a dispatcher is made of.
LEMMA ReaderParts ==
    ASSUME MailInv, NEW r \in DOMAIN readers
    PROVE  /\ readers[r].topic \in Topic /\ readers[r].chan \in Channel
           /\ readers[r].back \in Seq(Sealed)
  <1>1. readers[r] \in ReaderSet(Sealed)
    BY MailParts
  <1> QED  BY Zenon, <1>1 DEF ReaderSet

\* What a dispatcher is about to claim.
LEMMA ClaimMail ==
    ASSUME MailInv, NEW r \in DOMAIN readers, NEW m, Claims(r, m)
    PROVE  /\ m \in Sealed /\ readers[r].chan \in Channel
           /\ readers[r].topic \in Topic /\ readers[r].back = << >>
           /\ chan[readers[r].chan] # << >> /\ m = Head(chan[readers[r].chan])
           /\ chan' \in [Channel -> Seq(Sealed)]
           /\ \A c \in Channel : Len(chan'[c]) <= Cap
           /\ chan'[readers[r].chan] = Tail(chan[readers[r].chan])
           /\ \A c \in Channel \ {readers[r].chan} : chan'[c] = chan[c]
           /\ OnChan \subseteq OnChan' \cup {m.id}
  <1>1. readers[r].chan \in Channel /\ readers[r].topic \in Topic
    BY Zenon, ReaderParts
  <1>2. /\ readers[r].back = << >> /\ Take(readers[r].chan)
        /\ m = Head(chan[readers[r].chan])
    BY Zenon DEF Claims
  <1>3. /\ chan \in [Channel -> Seq(Sealed)]
        /\ \A d \in Channel : Len(chan[d]) <= Cap
    BY Zenon DEF MailInv, MailType, Bounded
  <1> QED  BY Zenon, <1>1, <1>2, <1>3, TakeFacts

\* The parts of MailInv' that a reader's step has to establish.
LEMMA ReaderMailInv ==
    ASSUME MailInv, UNCHANGED <<sent, main>>,
           settled' \subseteq DOMAIN sent,
           chan' \in [Channel -> Seq(Sealed)],
           \A c \in Channel : Len(chan'[c]) <= Cap,
           inbox' \in [Worker -> Seq(Carried)],
           \A w \in Worker : Len(inbox'[w]) <= InboxCap,
           readers' \in Seq(ReaderSet(Sealed)),
           \A q \in DOMAIN readers' : Len(readers'[q].back) <= 1
    PROVE  MailInv'
  <1>1. Sealed' = Sealed /\ Carried' = Carried
    BY Zenon, SealedStill
  <1>2. HistType'
    BY Zenon DEF MailInv, HistType
  <1>3. MailType'
    BY Zenon, <1>1 DEF MailInv, MailType, ReaderSet
  <1>4. Bounded'
    BY Zenon DEF MailInv, Bounded
  <1> QED  BY Zenon, <1>2, <1>3, <1>4 DEF MailInv

\* What every step of a reader or of recv leaves.
Moved == MailInv' /\ Keeps /\ PlanStill /\ ReadersStill /\ UNCHANGED sent

\* deliver_to_worker, and the nack after a full inbox.
LEMMA DeliverMail ==
    ASSUME MailInv, NEW r \in DOMAIN readers, NEW w \in Worker, NEW m,
           Deliver(r, w, m)
    PROVE  Moved
  <1>1. /\ Claims(r, m) /\ PlanStill /\ UNCHANGED <<main, sent, settled>>
        /\ \/ /\ Len(inbox[w]) < InboxCap /\ UNCHANGED readers
              /\ inbox' = [inbox EXCEPT ![w] = Append(@, [m EXCEPT !.to = w])]
           \/ PutsBack(r, m) /\ UNCHANGED inbox
    BY Zenon DEF Deliver, PlanStill, hist
  <1>2. /\ m \in Sealed /\ readers[r].back = << >>
        /\ chan' \in [Channel -> Seq(Sealed)]
        /\ \A c \in Channel : Len(chan'[c]) <= Cap
        /\ OnChan \subseteq OnChan' \cup {m.id}
    BY Zenon, <1>1, ClaimMail
  <1>3. CASE PutsBack(r, m) /\ UNCHANGED inbox
    <2>1. /\ readers' \in Seq(ReaderSet(Sealed)) /\ ReadersStill
          /\ \A q \in DOMAIN readers' : Len(readers'[q].back) <= 1
          /\ InHand \cup {m.id} \subseteq InHand'
      BY Zenon, <1>2, <1>3, MailParts, HandFacts DEF ReadersStill
    <2>2. MailInv'
      BY Zenon, <1>1, <1>2, <1>3, <2>1, MailParts, ReaderMailInv
    <2>3. Keeps
      BY Zenon, <1>1, <1>2, <1>3, <2>1, StillPlaces DEF Keeps, Somewhere
    <2> QED  BY Zenon, <1>1, <2>1, <2>2, <2>3 DEF Moved
  <1>4. CASE /\ Len(inbox[w]) < InboxCap /\ UNCHANGED readers
             /\ inbox' = [inbox EXCEPT ![w] = Append(@, [m EXCEPT !.to = w])]
    <2> DEFINE s == [m EXCEPT !.to = w]
    <2>1. s \in Carried /\ s.id = m.id
      BY Zenon, <1>2, StampKeeps
    <2>2. inbox' = [inbox EXCEPT ![w] = Append(@, s)]
      BY Zenon, <1>4
    <2> HIDE DEF s
    <2>3. /\ inbox' \in [Worker -> Seq(Carried)]
          /\ \A v \in Worker \ {w} : inbox'[v] = inbox[v]
          /\ Len(inbox'[w]) = Len(inbox[w]) + 1
          /\ InBox \cup {s.id} \subseteq InBox'
      BY Zenon, <2>1, <2>2, MailParts, BoxFacts
    <2>4. \A v \in Worker : Len(inbox'[v]) <= InboxCap
      BY <1>4, <2>3, MailParts, BusAssumption
    <2>5. MailInv'
      BY Zenon, <1>1, <1>2, <1>4, <2>3, <2>4, MailParts, ReaderMailInv
    <2>6. Keeps
      BY Zenon, <1>1, <1>2, <1>4, <2>1, <2>3, StillPlaces
         DEF Keeps, Somewhere
    <2> QED  BY Zenon, <1>1, <1>4, <2>5, <2>6 DEF Moved, ReadersStill
  <1> QED  BY Zenon, <1>1, <1>3, <1>4

\* No worker to deliver to.
LEMMA NackMail ==
    ASSUME MailInv, NEW r \in DOMAIN readers, NEW m, Nack(r, m)
    PROVE  Moved
  <1>1. /\ Claims(r, m) /\ PutsBack(r, m) /\ PlanStill
        /\ UNCHANGED <<inbox, main, sent, settled>>
    BY Zenon DEF Nack, PlanStill, workers, hist
  <1>2. /\ m \in Sealed /\ readers[r].back = << >>
        /\ chan' \in [Channel -> Seq(Sealed)]
        /\ \A c \in Channel : Len(chan'[c]) <= Cap
        /\ OnChan \subseteq OnChan' \cup {m.id}
    BY Zenon, <1>1, ClaimMail
  <1>3. /\ readers' \in Seq(ReaderSet(Sealed)) /\ ReadersStill
        /\ \A q \in DOMAIN readers' : Len(readers'[q].back) <= 1
        /\ InHand \cup {m.id} \subseteq InHand'
    BY Zenon, <1>1, <1>2, MailParts, HandFacts DEF ReadersStill
  <1>4. MailInv'
    BY Zenon, <1>1, <1>2, <1>3, MailParts, ReaderMailInv
  <1>5. Keeps
    BY Zenon, <1>1, <1>2, <1>3, StillPlaces DEF Keeps, Somewhere
  <1> QED  BY Zenon, <1>1, <1>3, <1>4, <1>5 DEF Moved

\* One more hop, or the end at MAX_TARGETED_HOPS.
LEMMA RelayMail ==
    ASSUME MailInv, NEW r \in DOMAIN readers, NEW m, Relay(r, m)
    PROVE  Moved
  <1>1. /\ Claims(r, m) /\ PlanStill /\ UNCHANGED <<inbox, main, sent>>
        /\ \/ /\ m.hops < Hops /\ UNCHANGED settled
              /\ PutsBack(r, [m EXCEPT !.hops = @ + 1])
           \/ Ends(m) /\ UNCHANGED readers
    BY Zenon DEF Relay, PlanStill, workers
  <1>2. /\ m \in Sealed /\ readers[r].back = << >>
        /\ chan' \in [Channel -> Seq(Sealed)]
        /\ \A c \in Channel : Len(chan'[c]) <= Cap
        /\ OnChan \subseteq OnChan' \cup {m.id}
    BY Zenon, <1>1, ClaimMail
  <1>3. CASE /\ m.hops < Hops /\ UNCHANGED settled
             /\ PutsBack(r, [m EXCEPT !.hops = @ + 1])
    <2> DEFINE h == [m EXCEPT !.hops = @ + 1]
    <2>1. h \in Sealed /\ h.id = m.id
      BY Zenon, <1>2, <1>3, HopKeeps
    <2>2. PutsBack(r, h)
      BY Zenon, <1>3
    <2> HIDE DEF h
    <2>3. /\ readers' \in Seq(ReaderSet(Sealed)) /\ ReadersStill
          /\ \A q \in DOMAIN readers' : Len(readers'[q].back) <= 1
          /\ InHand \cup {h.id} \subseteq InHand'
      BY Zenon, <1>2, <2>1, <2>2, MailParts, HandFacts DEF ReadersStill
    <2>4. MailInv'
      BY Zenon, <1>1, <1>2, <1>3, <2>3, MailParts, ReaderMailInv
    <2>5. Keeps
      BY Zenon, <1>1, <1>2, <1>3, <2>1, <2>3, StillPlaces
         DEF Keeps, Somewhere
    <2> QED  BY Zenon, <1>1, <2>3, <2>4, <2>5 DEF Moved
  <1>4. CASE Ends(m) /\ UNCHANGED readers
    <2>1. settled' = settled \cup {m.id} /\ m.id \in DOMAIN sent
      BY Zenon, <1>2, <1>4, SealedFacts DEF Ends
    <2>2. settled' \subseteq DOMAIN sent
      BY Zenon, <2>1, MailParts
    <2>3. MailInv'
      BY Zenon, <1>1, <1>2, <1>4, <2>2, MailParts, ReaderMailInv
    <2>4. Keeps
      BY Zenon, <1>1, <1>2, <1>4, <2>1, StillPlaces DEF Keeps, Somewhere
    <2> QED  BY Zenon, <1>1, <1>4, <2>3, <2>4 DEF Moved, ReadersStill
  <1> QED  BY Zenon, <1>1, <1>3, <1>4

\* The message is back on the channel.
LEMMA SendBackMail ==
    ASSUME MailInv, NEW r \in DOMAIN readers, SendBack(r)
    PROVE  Moved
  <1> DEFINE m == Head(readers[r].back)
  <1>1. /\ readers[r].back # << >>
        /\ readers' = [readers EXCEPT ![r].back = << >>]
        /\ Put(readers[r].chan, m) /\ PlanStill
        /\ UNCHANGED <<inbox, main, sent, settled>>
    BY Zenon DEF SendBack, PlanStill, workers, hist
  <1>2. /\ readers' \in Seq(ReaderSet(Sealed)) /\ ReadersStill
        /\ \A q \in DOMAIN readers' : Len(readers'[q].back) <= 1
        /\ m \in Sealed /\ InHand \subseteq InHand' \cup {m.id}
    BY Zenon, <1>1, MailParts, ClearFacts DEF ReadersStill
  <1>3. readers[r].chan \in Channel
    BY Zenon, ReaderParts
  <1> HIDE DEF m
  <1>4. /\ chan' \in [Channel -> Seq(Sealed)]
        /\ \A c \in Channel : Len(chan'[c]) <= Cap
        /\ OnChan \cup {m.id} \subseteq OnChan'
    BY Zenon, <1>1, <1>2, <1>3, MailParts, PutFacts
  <1>5. MailInv'
    BY Zenon, <1>1, <1>2, <1>4, MailParts, ReaderMailInv
  <1>6. Keeps
    BY Zenon, <1>1, <1>2, <1>4, StillPlaces DEF Keeps, Somewhere
  <1> QED  BY Zenon, <1>1, <1>2, <1>5, <1>6 DEF Moved

\* A handler has had the message.
LEMMA HandleMail ==
    ASSUME MailInv, NEW w \in Worker, Handle(w)
    PROVE  Moved
  <1>1. /\ inbox[w] # << >> /\ inbox' = [inbox EXCEPT ![w] = Tail(@)]
        /\ settled' = settled \cup {Head(inbox[w]).id} /\ PlanStill
        /\ UNCHANGED <<chan, readers, main, sent>>
    BY Zenon DEF Handle, Ends, PlanStill, queues, tasks
  <1>2. /\ inbox' \in [Worker -> Seq(Carried)]
        /\ \A v \in Worker \ {w} : inbox'[v] = inbox[v]
        /\ Len(inbox'[w]) = Len(inbox[w]) - 1 /\ Head(inbox[w]) \in Carried
        /\ InBox \subseteq InBox' \cup {Head(inbox[w]).id}
    BY Zenon, <1>1, MailParts, UnboxFacts
  <1>3. \A v \in Worker : Len(inbox'[v]) <= InboxCap
    <2>1. Len(inbox[w]) \in Nat /\ Len(inbox[w]) <= InboxCap
      BY MailParts
    <2>2. Len(inbox'[w]) <= InboxCap
      BY <1>2, <2>1, BusAssumption
    <2> QED  BY Zenon, <1>2, <2>2, MailParts
  <1>4. settled' \subseteq DOMAIN sent
    BY Zenon, <1>1, <1>2, MailParts, CarriedFacts
  <1>5. MailInv'
    BY Zenon, <1>1, <1>2, <1>3, <1>4, MailParts, ReaderMailInv
  <1>6. Keeps
    BY Zenon, <1>1, <1>2, StillPlaces DEF Keeps, Somewhere
  <1> QED  BY Zenon, <1>1, <1>5, <1>6 DEF Moved, ReadersStill

-----------------------------------------------------------------------------
(* The main recv loop. *)

MainSet(S) == [batch : Seq(S), want : Nat, nacks : Seq(S)]

\* The parts of Moved that a step of recv has to establish.
LEMMA RecvMoved ==
    ASSUME MailInv, PlanStill, UNCHANGED <<sent, readers, inbox>>,
           settled' \subseteq DOMAIN sent,
           chan' \in [Channel -> Seq(Sealed)],
           \A c \in Channel : Len(chan'[c]) <= Cap,
           main' \in MainSet(Sealed),
           main'.want + Len(main'.batch) + Len(main'.nacks) <= Batch,
           OnChan \cup Ids(main.batch) \cup Ids(main.nacks) \cup settled
             \subseteq OnChan' \cup Ids(main'.batch) \cup Ids(main'.nacks)
                         \cup settled'
    PROVE  Moved
  <1>1. Sealed' = Sealed /\ Carried' = Carried
    BY Zenon, SealedStill
  <1>2. HistType'
    BY Zenon DEF MailInv, HistType
  <1>3. MailType'
    BY Zenon, <1>1 DEF MailInv, MailType, MainSet
  <1>4. Bounded'
    BY Zenon DEF MailInv, Bounded
  <1>5. Keeps
    BY Zenon, StillPlaces DEF Keeps, Somewhere
  <1> QED  BY Zenon, <1>2, <1>3, <1>4, <1>5 DEF MailInv, Moved, ReadersStill

\* recv goes on to the next message of its batch.
LEMMA RestFacts ==
    ASSUME MailInv, main.batch # << >>
    PROVE  /\ First \in Sealed /\ Rest \in MainSet(Sealed)
           /\ Rest.want = main.want /\ Rest.nacks = main.nacks
           /\ Rest.batch = Tail(main.batch)
           /\ Len(Rest.batch) = Len(main.batch) - 1 /\ Len(main.batch) \in Nat
           /\ Len(main.nacks) \in Nat /\ main.want \in Nat
           /\ Ids(main.batch) = Ids(Rest.batch) \cup {First.id}
  <1>1. /\ main \in MainSet(Sealed) /\ main.batch \in Seq(Sealed)
        /\ main.nacks \in Seq(Sealed) /\ main.want \in Nat
    BY Zenon, MailParts DEF MainSet
  <1>2. /\ First \in Sealed /\ Tail(main.batch) \in Seq(Sealed)
        /\ Len(Tail(main.batch)) = Len(main.batch) - 1
        /\ Ids(main.batch) = Ids(Tail(main.batch)) \cup {First.id}
    BY Zenon, <1>1, IdsTail DEF First
  <1>3. /\ Rest \in MainSet(Sealed) /\ Rest.batch = Tail(main.batch)
        /\ Rest.want = main.want /\ Rest.nacks = main.nacks
    BY Zenon, <1>1, <1>2 DEF Rest, MainSet
  <1>4. Len(main.batch) \in Nat /\ Len(main.nacks) \in Nat
    BY <1>1
  <1> QED  BY Zenon, <1>1, <1>2, <1>3, <1>4

\* What recv is made of.
LEMMA MainParts ==
    ASSUME MailInv
    PROVE  /\ main \in MainSet(Sealed) /\ main.batch \in Seq(Sealed)
           /\ main.nacks \in Seq(Sealed) /\ main.want \in Nat
           /\ Len(main.batch) \in Nat /\ Len(main.nacks) \in Nat
           /\ main.want + Len(main.batch) + Len(main.nacks) <= Batch
           /\ 0 \in Channel /\ chan[0] \in Seq(Sealed) /\ Len(chan[0]) <= Cap
  <1>1. /\ main \in MainSet(Sealed) /\ main.batch \in Seq(Sealed)
        /\ main.nacks \in Seq(Sealed) /\ main.want \in Nat
    BY Zenon, MailParts DEF MainSet
  <1>2. Len(main.batch) \in Nat /\ Len(main.nacks) \in Nat
    BY <1>1
  <1>3. 0 \in Channel
    BY BusAssumption DEF Channel
  <1> QED  BY Zenon, <1>1, <1>2, <1>3, MailParts

\* recv: claim_batch of Flume, and of MPMC up to the count it waits for.
LEMMA ClaimBatchMail ==
    ASSUME MailInv, MainClaim
    PROVE  Moved
  <1> DEFINE k == IF Len(chan[0]) < Batch THEN Len(chan[0]) ELSE Batch
  <1>1. /\ main.want = 0 /\ main.batch = << >> /\ main.nacks = << >> /\ k > 0
        /\ PlanStill /\ UNCHANGED <<inbox, readers, sent, settled>>
        /\ \/ main' = [main EXCEPT !.want = k] /\ UNCHANGED chan
           \/ /\ main' = [main EXCEPT !.batch = SubSeq(chan[0], 1, k)]
              /\ chan' = [chan EXCEPT
                            ![0] = SubSeq(chan[0], k + 1, Len(chan[0]))]
    BY Zenon DEF MainClaim, PlanStill, workers, hist
  <1>2. k \in 1 .. Len(chan[0]) /\ k <= Batch
    BY <1>1, MainParts, BusAssumption
  <1> HIDE DEF k
  <1>3. Len(<< >>) = 0 /\ Ids(<< >>) = {}
    BY DEF Ids
  <1>4. CASE main' = [main EXCEPT !.want = k] /\ UNCHANGED chan
    <2>1. /\ main' \in MainSet(Sealed) /\ main'.want = k
          /\ main'.batch = main.batch /\ main'.nacks = main.nacks
      BY <1>2, <1>4, MainParts DEF MainSet
    <2>2. main'.want + Len(main'.batch) + Len(main'.nacks) <= Batch
      BY <1>1, <1>2, <1>3, <2>1, BusAssumption
    <2>3. OnChan' = OnChan
      BY Zenon, <1>4, StillPlaces
    <2> QED  BY Zenon, <1>1, <1>4, <2>1, <2>2, <2>3, MailParts, RecvMoved
  <1>5. CASE /\ main' = [main EXCEPT !.batch = SubSeq(chan[0], 1, k)]
             /\ chan' = [chan EXCEPT
                           ![0] = SubSeq(chan[0], k + 1, Len(chan[0]))]
    <2> DEFINE p == SubSeq(chan[0], 1, k)
               q == SubSeq(chan[0], k + 1, Len(chan[0]))
    <2>1. /\ p \in Seq(Sealed) /\ Len(p) = k /\ q \in Seq(Sealed)
          /\ Len(q) = Len(chan[0]) - k /\ Ids(chan[0]) \subseteq Ids(p) \cup Ids(q)
      BY ZenonT(60), <1>2, MainParts, IdsSplit
    <2>2. main' = [main EXCEPT !.batch = p] /\ chan' = [chan EXCEPT ![0] = q]
      BY Zenon, <1>5
    <2> HIDE DEF p, q
    <2>3. /\ main' \in MainSet(Sealed) /\ main'.want = main.want
          /\ main'.batch = p /\ main'.nacks = main.nacks
      BY Zenon, <2>1, <2>2, MainParts DEF MainSet
    <2>4. main'.want + Len(main'.batch) + Len(main'.nacks) <= Batch
      BY <1>1, <1>2, <1>3, <2>1, <2>3, BusAssumption
    <2>5. /\ chan' \in [Channel -> Seq(Sealed)] /\ chan'[0] = q
          /\ \A c \in Channel \ {0} : chan'[c] = chan[c]
      BY Zenon, <2>1, <2>2, MailParts, MainParts
    <2>6. Len(chan'[0]) <= Cap
      BY <1>2, <2>1, <2>5, MainParts, BusAssumption
    <2>7. \A c \in Channel : Len(chan'[c]) <= Cap
      BY Zenon, <2>5, <2>6, MailParts
    <2>8. \A c \in Channel : Ids(chan[c]) \subseteq Ids(chan'[c]) \cup Ids(p)
      <3> SUFFICES ASSUME NEW c \in Channel
                   PROVE  Ids(chan[c]) \subseteq Ids(chan'[c]) \cup Ids(p)
        OBVIOUS
      <3>1. CASE c = 0
        BY Zenon, <2>1, <2>5, <3>1
      <3>2. CASE c # 0
        BY Zenon, <2>5, <3>2
      <3> QED  BY Zenon, <3>1, <3>2
    <2>9. OnChan \subseteq OnChan' \cup Ids(main'.batch)
      BY Zenon, <2>3, <2>8 DEF OnChan
    <2> QED  BY Zenon, <1>1, <1>3, <2>3, <2>4, <2>5, <2>7, <2>9, MailParts,
                RecvMoved
  <1> QED  BY Zenon, <1>1, <1>4, <1>5

\* recv: MPMC takes one of the messages it waits for.
LEMMA TakeMail ==
    ASSUME MailInv, MainTake
    PROVE  Moved
  <1> DEFINE m == Head(chan[0])
  <1>1. /\ main.want > 0 /\ Take(0) /\ PlanStill
        /\ main' = [main EXCEPT !.want = main.want - 1,
                                !.batch = Append(main.batch, m)]
        /\ UNCHANGED <<inbox, readers, sent, settled>>
    BY Zenon DEF MainTake, PlanStill, workers, hist
  <1>2. /\ chan' \in [Channel -> Seq(Sealed)]
        /\ \A c \in Channel : Len(chan'[c]) <= Cap
        /\ m \in Sealed /\ OnChan \subseteq OnChan' \cup {m.id}
    BY Zenon, <1>1, MailParts, MainParts, TakeFacts
  <1> HIDE DEF m
  <1>3. /\ Append(main.batch, m) \in Seq(Sealed)
        /\ Len(Append(main.batch, m)) = Len(main.batch) + 1
        /\ Ids(Append(main.batch, m)) = Ids(main.batch) \cup {m.id}
    BY ZenonT(60), <1>2, MainParts, IdsAppend
  <1>4. main.want - 1 \in Nat
    BY <1>1, MainParts
  <1>5. /\ main' \in MainSet(Sealed) /\ main'.want = main.want - 1
        /\ main'.batch = Append(main.batch, m) /\ main'.nacks = main.nacks
    BY Zenon, <1>1, <1>3, <1>4, MainParts DEF MainSet
  <1>6. main'.want + Len(main'.batch) + Len(main'.nacks) <= Batch
    <2>1. /\ main.want \in Nat /\ Len(main.batch) \in Nat
          /\ Len(main.nacks) \in Nat
          /\ main.want + Len(main.batch) + Len(main.nacks) <= Batch
      BY Zenon, MainParts
    <2>2. /\ main'.want = main.want - 1 /\ main'.nacks = main.nacks
          /\ Len(main'.batch) = Len(main.batch) + 1
      BY Zenon, <1>3, <1>5
    <2>3. \A a, b, c, n \in Nat : a + b + c <= n => (a - 1) + (b + 1) + c <= n
      OBVIOUS
    <2>4. (main.want - 1) + (Len(main.batch) + 1) + Len(main.nacks) <= Batch
      BY Zenon, <2>1, <2>3, Sizes
    <2> QED  BY Zenon, <2>2, <2>4
  <1>7. OnChan \cup Ids(main.batch) \subseteq OnChan' \cup Ids(main'.batch)
    BY Zenon, <1>2, <1>3, <1>5
  <1> QED  BY Zenon, <1>1, <1>2, <1>5, <1>6, <1>7, MailParts, RecvMoved

\* recv: no such topic, the message is kept for the nack.
LEMMA UnknownMail ==
    ASSUME MailInv, MainUnknown
    PROVE  Moved
  <1>1. /\ main.batch # << >> /\ PlanStill
        /\ main' = [Rest EXCEPT !.nacks = Append(Rest.nacks, First)]
        /\ UNCHANGED <<chan, inbox, readers, sent, settled>>
    BY Zenon DEF MainUnknown, Awake, PlanStill, queues, workers, hist
  <1>2. /\ Append(main.nacks, First) \in Seq(Sealed)
        /\ Len(Append(main.nacks, First)) = Len(main.nacks) + 1
        /\ Ids(Append(main.nacks, First)) = Ids(main.nacks) \cup {First.id}
    BY <1>1, RestFacts, MainParts, IdsAppend
  <1>3. /\ main' \in MainSet(Sealed) /\ main'.want = main.want
        /\ main'.batch = Rest.batch
        /\ main'.nacks = Append(main.nacks, First)
    BY Zenon, <1>1, <1>2, RestFacts DEF MainSet
  <1>4. main'.want + Len(main'.batch) + Len(main'.nacks) <= Batch
    <2>1. /\ main.want \in Nat /\ Len(main.batch) \in Nat
          /\ Len(main.nacks) \in Nat
          /\ main.want + Len(main.batch) + Len(main.nacks) <= Batch
      BY Zenon, MainParts
    <2>2. Len(Rest.batch) = Len(main.batch) - 1
      BY Zenon, <1>1, RestFacts
    <2>3. \A a, b, c, n \in Nat : a + b + c <= n => a + (b - 1) + (c + 1) <= n
      OBVIOUS
    <2>4. main.want + (Len(main.batch) - 1) + (Len(main.nacks) + 1) <= Batch
      BY Zenon, <2>1, <2>3, Sizes
    <2> QED  BY Zenon, <1>2, <1>3, <2>2, <2>4
  <1>5. Ids(main.batch) \cup Ids(main.nacks)
          \subseteq Ids(main'.batch) \cup Ids(main'.nacks)
    BY Zenon, <1>1, <1>2, <1>3, RestFacts
  <1>6. OnChan' = OnChan
    BY Zenon, <1>1, StillPlaces
  <1> QED  BY Zenon, <1>1, <1>3, <1>4, <1>5, <1>6, MailParts, RecvMoved

\* A message leaves the batch for a channel, or ends.
LEMMA RestMoved ==
    ASSUME MailInv, PlanStill, UNCHANGED <<sent, readers, inbox>>,
           main.batch # << >>, main' = Rest,
           settled' \subseteq DOMAIN sent, settled \subseteq settled',
           chan' \in [Channel -> Seq(Sealed)],
           \A c \in Channel : Len(chan'[c]) <= Cap,
           OnChan \cup {First.id} \subseteq OnChan' \cup settled'
    PROVE  Moved
  <1>1. main' \in MainSet(Sealed) /\ main'.nacks = main.nacks
    BY Zenon, RestFacts
  <1>2. main'.want + Len(main'.batch) + Len(main'.nacks) <= Batch
    <2>1. /\ main.want \in Nat /\ Len(main.batch) \in Nat
          /\ Len(main.nacks) \in Nat
          /\ main.want + Len(main.batch) + Len(main.nacks) <= Batch
      BY Zenon, MainParts
    <2>2. /\ Len(main'.batch) = Len(main.batch) - 1
          /\ main'.want = main.want /\ main'.nacks = main.nacks
      BY Zenon, RestFacts
    <2> QED  BY <2>1, <2>2, Sizes
  <1>3. OnChan \cup Ids(main.batch) \cup Ids(main.nacks) \cup settled
             \subseteq OnChan' \cup Ids(main'.batch) \cup Ids(main'.nacks)
                         \cup settled'
    BY Zenon, <1>1, RestFacts
  <1> QED  BY Zenon, <1>1, <1>2, <1>3, RecvMoved

\* recv: a target, through the worker's producer or one hop on.
LEMMA ForwardMail ==
    ASSUME MailInv, PlanType, MainForward
    PROVE  Moved
  <1>1. /\ main.batch # << >> /\ First.topic \in reg /\ main' = Rest
        /\ PlanStill /\ UNCHANGED <<inbox, readers, sent>>
        /\ \/ /\ First.to \in index /\ UNCHANGED settled
              /\ Put(worker[First.to].chan, First)
           \/ /\ First.hops < Hops /\ UNCHANGED settled
              /\ Put(tchan[First.topic], [First EXCEPT !.hops = @ + 1])
           \/ Ends(First) /\ UNCHANGED chan
    BY Zenon DEF MainForward, Awake, Local, PlanStill, workers
  <1>2. First \in Sealed
    BY Zenon, <1>1, RestFacts
  <1>3. CASE /\ First.to \in index /\ UNCHANGED settled
             /\ Put(worker[First.to].chan, First)
    <2> DEFINE d == worker[First.to].chan
    <2>1. First.to \in DOMAIN worker
      BY Zenon, <1>3 DEF PlanType
    <2>2. d \in Channel
      BY Zenon, <2>1, CreatedParts
    <2>4. Put(d, First)
      BY Zenon, <1>3
    <2> HIDE DEF d
    <2>3. /\ chan' \in [Channel -> Seq(Sealed)]
          /\ \A c \in Channel : Len(chan'[c]) <= Cap
          /\ OnChan \cup {First.id} \subseteq OnChan'
      BY Zenon, <1>2, <2>2, <2>4, MailParts, PutFacts
    <2> QED  BY Zenon, <1>1, <1>3, <2>3, MailParts, RestMoved
  <1>4. CASE /\ First.hops < Hops /\ UNCHANGED settled
             /\ Put(tchan[First.topic], [First EXCEPT !.hops = @ + 1])
    <2> DEFINE h == [First EXCEPT !.hops = @ + 1]
    <2>1. h \in Sealed /\ h.id = First.id
      BY Zenon, <1>2, <1>4, HopKeeps
    <2>2. tchan[First.topic] \in Channel
      BY Zenon, <1>1 DEF PlanType
    <2>3. Put(tchan[First.topic], h)
      BY Zenon, <1>4
    <2> HIDE DEF h
    <2>4. /\ chan' \in [Channel -> Seq(Sealed)]
          /\ \A c \in Channel : Len(chan'[c]) <= Cap
          /\ OnChan \cup {h.id} \subseteq OnChan'
      BY Zenon, <2>1, <2>2, <2>3, MailParts, PutFacts
    <2>5. OnChan \cup {First.id} \subseteq OnChan'
      BY Zenon, <2>1, <2>4
    <2> QED  BY Zenon, <1>1, <1>4, <2>4, <2>5, MailParts, RestMoved
  <1>5. CASE Ends(First) /\ UNCHANGED chan
    <2>1. settled' = settled \cup {First.id} /\ First.id \in DOMAIN sent
      BY Zenon, <1>2, <1>5, SealedFacts DEF Ends
    <2>2. OnChan' = OnChan
      BY Zenon, <1>5, StillPlaces
    <2> QED  BY Zenon, <1>1, <1>5, <2>1, <2>2, MailParts, RestMoved
  <1> QED  BY Zenon, <1>1, <1>3, <1>4, <1>5

\* recv: an ephemeral worker handles the message.
LEMMA SpawnMail ==
    ASSUME MailInv, MainSpawn
    PROVE  Moved
  <1>1. /\ main.batch # << >> /\ main' = Rest /\ PlanStill
        /\ settled' = settled \cup {First.id}
        /\ UNCHANGED <<chan, inbox, readers, sent>>
    BY Zenon DEF MainSpawn, Awake, Ends, PlanStill, queues, workers
  <1>2. First.id \in DOMAIN sent
    BY Zenon, <1>1, RestFacts, SealedFacts
  <1>3. OnChan' = OnChan
    BY Zenon, <1>1, StillPlaces
  <1> QED  BY Zenon, <1>1, <1>2, <1>3, MailParts, RestMoved

\* recv: the nack of one refused message.
LEMMA MainNackMail ==
    ASSUME MailInv, MainNack
    PROVE  Moved
  <1> DEFINE m == Head(main.nacks)
  <1>1. /\ main.nacks # << >> /\ Put(0, m)
        /\ main' = [main EXCEPT !.nacks = Tail(main.nacks)]
        /\ PlanStill /\ UNCHANGED <<inbox, readers, sent, settled>>
    BY Zenon DEF MainNack, PlanStill, workers, hist
  <1>2. /\ m \in Sealed /\ Tail(main.nacks) \in Seq(Sealed)
        /\ Len(Tail(main.nacks)) = Len(main.nacks) - 1
        /\ Ids(main.nacks) = Ids(Tail(main.nacks)) \cup {m.id}
    BY Zenon, <1>1, MainParts, IdsTail
  <1> HIDE DEF m
  <1>3. /\ main' \in MainSet(Sealed) /\ main'.want = main.want
        /\ main'.batch = main.batch /\ main'.nacks = Tail(main.nacks)
    BY Zenon, <1>1, <1>2, MainParts DEF MainSet
  <1>4. main'.want + Len(main'.batch) + Len(main'.nacks) <= Batch
    <2>1. /\ main.want \in Nat /\ Len(main.batch) \in Nat
          /\ Len(main.nacks) \in Nat
          /\ main.want + Len(main.batch) + Len(main.nacks) <= Batch
      BY Zenon, MainParts
    <2> QED  BY <1>2, <1>3, <2>1, Sizes
  <1>5. /\ chan' \in [Channel -> Seq(Sealed)]
        /\ \A c \in Channel : Len(chan'[c]) <= Cap
        /\ OnChan \cup {m.id} \subseteq OnChan'
    BY Zenon, <1>1, <1>2, MailParts, MainParts, PutFacts
  <1>6. OnChan \cup Ids(main.nacks) \subseteq OnChan' \cup Ids(main'.nacks)
    BY Zenon, <1>2, <1>3, <1>5
  <1> QED  BY Zenon, <1>1, <1>3, <1>4, <1>5, <1>6, MailParts, RecvMoved

-----------------------------------------------------------------------------
(* Administrative steps. *)

\* Steps that leave the mail alone.
LEMMA MailStill ==
    ASSUME MailInv, UNCHANGED <<chan, inbox, readers, main, sent, settled>>
    PROVE  MailInv' /\ Keeps /\ ReadersStill
  <1>1. MailInv'
    BY Zenon, SealedStill DEF MailInv, HistType, MailType, Bounded
  <1>2. Keeps
    BY Zenon, StillPlaces DEF Keeps, Somewhere
  <1> QED  BY Zenon, <1>1, <1>2 DEF ReadersStill

\* abort: what was in the inboxes is destroyed and counts as ended.
LEMMA AbortMail ==
    ASSUME MailInv, NEW S \in SUBSET Worker, Abort(S),
           UNCHANGED <<chan, readers, main, sent>>
    PROVE  MailInv' /\ Keeps /\ ReadersStill
  <1>1. /\ inbox' = [w \in Worker |-> IF w \in S THEN << >> ELSE inbox[w]]
        /\ settled' = settled \cup UNION {Ids(inbox[w]) : w \in S}
    BY Zenon DEF Abort
  <1>2. \A w \in Worker : Ids(inbox[w]) \subseteq DOMAIN sent
    <2> SUFFICES ASSUME NEW w \in Worker, NEW k \in DOMAIN inbox[w]
                 PROVE  inbox[w][k].id \in DOMAIN sent
      BY Zenon DEF Ids
    <2>1. inbox[w] \in Seq(Carried)
      BY Zenon, MailParts
    <2>2. inbox[w][k] \in Carried
      BY <2>1
    <2> QED  BY Zenon, <2>2, CarriedFacts
  <1>3. settled' \subseteq DOMAIN sent
    <2>1. UNION {Ids(inbox[w]) : w \in S} \subseteq DOMAIN sent
      BY Zenon, <1>2
    <2>2. settled \subseteq DOMAIN sent
      BY Zenon, MailParts
    <2> QED  BY Zenon, <1>1, <2>1, <2>2
  <1>4. inbox' \in [Worker -> Seq(Carried)]
    <2>1. << >> \in Seq(Carried)
      OBVIOUS
    <2> QED  BY Zenon, <1>1, <2>1, MailParts
  <1>5. \A w \in Worker : Len(inbox'[w]) <= InboxCap
    <2>1. Len(<< >>) <= InboxCap
      BY Sizes
    <2>2. \A w \in Worker : inbox'[w] = << >> \/ inbox'[w] = inbox[w]
      BY Zenon, <1>1
    <2> QED  BY Zenon, <2>1, <2>2, MailParts
  <1>6. MailInv'
    BY Zenon, <1>3, <1>4, <1>5, MailParts, ReaderMailInv
  <1>7. \A w \in Worker : Ids(inbox[w]) \subseteq Ids(inbox'[w]) \cup settled'
    BY Zenon, <1>1
  <1>8. InBox \subseteq InBox' \cup settled'
    BY Zenon, <1>7 DEF InBox
  <1>9. settled \subseteq settled'
    BY Zenon, <1>1
  <1>10. Keeps
    BY Zenon, <1>8, <1>9, StillPlaces DEF Keeps, Somewhere
  <1> QED  BY Zenon, <1>6, <1>10 DEF ReadersStill

\* A new dispatcher has nothing in hand.
LEMMA SpawnFacts ==
    ASSUME MailInv, NEW t \in Topic, NEW c \in Channel,
           readers' = Append(readers, Dispatcher(t, c)),
           UNCHANGED <<chan, inbox, main, sent, settled>>
    PROVE  /\ MailInv' /\ Keeps
           /\ DOMAIN readers' = DOMAIN readers \cup {Len(readers) + 1}
           /\ Len(readers) + 1 \notin DOMAIN readers
           /\ readers'[Len(readers) + 1] = Dispatcher(t, c)
           /\ \A r \in DOMAIN readers : readers'[r] = readers[r]
  <1> DEFINE d == Dispatcher(t, c)
  <1>1. d \in ReaderSet(Sealed) /\ d.back = << >>
    BY DEF Dispatcher, ReaderSet
  <1> HIDE DEF d
  <1>2. readers \in Seq(ReaderSet(Sealed)) /\ readers' = Append(readers, d)
    BY Zenon, MailParts DEF d
  <1>3. /\ readers' \in Seq(ReaderSet(Sealed))
        /\ DOMAIN readers' = DOMAIN readers \cup {Len(readers) + 1}
        /\ Len(readers) + 1 \notin DOMAIN readers
        /\ readers'[Len(readers) + 1] = d
        /\ \A r \in DOMAIN readers : readers'[r] = readers[r]
    BY <1>1, <1>2
  <1>4. \A r \in DOMAIN readers' : Len(readers'[r].back) <= 1
    <2>1. Len(<< >>) <= 1
      OBVIOUS
    <2> QED  BY Zenon, <1>1, <1>3, <2>1, MailParts
  <1>5. MailInv'
    BY Zenon, <1>3, <1>4, MailParts, ReaderMailInv
  <1>6. InHand \subseteq InHand'
    BY Zenon, <1>3 DEF InHand
  <1>7. Keeps
    BY Zenon, <1>6, StillPlaces DEF Keeps, Somewhere
  <1> QED  BY Zenon, <1>3, <1>5, <1>7 DEF d

\* A call returns and drops both locks.
LEMMA ReturnCalls ==
    ASSUME CallType, NEW c, Returns(c), UNCHANGED worker
    PROVE  CallType' /\ c \in calls
  <1>1. /\ c \in calls /\ calls' = calls \ {c} /\ begun' = begun
        /\ lock' = [l \in Lock |-> NoCall]
    BY Zenon DEF Returns
  <1>2. NoCall.at # "flag"
    BY Zenon DEF NoCall
  <1>3. lock' \in [Lock -> calls' \cup {NoCall}] /\ \A l \in Lock : lock'[l] = NoCall
    BY Zenon, <1>1
  <1> QED  BY Zenon, <1>1, <1>2, <1>3 DEF CallType

\* A call starts, with its first lock if it begins with one.
LEMMA StartCalls ==
    ASSUME CallType, NEW c \in Call, calls' = calls \cup {c},
           \/ UNCHANGED lock
           \/ \E l \in Lock : lock' = [lock EXCEPT ![l] = c] /\ c.at # "flag",
           begun' \in 0 .. MaxCalls,
           c.at \in {"flag", "register"} =>
              c.w \in DOMAIN worker' /\ worker'[c.w].topic = c.t,
           c.at # "unname" => c.t \in Topic,
           \A w \in DOMAIN worker : w \in DOMAIN worker'
                                    /\ worker'[w].topic = worker[w].topic
    PROVE  CallType'
  <1>1. lock' \in [Lock -> calls' \cup {NoCall}]
    BY Zenon DEF CallType
  <1>2. \A l \in Lock : lock'[l] = lock[l] \/ (lock'[l] = c /\ c.at # "flag")
    BY Zenon DEF CallType
  <1> QED  BY Zenon, <1>1, <1>2 DEF CallType

\* A call takes the two locks, in one order or the other.
LEMMA LockOrder ==
    \A s : Order(s) \in {<<"index", "topics">>, <<"topics", "index">>}
           /\ Order(s)[1] \in Lock /\ Order(s)[2] \in Lock
  BY Zenon DEF Order, Lock

\* register, and create_worker's first step.
LEMMA RegisterPlan ==
    ASSUME PlanType, CallType, MailInv, NEW t \in Topic, Register(t)
    PROVE  MailInv' /\ Keeps /\ PlanType' /\ CallType'
  <1>1. /\ t \notin reg /\ CreateQueue(t) /\ reg' = reg \cup {t}
        /\ UNCHANGED <<names, enabled, worker, index, boxes, inbox, readers,
                       calls, lock, begun, spanned, settled>>
        /\ UNCHANGED <<backend, chan, main, sent>>
    BY Zenon DEF Register, Flow, workers, admin
  <1>2. PICK c : /\ tchan' = [tchan EXCEPT ![t] = c]
                 /\ routes' = [routes EXCEPT ![t] = c]
                 /\ c \in {0, made'} /\ made < MaxChan /\ made' = made + 1
    BY Zenon, <1>1 DEF CreateQueue
  <1>3. made' \in Channel /\ c \in Channel
    BY <1>2, Sizes DEF PlanType, Channel
  <1>4. tchan' \in [Topic -> Channel] /\ routes' = tchan'
    BY Zenon, <1>2, <1>3 DEF PlanType
  <1>5. PlanType'
    BY Zenon, <1>1, <1>3, <1>4 DEF PlanType
  <1>6. CallType'
    BY Zenon, <1>1 DEF CallType
  <1> QED  BY Zenon, <1>1, <1>5, <1>6, MailStill

\* A worker is created after all the others.
LEMMA NewWorker ==
    ASSUME PlanType, NEW t \in Topic,
           worker' = Append(worker, [topic |-> t, chan |-> tchan[t]])
    PROVE  /\ worker' \in Seq(Created)
           /\ Len(worker') = Len(worker) + 1
           /\ DOMAIN worker' = DOMAIN worker \cup {Len(worker) + 1}
           /\ worker'[Len(worker) + 1] = [topic |-> t, chan |-> tchan[t]]
           /\ \A w \in DOMAIN worker : worker'[w] = worker[w]
  <1> DEFINE x == [topic |-> t, chan |-> tchan[t]]
  <1>1. x \in Created
    BY Zenon DEF PlanType, Created
  <1> HIDE DEF x
  <1>2. worker \in Seq(Created) /\ worker' = Append(worker, x)
    BY Zenon DEF PlanType, x
  <1>3. /\ worker' \in Seq(Created) /\ Len(worker') = Len(worker) + 1
        /\ DOMAIN worker' = DOMAIN worker \cup {Len(worker) + 1}
        /\ worker'[Len(worker) + 1] = x
        /\ \A w \in DOMAIN worker : worker'[w] = worker[w]
    BY <1>1, <1>2
  <1> QED  BY Zenon, <1>3 DEF x

\* create_worker's first step.
LEMMA CreatePlan ==
    ASSUME PlanType, CallType, MailInv, NEW t \in Topic, CreateWorker(t)
    PROVE  MailInv' /\ Keeps /\ PlanType' /\ CallType'
  <1> DEFINE w == Len(worker) + 1
             c == [at |-> "flag", w |-> w, t |-> t]
  <1>1. /\ w \in Worker /\ calls' = calls \cup {c}
        /\ worker' = Append(worker, [topic |-> t, chan |-> tchan[t]])
        /\ UNCHANGED <<made, routes, tchan, reg, names, enabled, index, boxes,
                       inbox, readers, lock, begun, spanned, settled>>
        /\ UNCHANGED <<backend, chan, main, sent>>
    BY Zenon DEF CreateWorker, Starts, Flow, topics
  <1>2. /\ worker' \in Seq(Created) /\ Len(worker') = w
        /\ DOMAIN worker' = DOMAIN worker \cup {w}
        /\ worker'[w].topic = t
        /\ \A v \in DOMAIN worker : worker'[v] = worker[v]
    BY <1>1, NewWorker
  <1>3. Len(worker') <= MaxWorker
    BY <1>1, <1>2, Sizes DEF Worker
  <1>4. c \in Call /\ c.at = "flag" /\ c.w = w /\ c.t = t
    BY <1>1, Sizes DEF Call, Worker
  <1> HIDE DEF w, c
  <1>5. PlanType'
    BY Zenon, <1>1, <1>2, <1>3 DEF PlanType
  <1>6. begun' \in 0 .. MaxCalls
    BY Zenon, <1>1 DEF CallType
  <1>7. CallType'
    <2>1. c.at \in {"flag", "register"} =>
              c.w \in DOMAIN worker' /\ worker'[c.w].topic = c.t
      BY Zenon, <1>2, <1>4
    <2>2. c.at # "unname" => c.t \in Topic
      BY Zenon, <1>4
    <2>3. \A v \in DOMAIN worker : v \in DOMAIN worker'
                                    /\ worker'[v].topic = worker[v].topic
      BY Zenon, <1>2
    <2> QED  BY Zenon, <1>1, <1>4, <1>6, <2>1, <2>2, <2>3, StartCalls
  <1> QED  BY Zenon, <1>1, <1>5, <1>7, MailStill

\* The other steps of a creation.
LEMMA StartPlan ==
    ASSUME PlanType, CallType, MailInv, NEW c, StartWorker(c)
    PROVE  /\ MailInv' /\ Keeps /\ PlanType' /\ CallType'
           /\ c \in calls /\ c.t \in Topic /\ c.w \in DOMAIN worker
           /\ worker[c.w].topic = c.t
  <1> DEFINE e == [c EXCEPT !.at = "register"]
  <1>1. /\ c \in calls /\ c.at = "flag" /\ calls' = (calls \ {c}) \cup {e}
        /\ boxes' = boxes \cup {c.w} /\ enabled' = enabled \cup {c.t}
        /\ readers' = IF c.t \in enabled THEN readers
                      ELSE Append(readers, Dispatcher(c.t, worker[c.w].chan))
        /\ spanned' = spanned \/ spanned' = spanned \cup {c.t}
        /\ UNCHANGED <<made, routes, tchan, reg, names, worker, index, inbox,
                       lock, begun, settled>>
        /\ UNCHANGED <<backend, chan, main, sent>>
    BY Zenon DEF StartWorker, Spans, Flow
  <1>2. /\ c \in Call /\ c.t \in Topic /\ c.w \in DOMAIN worker
        /\ worker[c.w].topic = c.t
    BY Zenon, <1>1 DEF CallType
  <1>3. worker[c.w].chan \in Channel
    BY Zenon, <1>2, CreatedParts
  <1>4. MailInv' /\ Keeps
    <2>1. CASE c.t \in enabled
      BY Zenon, <1>1, <2>1, MailStill
    <2>2. CASE c.t \notin enabled
      BY Zenon, <1>1, <1>2, <1>3, <2>2, SpawnFacts
    <2> QED  BY Zenon, <2>1, <2>2
  <1>5. e \in Call /\ e.at = "register" /\ e.w = c.w /\ e.t = c.t
    BY Zenon, <1>2 DEF Call
  <1> HIDE DEF e
  <1>6. PlanType'
    BY Zenon, <1>1, <1>2 DEF PlanType
  <1>7. CallType'
    <2>1. lock' \in [Lock -> calls' \cup {NoCall}]
      BY Zenon, <1>1 DEF CallType
    <2> QED  BY Zenon, <1>1, <1>2, <1>5, <2>1 DEF CallType
  <1> QED  BY Zenon, <1>1, <1>2, <1>4, <1>6, <1>7

\* A call gets a lock it waits for.
LEMMA AcquirePlan ==
    ASSUME PlanType, CallType, MailInv, NEW c, NEW l, Acquire(c, l)
    PROVE  MailInv' /\ Keeps /\ PlanType' /\ CallType'
  <1>1. /\ c \in calls /\ l \in Wants(c) /\ lock' = [lock EXCEPT ![l] = c]
        /\ UNCHANGED <<made, routes, tchan, reg, names, enabled, worker,
                       index, boxes, inbox, readers, calls, begun, spanned,
                       settled>>
        /\ UNCHANGED <<backend, chan, main, sent>>
    BY Zenon DEF Acquire, Flow, topics, workers
  <1>2. c.at # "flag"
    BY Zenon, <1>1 DEF Wants
  <1>3. PlanType'
    BY Zenon, <1>1 DEF PlanType
  <1>4. /\ lock' \in [Lock -> calls' \cup {NoCall}]
        /\ \A k \in Lock : lock'[k] = lock[k] \/ lock'[k] = c
    BY Zenon, <1>1 DEF CallType
  <1>5. CallType'
    BY Zenon, <1>1, <1>2, <1>4 DEF CallType
  <1> QED  BY Zenon, <1>1, <1>3, <1>5, MailStill

\* register_worker.
LEMMA RegisterWorkerPlan ==
    ASSUME PlanType, CallType, MailInv, NEW c, RegisterWorker(c)
    PROVE  /\ MailInv' /\ Keeps /\ PlanType' /\ CallType'
           /\ c \in calls /\ c.t \in Topic /\ c.w \in DOMAIN worker
           /\ worker[c.w].topic = c.t
  <1>1. /\ c.at = "register" /\ Returns(c) /\ index' = index \cup {c.w}
        /\ names' = [t \in Topic |->
                    names[t] \cup IF t \in reg \cap {c.t} THEN {c.w} ELSE {}]
        /\ spanned' = spanned \/ spanned' = spanned \cup {c.t}
        /\ UNCHANGED <<made, routes, tchan, reg, enabled, worker, boxes,
                       inbox, readers, settled>>
        /\ UNCHANGED <<backend, chan, main, sent>>
    BY Zenon DEF RegisterWorker, Spans, Flow
  <1>2. CallType' /\ c \in calls
    BY Zenon, <1>1, ReturnCalls
  <1>3. /\ c.t \in Topic /\ c.w \in DOMAIN worker /\ worker[c.w].topic = c.t
    BY Zenon, <1>1, <1>2 DEF CallType
  <1>4. c.w \in Worker
    BY <1>3, Sizes DEF PlanType, Worker
  <1>5. /\ names' \in [Topic -> SUBSET Worker]
        /\ \A t \in Topic : \A w \in names'[t] :
             w \in names[t] \/ (w = c.w /\ t = c.t)
    BY Zenon, <1>1, <1>4 DEF PlanType
  <1>6. PlanType'
    BY Zenon, <1>1, <1>3, <1>5 DEF PlanType
  <1> QED  BY Zenon, <1>1, <1>2, <1>3, <1>6, MailStill

\* get_workers and del_workers start.
LEMMA BeginPlan ==
    ASSUME PlanType, CallType, MailInv, NEW s \in {"get", "purge"},
           NEW t \in Topic, Begin([at |-> s, w |-> NoWorker, t |-> t])
    PROVE  MailInv' /\ Keeps /\ PlanType' /\ CallType'
  <1> DEFINE c == [at |-> s, w |-> NoWorker, t |-> t]
  <1>1. c \in Call /\ c.at = s /\ c.t = t
    BY Sizes DEF Call, NoWorker
  <1>2. Begin(c)
    OBVIOUS
  <1> HIDE DEF c
  <1>3. /\ calls' = calls \cup {c} /\ begun < MaxCalls /\ begun' = begun + 1
        /\ lock' = [lock EXCEPT ![Order(c.at)[1]] = c]
        /\ UNCHANGED <<made, routes, tchan, reg, names, enabled, worker,
                       index, boxes, inbox, readers, spanned, settled>>
        /\ UNCHANGED <<backend, chan, main, sent>>
    BY Zenon, <1>2 DEF Begin, Starts, Counts, Flow, topics, workers
  <1>4. PlanType'
    BY Zenon, <1>3 DEF PlanType
  <1>5. begun' \in 0 .. MaxCalls
    BY <1>3, BusAssumption DEF CallType
  <1>6. Order(c.at)[1] \in Lock
    BY Zenon, LockOrder
  <1>7. s # "flag" /\ s # "register" /\ s # "unname"
    OBVIOUS
  <1>8. CallType'
    <2>1. \E l \in Lock : lock' = [lock EXCEPT ![l] = c] /\ c.at # "flag"
      BY Zenon, <1>1, <1>3, <1>6, <1>7
    <2>2. ~(c.at \in {"flag", "register"}) /\ c.t \in Topic
      BY Zenon, <1>1, <1>7
    <2>3. \A v \in DOMAIN worker : v \in DOMAIN worker'
                                    /\ worker'[v].topic = worker[v].topic
      BY Zenon, <1>3
    <2> QED  BY Zenon, <1>1, <1>3, <1>5, <2>1, <2>2, <2>3, StartCalls
  <1> QED  BY Zenon, <1>3, <1>4, <1>8, MailStill

\* get_workers returns.
LEMMA GetWorkersPlan ==
    ASSUME PlanType, CallType, MailInv, NEW c, GetWorkers(c)
    PROVE  MailInv' /\ Keeps /\ PlanType' /\ CallType'
  <1>1. /\ Returns(c)
        /\ UNCHANGED <<made, routes, tchan, reg, names, enabled, worker,
                       index, boxes, inbox, readers, spanned, settled>>
        /\ UNCHANGED <<backend, chan, main, sent>>
    BY Zenon DEF GetWorkers, Flow, topics, workers
  <1>2. PlanType'
    BY Zenon, <1>1 DEF PlanType
  <1> QED  BY Zenon, <1>1, <1>2, MailStill, ReturnCalls

\* The deletions.
LEMMA DelWorkerPlan ==
    ASSUME PlanType, CallType, MailInv, NEW w \in Worker, DelWorker(w)
    PROVE  MailInv' /\ Keeps /\ PlanType' /\ CallType'
  <1> DEFINE c == [at |-> "unname", w |-> w, t |-> NoTopic]
  <1>1. /\ calls' = calls \cup {c} /\ begun < MaxCalls /\ begun' = begun + 1
        /\ lock' = [lock EXCEPT ![Order("unname")[1]] = c] /\ Abort({w})
        /\ UNCHANGED <<made, routes, tchan, reg, names, enabled, worker,
                       readers, spanned>>
        /\ UNCHANGED <<backend, chan, main, sent>>
    BY Zenon DEF DelWorker, Starts, Counts, Flow, topics
  <1>2. c \in Call /\ c.at = "unname"
    BY Sizes DEF Call, Worker
  <1> HIDE DEF c
  <1>3. MailInv' /\ Keeps
    BY Zenon, <1>1, AbortMail
  <1>4. PlanType'
    BY Zenon, <1>1 DEF PlanType, Abort
  <1>5. begun' \in 0 .. MaxCalls
    BY <1>1, BusAssumption DEF CallType
  <1>6. Order("unname")[1] \in Lock
    BY Zenon, LockOrder
  <1>7. CallType'
    <2>1. \E l \in Lock : lock' = [lock EXCEPT ![l] = c] /\ c.at # "flag"
      BY Zenon, <1>1, <1>2, <1>6
    <2>2. ~(c.at \in {"flag", "register"})
      BY Zenon, <1>2
    <2>3. \A v \in DOMAIN worker : v \in DOMAIN worker'
                                    /\ worker'[v].topic = worker[v].topic
      BY Zenon, <1>1
    <2> QED  BY Zenon, <1>1, <1>2, <1>5, <2>1, <2>2, <2>3, StartCalls
  <1> QED  BY Zenon, <1>3, <1>4, <1>7

\* del_worker returns.
LEMMA UnnamePlan ==
    ASSUME PlanType, CallType, MailInv, NEW c, Unname(c)
    PROVE  MailInv' /\ Keeps /\ PlanType' /\ CallType'
  <1>1. /\ Returns(c) /\ names' = [t \in Topic |-> names[t] \ {c.w}]
        /\ UNCHANGED <<made, routes, tchan, reg, enabled, worker, index,
                       boxes, inbox, readers, spanned, settled>>
        /\ UNCHANGED <<backend, chan, main, sent>>
    BY Zenon DEF Unname, Flow, workers
  <1>2. /\ names' \in [Topic -> SUBSET Worker]
        /\ \A t \in Topic : names'[t] \subseteq names[t]
    BY Zenon, <1>1 DEF PlanType
  <1>3. PlanType'
    BY Zenon, <1>1, <1>2 DEF PlanType
  <1> QED  BY Zenon, <1>1, <1>3, MailStill, ReturnCalls

\* del_workers: no topic gains a worker, the deleted one has none.
LEMMA DelWorkersPlan ==
    ASSUME PlanType, CallType, MailInv, NEW c, DelWorkers(c)
    PROVE  /\ MailInv' /\ Keeps /\ PlanType' /\ CallType' /\ c \in calls
           /\ \A t \in Topic : names'[t] \subseteq names[t]
           /\ c.t \in Topic /\ names'[c.t] = {}
  <1> DEFINE S == IF c.t \in reg THEN names[c.t] \cap index ELSE {}
  <1>1. /\ c.at = "purge" /\ Returns(c) /\ Abort(S) /\ reg' = reg \ {c.t}
        /\ names' = [names EXCEPT ![c.t] = {}] /\ enabled' = enabled \ {c.t}
        /\ UNCHANGED <<made, routes, tchan, worker, readers, spanned>>
        /\ UNCHANGED <<backend, chan, main, sent>>
    BY Zenon DEF DelWorkers, Flow
  <1>2. CallType' /\ c \in calls
    BY Zenon, <1>1, ReturnCalls
  <1>3. c.t \in Topic
    BY Zenon, <1>1, <1>2 DEF CallType
  <1>4. S \in SUBSET Worker
    BY Zenon, <1>3 DEF PlanType
  <1> HIDE DEF S
  <1>5. MailInv' /\ Keeps
    BY Zenon, <1>1, <1>4, AbortMail
  <1>6. /\ names' \in [Topic -> SUBSET Worker] /\ names'[c.t] = {}
        /\ \A t \in Topic : names'[t] \subseteq names[t]
    BY Zenon, <1>1, <1>3 DEF PlanType
  <1>7. PlanType'
    BY Zenon, <1>1, <1>6 DEF PlanType, Abort
  <1> QED  BY Zenon, <1>2, <1>3, <1>5, <1>6, <1>7

-----------------------------------------------------------------------------
(* The invariant, and what follows from it. *)

\* An empty bus.
LEMMA InitMail == Init => MailInv /\ PlanType /\ CallType
  <1> SUFFICES ASSUME Init PROVE MailInv /\ PlanType /\ CallType
    OBVIOUS
  <1>1. HistType
    BY Sizes DEF Init, HistType
  <1>2. MailType
    BY DEF Init, MailType
  <1>3. Bounded
    BY Sizes DEF Init, Bounded
  <1>4. 0 \in Channel /\ << >> \in Seq(Created) /\ Len(<< >>) <= MaxWorker
    BY Sizes DEF Channel
  <1>5. /\ tchan \in [Topic -> Channel] /\ routes = tchan /\ made \in Channel
        /\ worker \in Seq(Created) /\ Len(worker) <= MaxWorker
    BY Zenon, <1>4 DEF Init
  <1>6. /\ names \in [Topic -> SUBSET Worker]
        /\ \A t \in Topic : names[t] = {}
    BY Zenon DEF Init
  <1>7. PlanType
    <2>1. /\ backend \in Backends /\ reg = {} /\ enabled = {} /\ spanned = {}
          /\ index = {} /\ boxes = {}
      BY Zenon DEF Init
    <2> QED  BY Zenon, <1>5, <1>6, <2>1 DEF PlanType
  <1>8. CallType
    <2>1. begun \in 0 .. MaxCalls
      BY BusAssumption DEF Init
    <2>2. NoCall.at # "flag"
      BY Zenon DEF NoCall
    <2>3. /\ calls = {} /\ lock \in [Lock -> calls \cup {NoCall}]
          /\ \A l \in Lock : lock[l] = NoCall
      BY Zenon DEF Init
    <2> QED  BY Zenon, <2>1, <2>2, <2>3 DEF CallType
  <1> QED  BY Zenon, <1>1, <1>2, <1>3, <1>7, <1>8 DEF MailInv

\* Nothing is forgotten.
Remembers == Keeps /\ DOMAIN sent' \subseteq DOMAIN sent \cup Somewhere'
                                              \cup settled'

\* The flow of messages leaves topics, workers and calls alone.
LEMMA PlanKept ==
    ASSUME PlanType, CallType, PlanStill
    PROVE  PlanType' /\ CallType'
  <1>1. UNCHANGED <<backend, made, routes, tchan, reg, names, enabled, worker,
                    index, boxes, calls, lock, begun, spanned>>
    BY Zenon DEF PlanStill, topics, admin
  <1>2. PlanType'
    BY Zenon, <1>1 DEF PlanType
  <1>3. CallType'
    BY Zenon, <1>1 DEF CallType
  <1> QED  BY Zenon, <1>2, <1>3

\* Every step of recv moves messages without forgetting one.
LEMMA RecvMail ==
    ASSUME MailInv, PlanType, Recv
    PROVE  Moved
  BY Zenon, ClaimBatchMail, TakeMail, UnknownMail, ForwardMail, SpawnMail,
     MainNackMail DEF Recv

\* So does every step of a dispatcher.
LEMMA ReaderMail ==
    ASSUME MailInv, NEW r \in DOMAIN readers, ReaderLoop(r)
    PROVE  Moved
  BY Zenon, SendBackMail, NackMail, RelayMail, DeliverMail DEF ReaderLoop

\* Such a step keeps the invariant.
LEMMA MovedRemembers ==
    ASSUME PlanType, CallType, Moved
    PROVE  MailInv' /\ PlanType' /\ CallType' /\ Remembers
  <1>1. MailInv' /\ Keeps /\ PlanStill /\ sent' = sent
    BY Zenon DEF Moved
  <1> QED  BY Zenon, <1>1, PlanKept DEF Remembers

\* No administrative call sends.
LEMMA AdminSent ==
    ASSUME NEW c, Continue(c)
    PROVE  sent' = sent
  BY Zenon DEF Continue, StartWorker, RegisterWorker, GetWorkers, Unname,
     DelWorkers, Acquire, Flow

\* Every step of an administrative call keeps the invariant.
LEMMA ContinuePlan ==
    ASSUME PlanType, CallType, MailInv, NEW c, Continue(c)
    PROVE  MailInv' /\ Keeps /\ PlanType' /\ CallType'
  BY Zenon, StartPlan, RegisterWorkerPlan, GetWorkersPlan, UnnamePlan,
     DelWorkersPlan, AcquirePlan DEF Continue

\* Every step keeps the types and the capacities and forgets no message.
LEMMA BusStep ==
    ASSUME MailInv, PlanType, CallType, [Next]_vars
    PROVE  MailInv' /\ PlanType' /\ CallType' /\ Remembers
  <1>1. CASE \E t \in Topic : SendNowhere(t)
    <2>1. PICK t \in Topic : SendNowhere(t)
      BY Zenon, <1>1
    <2> QED  BY Zenon, <2>1, SendNowhereMail, PlanKept DEF Remembers
  <1>2. CASE \E t \in Topic, w \in 0 .. MaxWorker : Send(t, w)
    <2>1. PICK t \in Topic, w \in 0 .. MaxWorker : Send(t, w)
      BY Zenon, <1>2
    <2> QED  BY Zenon, <2>1, SendMail, PlanKept DEF Remembers
  <1>3. CASE \E r \in DOMAIN readers : ReaderLoop(r)
    BY Zenon, <1>3, ReaderMail, MovedRemembers
  <1>4. CASE Recv
    BY Zenon, <1>4, RecvMail, MovedRemembers
  <1>5. CASE \E w \in Worker : Handle(w)
    BY Zenon, <1>5, HandleMail, MovedRemembers
  <1>6. CASE \E w \in Worker : DelWorker(w)
    <2>1. PICK w \in Worker : DelWorker(w)
      BY Zenon, <1>6
    <2>2. sent' = sent
      BY Zenon, <2>1 DEF DelWorker, Flow
    <2> QED  BY Zenon, <2>1, <2>2, DelWorkerPlan DEF Remembers
  <1>7. CASE \E t \in Topic : Register(t) \/ CreateWorker(t)
    <2>1. PICK t \in Topic : Register(t) \/ CreateWorker(t)
      BY Zenon, <1>7
    <2>2. sent' = sent
      BY Zenon, <2>1 DEF Register, CreateWorker, Flow
    <2> QED  BY Zenon, <2>1, <2>2, RegisterPlan, CreatePlan DEF Remembers
  <1>8. CASE \E c \in calls : Continue(c)
    <2>1. PICK c \in calls : Continue(c)
      BY Zenon, <1>8
    <2> QED  BY Zenon, <2>1, ContinuePlan, AdminSent DEF Remembers
  <1>9. CASE \E s \in {"get", "purge"}, t \in Topic :
               Begin([at |-> s, w |-> NoWorker, t |-> t])
    <2>1. PICK s \in {"get", "purge"}, t \in Topic :
               Begin([at |-> s, w |-> NoWorker, t |-> t])
      BY Zenon, <1>9
    <2>2. sent' = sent
      BY Zenon, <2>1 DEF Begin, Flow
    <2> QED  BY Zenon, <2>1, <2>2, BeginPlan DEF Remembers
  <1>10. CASE UNCHANGED vars
    <2>1. UNCHANGED <<chan, inbox, readers, main, sent, settled>>
      BY Zenon, <1>10 DEF vars, queues, workers, tasks, hist
    <2>2. PlanStill
      BY Zenon, <1>10 DEF vars, PlanStill, queues, workers
    <2> QED  BY Zenon, <2>1, <2>2, MailStill, PlanKept DEF Remembers
  <1> QED  BY Zenon, <1>1, <1>2, <1>3, <1>4, <1>5, <1>6, <1>7, <1>8, <1>9,
              <1>10 DEF Next

-----------------------------------------------------------------------------
(* The properties. *)

BusInv == MailInv /\ PlanType /\ CallType /\ Accounted

\* Every step of every task keeps the invariant.
THEOREM BusInvariant == Spec => []BusInv
  <1>1. Init => BusInv
    <2>1. Init => Accounted
      BY DEF Init, Accounted
    <2> QED  BY <2>1, InitMail DEF BusInv
  <1>2. BusInv /\ [Next]_vars => BusInv'
    <2> SUFFICES ASSUME BusInv, [Next]_vars PROVE BusInv'
      OBVIOUS
    <2>1. MailInv' /\ PlanType' /\ CallType' /\ Remembers
      BY Zenon, BusStep DEF BusInv
    <2>2. Accounted'
      BY Zenon, <2>1 DEF BusInv, Accounted, Remembers, Keeps
    <2> QED  BY <2>1, <2>2 DEF BusInv
  <1> QED  BY <1>1, <1>2, PTL DEF Spec

\* The types and the capacities: no channel, inbox or batch overflows.
THEOREM TypeCorrect == Spec => []TypeOK
  <1>1. BusInv => TypeOK
    <2> SUFFICES ASSUME BusInv PROVE TypeOK
      OBVIOUS
    <2>1. MailInv /\ PlanType /\ CallType
      BY Zenon DEF BusInv
    <2>2. \A r \in DOMAIN readers : \A i \in DOMAIN readers[r].back :
            readers[r].back[i] \in Message
      <3> SUFFICES ASSUME NEW r \in DOMAIN readers,
                          NEW i \in DOMAIN readers[r].back
                   PROVE  readers[r].back[i] \in Message
        OBVIOUS
      <3>1. readers[r].back[i] \in Sealed
        BY <2>1, ReaderParts
      <3> QED  BY Zenon, <3>1 DEF Sealed, Carried
    <2>3. main.want + Len(main.batch) <= Batch /\ Len(main.nacks) <= Batch
      <3>1. /\ main.want \in Nat /\ main.batch \in Seq(Sealed)
            /\ main.nacks \in Seq(Sealed)
            /\ main.want + Len(main.batch) + Len(main.nacks) <= Batch
        BY Zenon, <2>1, MailParts
      <3>2. Len(main.batch) \in Nat /\ Len(main.nacks) \in Nat
        BY <3>1
      <3> QED  BY <3>1, <3>2, Sizes
    <2>4. DOMAIN worker \subseteq Worker
      <3>1. worker \in Seq(Created) /\ Len(worker) <= MaxWorker
        BY Zenon, <2>1 DEF PlanType
      <3>2. DOMAIN worker = 1 .. Len(worker) /\ Len(worker) \in Nat
        BY <3>1
      <3> QED  BY <3>1, <3>2, Sizes DEF Worker
    <2>5. index \subseteq Worker /\ boxes \subseteq Worker
      BY Zenon, <2>1, <2>4 DEF PlanType
    <2> QED  BY Zenon, <2>1, <2>2, <2>3, <2>5 DEF TypeOK, MailInv, HistType,
                Bounded, PlanType, CallType
  <1> QED  BY <1>1, BusInvariant, PTL

\* No registration, deletion, relay or nack forgets an accepted message.
THEOREM NothingForgotten == Spec => []Accounted
  <1>1. BusInv => Accounted
    BY Zenon DEF BusInv
  <1> QED  BY <1>1, BusInvariant, PTL

\* Only the copy that is put into an inbox is stamped.
THEOREM AddressKept == Spec => []KeepsAddress
  <1>1. BusInv => KeepsAddress
    <2> SUFFICES ASSUME BusInv, NEW c \in Channel, NEW i \in DOMAIN chan[c]
                 PROVE  chan[c][i].to = sent[chan[c][i].id].to
      BY Zenon DEF KeepsAddress
    <2>1. chan[c][i] \in Sealed
      BY DEF BusInv, MailInv, MailType
    <2> QED  BY Zenon, <2>1, SealedFacts
  <1> QED  BY <1>1, BusInvariant, PTL

\* Two calls that hold a lock each and want the other's: only del_worker
\* takes worker_index first.
THEOREM LocksInOrder == Spec => []OnlyDelCrosses
  <1>1. OnlyDelCrosses
    <2> SUFFICES ASSUME NEW c \in calls, NEW d \in calls, Crossed(c, d),
                        c.at # "unname", d.at # "unname"
                 PROVE  FALSE
      BY Zenon DEF OnlyDelCrosses
    <2>1. PICK l \in Wants(c), k \in Wants(d) : lock[l] = d /\ lock[k] = c
      BY Zenon DEF Crossed
    <2>2. l \in Lock /\ k \in Lock
      BY Zenon, <2>1, LockOrder DEF Wants
    <2>3. Holds(c) # {} /\ Holds(d) # {}
      BY Zenon, <2>1, <2>2 DEF Holds
    <2>4. Order(c.at)[2] = "index" /\ Order(d.at)[2] = "index"
      BY Zenon DEF Order
    <2>5. /\ l = "index" /\ l \notin Holds(c)
          /\ k = "index" /\ k \notin Holds(d)
      BY Zenon, <2>1, <2>3, <2>4 DEF Wants
    <2> QED  BY Zenon, <2>1, <2>2, <2>5 DEF Holds
  <1> QED  BY <1>1, PTL

-----------------------------------------------------------------------------
(* Crossfire: every channel belongs to one topic. *)

Speaks(s, t) == \A i \in DOMAIN s : s[i].topic = t

\* own names the topic of every channel made so far.
Owned(own) ==
    /\ \A t \in Topic : tchan[t] # 0 => own[tchan[t]] = t
    /\ \A w \in DOMAIN worker : own[worker[w].chan] = worker[w].topic
    /\ \A r \in DOMAIN readers :
         /\ own[readers[r].chan] = readers[r].topic
         /\ Speaks(readers[r].back, own[readers[r].chan])
    /\ \A c \in Channel : Speaks(chan[c], own[c])

\* Channel 0 stays empty, and so does recv; the others are made in order.
Laid ==
    /\ chan[0] = << >> /\ main.want = 0
    /\ main.batch = << >> /\ main.nacks = << >>
    /\ \A t \in reg : tchan[t] # 0
    /\ \A t \in Topic : tchan[t] <= made
    /\ \A w \in DOMAIN worker : worker[w].chan \in 1 .. made
    /\ \A r \in DOMAIN readers : readers[r].chan \in 1 .. made
    /\ \A c \in Channel : c > made => chan[c] = << >>

Boxed == \A w \in Worker : \A i \in DOMAIN inbox[w] :
             w \in DOMAIN worker /\ inbox[w][i].topic = worker[w].topic

LaneInv ==
    crossfire => /\ Laid /\ Boxed
                 /\ \E own \in [Channel -> Topic \cup {NoTopic}] : Owned(own)

\* A sequence of messages of one topic, longer or shorter.
LEMMA SpeaksFacts ==
    ASSUME NEW S, NEW s \in Seq(S), NEW t, Speaks(s, t)
    PROVE  /\ \A m \in S : m.topic = t => Speaks(Append(s, m), t)
           /\ s # << >> => Head(s).topic = t /\ Speaks(Tail(s), t)
  <1>1. \A m \in S : m.topic = t => Speaks(Append(s, m), t)
    <2> SUFFICES ASSUME NEW m \in S, m.topic = t,
                        NEW i \in DOMAIN Append(s, m)
                 PROVE  Append(s, m)[i].topic = t
      BY Zenon DEF Speaks
    <2>1. \/ i \in DOMAIN s /\ Append(s, m)[i] = s[i]
          \/ Append(s, m)[i] = m
      OBVIOUS
    <2> QED  BY Zenon, <2>1 DEF Speaks
  <1>2. s # << >> => Head(s).topic = t /\ Speaks(Tail(s), t)
    BY IdsTail DEF Speaks
  <1> QED  BY Zenon, <1>1, <1>2

\* No message, or one.
LEMMA SpeaksOne ==
    ASSUME NEW m, NEW t
    PROVE  Speaks(<< >>, t) /\ (m.topic = t => Speaks(<<m>>, t))
  BY DEF Speaks

\* A step that only moves messages keeps the lanes if they keep the topics.
LEMMA LaneFlow ==
    ASSUME LaneInv, MailInv, PlanType, PlanStill, ReadersStill,
           crossfire => /\ UNCHANGED main /\ chan'[0] = << >>
                        /\ \A c \in Channel : c > made => chan'[c] = << >>
                        /\ Boxed',
           NEW own \in [Channel -> Topic \cup {NoTopic}],
           crossfire => /\ Owned(own)
                        /\ \A c \in Channel : Speaks(chan'[c], own[c])
                        /\ \A r \in DOMAIN readers :
                             Speaks(readers'[r].back, own[readers[r].chan])
    PROVE  LaneInv'
  <1>1. UNCHANGED <<backend, made, tchan, reg, worker>>
    BY Zenon DEF PlanStill, topics
  <1>2. crossfire' = crossfire
    BY Zenon, <1>1 DEF crossfire
  <1>3. crossfire => Laid'
    BY Zenon, <1>1 DEF LaneInv, Laid, ReadersStill
  <1>4. crossfire => Owned(own)'
    BY Zenon, <1>1 DEF LaneInv, Owned, ReadersStill
  <1> QED  BY Zenon, <1>2, <1>3, <1>4 DEF LaneInv

\* The messages on a lane, and those in a dispatcher's hand.
LEMMA ClaimLane ==
    ASSUME LaneInv, MailInv, PlanType, crossfire,
           NEW r \in DOMAIN readers, NEW m, Claims(r, m),
           NEW own \in [Channel -> Topic \cup {NoTopic}], Owned(own)
    PROVE  /\ m.topic = readers[r].topic
           /\ own[readers[r].chan] = readers[r].topic
           /\ \A c \in Channel : Speaks(chan'[c], own[c])
           /\ chan'[0] = << >>
           /\ \A c \in Channel : c > made => chan'[c] = << >>
  <1> DEFINE d == readers[r].chan
  <1>1. /\ m \in Sealed /\ d \in Channel
        /\ chan[d] # << >> /\ m = Head(chan[d])
        /\ chan'[d] = Tail(chan[d])
        /\ \A c \in Channel \ {d} : chan'[c] = chan[c]
    BY Zenon, ClaimMail
  <1>2. d \in 1 .. made /\ own[d] = readers[r].topic
    BY Zenon DEF LaneInv, Laid, Owned
  <1>3. Speaks(chan[d], own[d]) /\ chan[d] \in Seq(Sealed)
    BY Zenon, <1>1, MailParts DEF Owned
  <1> HIDE DEF d
  <1>4. m.topic = own[d] /\ Speaks(chan'[d], own[d])
    BY <1>1, <1>3, SpeaksFacts
  <1>5. \A c \in Channel : Speaks(chan'[c], own[c])
    BY Zenon, <1>1, <1>4 DEF Owned
  <1>6. 0 \in Channel /\ 0 # d /\ ~(d > made)
    BY <1>2, Sizes DEF Channel, PlanType
  <1>7. chan'[0] = << >>
    BY Zenon, <1>1, <1>6 DEF LaneInv, Laid
  <1>8. \A c \in Channel : c > made => chan'[c] = << >>
    BY Zenon, <1>1, <1>6 DEF LaneInv, Laid
  <1> QED  BY Zenon, <1>2, <1>4, <1>5, <1>7, <1>8 DEF d

\* A message is sent on, or back to, a lane of its topic.
LEMMA PutLane ==
    ASSUME LaneInv, PlanType, crossfire, NEW S, chan \in [Channel -> Seq(S)],
           \A c \in Channel : Len(chan[c]) <= Cap,
           NEW d \in 1 .. made, NEW m \in S, Put(d, m),
           NEW own \in [Channel -> Topic \cup {NoTopic}], Owned(own),
           m.topic = own[d]
    PROVE  /\ \A c \in Channel : Speaks(chan'[c], own[c])
           /\ chan'[0] = << >>
           /\ \A c \in Channel : c > made => chan'[c] = << >>
  <1>1. d \in Channel /\ 0 \in Channel /\ 0 # d /\ ~(d > made)
    BY Sizes DEF Channel, PlanType
  <1>2. /\ chan'[d] = Append(chan[d], m)
        /\ \A c \in Channel \ {d} : chan'[c] = chan[c]
    BY Zenon, <1>1, PutFacts
  <1>3. Speaks(chan'[d], own[d])
    <2>1. Speaks(chan[d], own[d]) /\ chan[d] \in Seq(S)
      BY Zenon, <1>1 DEF Owned
    <2> QED  BY <1>2, <2>1, SpeaksFacts
  <1>4. \A c \in Channel : Speaks(chan'[c], own[c])
    BY Zenon, <1>2, <1>3 DEF Owned
  <1>5. chan'[0] = << >>
    BY Zenon, <1>1, <1>2 DEF LaneInv, Laid
  <1>6. \A c \in Channel : c > made => chan'[c] = << >>
    BY Zenon, <1>1, <1>2 DEF LaneInv, Laid
  <1> QED  BY Zenon, <1>4, <1>5, <1>6

\* Flume and MPMC are not concerned.
LEMMA NoLanes ==
    ASSUME UNCHANGED backend, ~crossfire
    PROVE  LaneInv'
  BY Zenon DEF LaneInv, crossfire

\* A send goes to the queue of its topic.
LEMMA SendLane ==
    ASSUME LaneInv, MailInv, PlanType, crossfire,
           NEW t \in Topic, NEW w \in 0 .. MaxWorker, Send(t, w)
    PROVE  LaneInv'
  <1> DEFINE m == [id |-> Len(sent'), topic |-> t, to |-> w, hops |-> 0]
             d == routes[t]
  <1>1. /\ Accept(t, w) /\ Put(d, m) /\ d # 0 /\ PlanStill
        /\ UNCHANGED <<inbox, readers, main>>
    BY Zenon DEF Send, PlanStill, workers, tasks
  <1>2. PICK own \in [Channel -> Topic \cup {NoTopic}] : Owned(own)
    BY Zenon DEF LaneInv
  <1>3. m \in Sealed' /\ Sealed \subseteq Sealed' /\ m.topic = t
    BY Zenon, <1>1, SealedGrows DEF MailInv
  <1>4. chan \in [Channel -> Seq(Sealed')]
    <2>1. Seq(Sealed) \subseteq Seq(Sealed')
      BY Zenon, <1>3, SeqGrows
    <2> QED  BY Zenon, <2>1, MailParts
  <1>5. d = tchan[t] /\ d \in 1 .. made /\ own[d] = t
    <2>1. d = tchan[t] /\ d \in Channel /\ made \in Channel
      BY Zenon DEF PlanType
    <2>2. d <= made
      BY Zenon, <2>1 DEF LaneInv, Laid
    <2>3. own[d] = t
      BY Zenon, <1>1, <1>2, <2>1 DEF Owned
    <2> QED  BY <1>1, <2>1, <2>2, <2>3 DEF Channel
  <1> HIDE DEF m, d
  <1>6. /\ \A c \in Channel : Speaks(chan'[c], own[c])
        /\ chan'[0] = << >>
        /\ \A c \in Channel : c > made => chan'[c] = << >>
    BY Zenon, <1>1, <1>2, <1>3, <1>4, <1>5, MailParts, PutLane
  <1>7. Boxed'
    <2>1. UNCHANGED <<worker, inbox>>
      BY Zenon, <1>1 DEF PlanStill
    <2>2. Boxed
      BY Zenon DEF LaneInv
    <2> QED  BY Zenon, <2>1, <2>2 DEF Boxed
  <1>8. \A r \in DOMAIN readers : Speaks(readers'[r].back, own[readers[r].chan])
    BY Zenon, <1>1, <1>2 DEF Owned
  <1>9. ReadersStill
    BY Zenon, <1>1 DEF ReadersStill
  <1> QED  BY Zenon, <1>1, <1>2, <1>6, <1>7, <1>8, <1>9, LaneFlow

\* Dispatchers.
LEMMA BackLane ==
    ASSUME LaneInv, MailInv, PlanType, crossfire, PlanStill, ReadersStill,
           UNCHANGED <<main, inbox>>, NEW r \in DOMAIN readers, NEW m,
           Claims(r, m), NEW h, h.topic = m.topic,
           readers'[r].back = <<h>> \/ readers'[r] = readers[r],
           \A q \in DOMAIN readers \ {r} : readers'[q] = readers[q]
    PROVE  LaneInv'
  <1>1. PICK own \in [Channel -> Topic \cup {NoTopic}] : Owned(own)
    BY Zenon DEF LaneInv
  <1>2. /\ m.topic = readers[r].topic
        /\ own[readers[r].chan] = readers[r].topic
        /\ \A c \in Channel : Speaks(chan'[c], own[c])
        /\ chan'[0] = << >>
        /\ \A c \in Channel : c > made => chan'[c] = << >>
    BY Zenon, <1>1, ClaimLane
  <1>3. Speaks(readers'[r].back, own[readers[r].chan])
    <2>1. CASE readers'[r].back = <<h>>
      <3>1. h.topic = own[readers[r].chan]
        BY Zenon, <1>2
      <3> QED  BY Zenon, <2>1, <3>1, SpeaksOne
    <2>2. CASE readers'[r] = readers[r]
      BY Zenon, <1>1, <2>2 DEF Owned
    <2> QED  BY Zenon, <2>1, <2>2
  <1>4. \A q \in DOMAIN readers : Speaks(readers'[q].back, own[readers[q].chan])
    BY Zenon, <1>1, <1>3 DEF Owned
  <1>5. worker' = worker
    BY Zenon DEF PlanStill
  <1>6. Boxed'
    BY Zenon, <1>5 DEF LaneInv, Boxed
  <1> QED  BY Zenon, <1>1, <1>2, <1>4, <1>6, LaneFlow

\* A dispatcher delivers to a worker of its own topic.
LEMMA DeliverLane ==
    ASSUME LaneInv, MailInv, PlanType, crossfire, Moved,
           NEW r \in DOMAIN readers, NEW w \in Worker, NEW m, Deliver(r, w, m)
    PROVE  LaneInv'
  <1>1. /\ Claims(r, m) /\ PlanStill /\ ReadersStill /\ UNCHANGED main
        /\ w \in names[readers[r].topic]
        /\ \/ /\ UNCHANGED readers
              /\ inbox' = [inbox EXCEPT ![w] = Append(@, [m EXCEPT !.to = w])]
           \/ PutsBack(r, m) /\ UNCHANGED inbox
    BY Zenon DEF Deliver, Moved, Choices
  <1>2. m \in Sealed /\ readers[r].topic \in Topic /\ readers[r].back = << >>
    BY Zenon, <1>1, ClaimMail
  <1>3. CASE PutsBack(r, m) /\ UNCHANGED inbox
    <2>1. /\ readers'[r].back = <<m>>
          /\ \A q \in DOMAIN readers \ {r} : readers'[q] = readers[q]
      BY Zenon, <1>2, <1>3, MailParts, HandFacts
    <2> QED  BY Zenon, <1>1, <1>3, <2>1, BackLane
  <1>4. CASE /\ UNCHANGED readers
             /\ inbox' = [inbox EXCEPT ![w] = Append(@, [m EXCEPT !.to = w])]
    <2>1. PICK own \in [Channel -> Topic \cup {NoTopic}] : Owned(own)
      BY Zenon DEF LaneInv
    <2>2. /\ m.topic = readers[r].topic
          /\ \A c \in Channel : Speaks(chan'[c], own[c])
          /\ chan'[0] = << >>
          /\ \A c \in Channel : c > made => chan'[c] = << >>
      BY Zenon, <1>1, <2>1, ClaimLane
    <2>3. w \in DOMAIN worker /\ worker[w].topic = readers[r].topic
      BY Zenon, <1>1, <1>2 DEF PlanType
    <2> DEFINE s == [m EXCEPT !.to = w]
    <2>4. s \in Carried /\ s.topic = m.topic
      BY Zenon, <1>2, StampKeeps
    <2>5. inbox' = [inbox EXCEPT ![w] = Append(@, s)]
      BY Zenon, <1>4
    <2> HIDE DEF s
    <2>6. /\ \A v \in Worker \ {w} : inbox'[v] = inbox[v]
          /\ inbox'[w] = Append(inbox[w], s) /\ inbox[w] \in Seq(Carried)
      BY Zenon, <2>4, <2>5, MailParts, BoxFacts
    <2>7. Speaks(inbox[w], worker[w].topic)
      BY Zenon DEF LaneInv, Boxed, Speaks
    <2>8. Speaks(inbox'[w], worker[w].topic)
      BY <2>2, <2>3, <2>4, <2>6, <2>7, SpeaksFacts
    <2>9. worker' = worker
      BY Zenon, <1>1 DEF PlanStill
    <2>10. Boxed'
      <3> SUFFICES ASSUME NEW v \in Worker, NEW i \in DOMAIN inbox'[v]
                   PROVE  v \in DOMAIN worker
                          /\ inbox'[v][i].topic = worker[v].topic
        BY Zenon, <2>9 DEF Boxed
      <3>1. CASE v = w
        BY Zenon, <2>3, <2>8, <3>1 DEF Speaks
      <3>2. CASE v # w
        BY Zenon, <2>6, <3>2 DEF LaneInv, Boxed
      <3> QED  BY Zenon, <3>1, <3>2
    <2>11. \A q \in DOMAIN readers :
             Speaks(readers'[q].back, own[readers[q].chan])
      BY Zenon, <1>4, <2>1 DEF Owned
    <2> QED  BY Zenon, <1>1, <2>1, <2>2, <2>10, <2>11, LaneFlow
  <1> QED  BY Zenon, <1>1, <1>3, <1>4

\* What it nacks goes back where it came from;
LEMMA NackLane ==
    ASSUME LaneInv, MailInv, PlanType, crossfire, Moved,
           NEW r \in DOMAIN readers, NEW m, Nack(r, m)
    PROVE  LaneInv'
  <1>1. /\ Claims(r, m) /\ PutsBack(r, m) /\ PlanStill /\ ReadersStill
        /\ UNCHANGED <<main, inbox>>
    BY Zenon DEF Nack, Moved, workers
  <1>2. m \in Sealed /\ readers[r].back = << >>
    BY Zenon, <1>1, ClaimMail
  <1>3. /\ readers'[r].back = <<m>>
        /\ \A q \in DOMAIN readers \ {r} : readers'[q] = readers[q]
    BY Zenon, <1>1, <1>2, MailParts, HandFacts
  <1> QED  BY Zenon, <1>1, <1>3, BackLane

\* so does what it relays,
LEMMA RelayLane ==
    ASSUME LaneInv, MailInv, PlanType, crossfire, Moved,
           NEW r \in DOMAIN readers, NEW m, Relay(r, m)
    PROVE  LaneInv'
  <1>1. /\ Claims(r, m) /\ PlanStill /\ ReadersStill /\ UNCHANGED <<main, inbox>>
        /\ \/ m.hops < Hops /\ PutsBack(r, [m EXCEPT !.hops = @ + 1])
           \/ UNCHANGED readers
    BY Zenon DEF Relay, Moved, workers
  <1>2. m \in Sealed /\ readers[r].back = << >>
    BY Zenon, <1>1, ClaimMail
  <1>3. CASE m.hops < Hops /\ PutsBack(r, [m EXCEPT !.hops = @ + 1])
    <2> DEFINE h == [m EXCEPT !.hops = @ + 1]
    <2>1. h \in Sealed /\ h.topic = m.topic
      BY Zenon, <1>2, <1>3, HopKeeps
    <2>2. PutsBack(r, h)
      BY Zenon, <1>3
    <2> HIDE DEF h
    <2>3. /\ readers'[r].back = <<h>>
          /\ \A q \in DOMAIN readers \ {r} : readers'[q] = readers[q]
      BY Zenon, <1>2, <2>1, <2>2, MailParts, HandFacts
    <2> QED  BY Zenon, <1>1, <2>1, <2>3, BackLane
  <1>4. CASE UNCHANGED readers
    BY Zenon, <1>1, <1>4, BackLane
  <1> QED  BY Zenon, <1>1, <1>3, <1>4

\* and it arrives there.
LEMMA SendBackLane ==
    ASSUME LaneInv, MailInv, PlanType, crossfire, Moved,
           NEW r \in DOMAIN readers, SendBack(r)
    PROVE  LaneInv'
  <1> DEFINE m == Head(readers[r].back)
             d == readers[r].chan
  <1>1. /\ readers[r].back # << >>
        /\ readers' = [readers EXCEPT ![r].back = << >>]
        /\ Put(d, m) /\ PlanStill /\ ReadersStill /\ UNCHANGED <<main, inbox>>
    BY Zenon DEF SendBack, Moved, workers
  <1>2. /\ m \in Sealed /\ readers'[r].back = << >>
        /\ \A q \in DOMAIN readers \ {r} : readers'[q] = readers[q]
    BY Zenon, <1>1, MailParts, ClearFacts
  <1>3. PICK own \in [Channel -> Topic \cup {NoTopic}] : Owned(own)
    BY Zenon DEF LaneInv
  <1>4. d \in 1 .. made /\ Speaks(readers[r].back, own[d])
    BY Zenon, <1>3 DEF LaneInv, Laid, Owned
  <1>5. m.topic = own[d]
    <2>1. readers[r].back \in Seq(Sealed)
      BY Zenon, ReaderParts
    <2> QED  BY <1>1, <1>4, <2>1, SpeaksFacts
  <1> HIDE DEF m, d
  <1>6. /\ \A c \in Channel : Speaks(chan'[c], own[c])
        /\ chan'[0] = << >>
        /\ \A c \in Channel : c > made => chan'[c] = << >>
    <2>1. /\ chan \in [Channel -> Seq(Sealed)] /\ m \in Sealed /\ Put(d, m)
          /\ \A c \in Channel : Len(chan[c]) <= Cap
      BY Zenon, <1>1, <1>2, MailParts
    <2> QED  BY Zenon, <1>3, <1>4, <1>5, <2>1, PutLane
  <1>7. \A q \in DOMAIN readers : Speaks(readers'[q].back, own[readers[q].chan])
    BY ZenonT(60), <1>2, <1>3, SpeaksOne DEF Owned
  <1>8. worker' = worker
    BY Zenon, <1>1 DEF PlanStill
  <1>9. Boxed'
    BY Zenon, <1>1, <1>8 DEF LaneInv, Boxed
  <1> QED  BY Zenon, <1>1, <1>3, <1>6, <1>7, <1>9, LaneFlow

\* The other steps that move messages.
LEMMA HandleLane ==
    ASSUME LaneInv, MailInv, PlanType, crossfire, Moved,
           NEW w \in Worker, Handle(w)
    PROVE  LaneInv'
  <1>1. /\ inbox[w] # << >> /\ inbox' = [inbox EXCEPT ![w] = Tail(@)]
        /\ PlanStill /\ ReadersStill /\ UNCHANGED <<chan, readers, main>>
    BY Zenon DEF Handle, Moved, queues, tasks
  <1>2. PICK own \in [Channel -> Topic \cup {NoTopic}] : Owned(own)
    BY Zenon DEF LaneInv
  <1>3. /\ inbox[w] \in Seq(Carried) /\ inbox'[w] = Tail(inbox[w])
        /\ \A v \in Worker \ {w} : inbox'[v] = inbox[v]
    BY Zenon, <1>1, MailParts, UnboxFacts
  <1>4. Speaks(inbox[w], worker[w].topic) /\ w \in DOMAIN worker
    BY Zenon, <1>1, <1>3, IdsTail DEF LaneInv, Boxed, Speaks
  <1>5. Speaks(inbox'[w], worker[w].topic)
    BY <1>1, <1>3, <1>4, SpeaksFacts
  <1>6. worker' = worker
    BY Zenon, <1>1 DEF PlanStill
  <1>7. Boxed'
    <2> SUFFICES ASSUME NEW v \in Worker, NEW i \in DOMAIN inbox'[v]
                 PROVE  v \in DOMAIN worker
                        /\ inbox'[v][i].topic = worker[v].topic
      BY Zenon, <1>6 DEF Boxed
    <2>1. CASE v = w
      BY Zenon, <1>4, <1>5, <2>1 DEF Speaks
    <2>2. CASE v # w
      BY Zenon, <1>3, <2>2 DEF LaneInv, Boxed
    <2> QED  BY Zenon, <2>1, <2>2
  <1>8. /\ chan'[0] = << >> /\ \A c \in Channel : Speaks(chan'[c], own[c])
        /\ \A c \in Channel : c > made => chan'[c] = << >>
        /\ \A r \in DOMAIN readers :
             Speaks(readers'[r].back, own[readers[r].chan])
    BY Zenon, <1>1, <1>2 DEF LaneInv, Laid, Owned
  <1> QED  BY Zenon, <1>1, <1>2, <1>7, <1>8, LaneFlow

\* recv never gets a message on Crossfire.
LEMMA RecvLane ==
    ASSUME LaneInv, crossfire, Recv
    PROVE  FALSE
  <1>1. /\ chan[0] = << >> /\ main.want = 0
        /\ main.batch = << >> /\ main.nacks = << >>
    BY Zenon DEF LaneInv, Laid
  <1>2. Len(<< >>) = 0
    OBVIOUS
  <1>3. ~MainClaim
    BY <1>1, <1>2, BusAssumption DEF MainClaim
  <1>4. ~MainTake
    BY <1>1 DEF MainTake
  <1>5. ~MainUnknown /\ ~MainForward /\ ~MainSpawn /\ ~MainNack
    BY Zenon, <1>1 DEF MainUnknown, MainForward, MainSpawn, MainNack, Awake
  <1> QED  BY Zenon, <1>3, <1>4, <1>5 DEF Recv

\* A step that only empties inboxes and deletes topics.
LEMMA LaneAdmin ==
    ASSUME LaneInv, UNCHANGED <<backend, chan, main, made, tchan, worker, readers>>,
           reg' \subseteq reg,
           \A w \in Worker : inbox'[w] = inbox[w] \/ inbox'[w] = << >>
    PROVE  LaneInv'
  <1>1. crossfire' = crossfire
    BY Zenon DEF crossfire
  <1>2. Laid => Laid'
    BY Zenon DEF Laid
  <1>3. \A own : Owned(own) => Owned(own)'
    BY Zenon DEF Owned
  <1>4. Boxed => Boxed'
    <2>1. DOMAIN << >> = {}
      OBVIOUS
    <2> QED  BY Zenon, <2>1 DEF Boxed
  <1> QED  BY Zenon, <1>1, <1>2, <1>3, <1>4 DEF LaneInv

\* register: the new queue belongs to the topic, and no other changes hands.
LEMMA RegisterLane ==
    ASSUME LaneInv, PlanType, crossfire, NEW t \in Topic, Register(t)
    PROVE  LaneInv'
  <1>1. /\ made < MaxChan /\ made' = made + 1
        /\ tchan' = [tchan EXCEPT ![t] = made']
        /\ reg' = reg \cup {t}
        /\ UNCHANGED <<backend, chan, main, worker, readers, inbox>>
    BY Zenon DEF Register, CreateQueue, Flow, workers
  <1>2. PICK own \in [Channel -> Topic \cup {NoTopic}] : Owned(own)
    BY Zenon DEF LaneInv
  <1>3. made \in Nat /\ made' \in Nat \ {0}
    BY <1>1 DEF PlanType, Channel
  <1>4. /\ tchan'[t] = made' /\ \A u \in Topic \ {t} : tchan'[u] = tchan[u]
        /\ \A u \in Topic : tchan[u] \in Nat
    BY <1>1 DEF PlanType, Channel
  <1>5. Laid
    BY Zenon DEF LaneInv
  <1>6. Laid'
    <2>1. /\ chan'[0] = << >> /\ main'.want = 0
          /\ main'.batch = << >> /\ main'.nacks = << >>
      BY Zenon, <1>1, <1>5 DEF Laid
    <2>2. /\ \A u \in reg' : tchan'[u] # 0
          /\ \A u \in Topic : tchan'[u] <= made'
      BY <1>1, <1>3, <1>4, <1>5 DEF Laid, PlanType
    <2>3. \A k \in 1 .. made : k \in 1 .. made'
      BY <1>1, <1>3
    <2>4. /\ \A w \in DOMAIN worker' : worker'[w].chan \in 1 .. made'
          /\ \A r \in DOMAIN readers' : readers'[r].chan \in 1 .. made'
      BY Zenon, <1>1, <1>5, <2>3 DEF Laid
    <2>5. \A c \in Channel : c > made' => c > made
      BY <1>1, <1>3 DEF Channel
    <2>6. \A c \in Channel : c > made' => chan'[c] = << >>
      BY Zenon, <1>1, <1>5, <2>5 DEF Laid
    <2> QED  BY Zenon, <2>1, <2>2, <2>4, <2>6 DEF Laid
  <1>7. Boxed'
    <2>1. Boxed
      BY Zenon DEF LaneInv
    <2> QED  BY Zenon, <1>1, <2>1 DEF Boxed
  <1>8. made' \in Channel /\ made' > made /\ \A k \in 1 .. made : k # made'
    BY <1>1, <1>3, Sizes DEF Channel
  <1>9. PICK new \in [Channel -> Topic \cup {NoTopic}] :
          /\ new[made'] = t
          /\ \A c \in Channel : c # made' => new[c] = own[c]
    <2> DEFINE x == [own EXCEPT ![made'] = t]
    <2>1. /\ x \in [Channel -> Topic \cup {NoTopic}] /\ x[made'] = t
          /\ \A c \in Channel : c # made' => x[c] = own[c]
      BY Zenon, <1>8
    <2> QED  BY Zenon, <2>1
  <1>10. Owned(new)'
    <2>1. \A u \in Topic : tchan'[u] # 0 => new[tchan'[u]] = u
      <3> SUFFICES ASSUME NEW u \in Topic, tchan'[u] # 0
                   PROVE  new[tchan'[u]] = u
        OBVIOUS
      <3>1. CASE u = t
        BY Zenon, <1>4, <1>9, <3>1
      <3>2. CASE u # t
        <4>1. tchan'[u] = tchan[u] /\ tchan[u] \in Channel
          BY Zenon, <1>4, <3>2 DEF PlanType
        <4>2. tchan[u] # made'
          BY <1>1, <1>3, <1>4, <1>5 DEF Laid
        <4>3. own[tchan[u]] = u
          BY Zenon, <1>2, <4>1 DEF Owned
        <4> QED  BY Zenon, <1>9, <4>1, <4>2, <4>3
      <3> QED  BY Zenon, <3>1, <3>2
    <2>2. \A k \in 1 .. made : k \in Channel /\ new[k] = own[k]
      <3>1. \A k \in 1 .. made : k \in Channel
        BY <1>1, <1>3, Sizes DEF Channel
      <3> QED  BY Zenon, <1>8, <1>9, <3>1
    <2>3. \A w \in DOMAIN worker : new[worker[w].chan] = worker[w].topic
      BY Zenon, <1>2, <1>5, <2>2 DEF Laid, Owned
    <2>4. \A r \in DOMAIN readers :
            /\ new[readers[r].chan] = readers[r].topic
            /\ Speaks(readers[r].back, new[readers[r].chan])
      BY Zenon, <1>2, <1>5, <2>2 DEF Laid, Owned
    <2>5. \A c \in Channel : Speaks(chan[c], new[c])
      <3> SUFFICES ASSUME NEW c \in Channel PROVE Speaks(chan[c], new[c])
        OBVIOUS
      <3>1. CASE c = made'
        <4>1. chan[c] = << >>
          BY Zenon, <1>5, <1>8, <3>1 DEF Laid
        <4> QED  BY Zenon, <4>1, SpeaksOne
      <3>2. CASE c # made'
        BY Zenon, <1>2, <1>9, <3>2 DEF Owned
      <3> QED  BY Zenon, <3>1, <3>2
    <2>6. /\ \A w \in DOMAIN worker' : new[worker'[w].chan] = worker'[w].topic
          /\ \A r \in DOMAIN readers' :
            /\ new[readers'[r].chan] = readers'[r].topic
            /\ Speaks(readers'[r].back, new[readers'[r].chan])
          /\ \A c \in Channel : Speaks(chan'[c], new[c])
      BY Zenon, <1>1, <2>3, <2>4, <2>5
    <2> QED  BY Zenon, <2>1, <2>6 DEF Owned
  <1> QED  BY Zenon, <1>6, <1>7, <1>9, <1>10 DEF LaneInv

\* create_worker: the worker's producer is the topic's queue.
LEMMA CreateLane ==
    ASSUME LaneInv, PlanType, crossfire, NEW t \in Topic, CreateWorker(t)
    PROVE  LaneInv'
  <1> DEFINE w == Len(worker) + 1
  <1>1. /\ worker' = Append(worker, [topic |-> t, chan |-> tchan[t]])
        /\ t \in reg
        /\ UNCHANGED <<backend, chan, main, made, tchan, reg, readers, inbox>>
    BY Zenon DEF CreateWorker, Flow, topics
  <1>2. /\ DOMAIN worker' = DOMAIN worker \cup {w}
        /\ worker'[w].topic = t /\ worker'[w].chan = tchan[t]
        /\ \A v \in DOMAIN worker : worker'[v] = worker[v]
    BY <1>1, NewWorker
  <1> HIDE DEF w
  <1>3. Laid /\ Boxed
    BY Zenon DEF LaneInv
  <1>4. PICK own \in [Channel -> Topic \cup {NoTopic}] : Owned(own)
    BY Zenon DEF LaneInv
  <1>5. tchan[t] \in 1 .. made /\ own[tchan[t]] = t
    BY <1>1, <1>3, <1>4 DEF Laid, Owned, PlanType, Channel
  <1>6. \A v \in DOMAIN worker' :
          /\ worker'[v].chan \in 1 .. made
          /\ own[worker'[v].chan] = worker'[v].topic
    BY Zenon, <1>2, <1>3, <1>4, <1>5 DEF Laid, Owned
  <1>7. Laid'
    BY Zenon, <1>1, <1>3, <1>6 DEF Laid
  <1>8. Owned(own)'
    BY Zenon, <1>1, <1>4, <1>6 DEF Owned
  <1>9. Boxed'
    BY Zenon, <1>1, <1>2, <1>3 DEF Boxed
  <1> QED  BY Zenon, <1>4, <1>7, <1>8, <1>9 DEF LaneInv

\* start_worker: the new dispatcher reads its worker's queue.
LEMMA StartLane ==
    ASSUME LaneInv, MailInv, PlanType, CallType, crossfire, NEW c,
           StartWorker(c)
    PROVE  LaneInv'
  <1> DEFINE d == worker[c.w].chan
  <1>1. /\ c.t \in Topic /\ c.w \in DOMAIN worker /\ worker[c.w].topic = c.t
    BY Zenon, StartPlan
  <1>2. /\ readers' = IF c.t \in enabled THEN readers
                      ELSE Append(readers, Dispatcher(c.t, d))
        /\ UNCHANGED <<made, tchan, reg, worker, inbox, settled>>
        /\ UNCHANGED <<backend, chan, main, sent>>
    BY Zenon DEF StartWorker, Flow
  <1>3. CASE c.t \in enabled
    BY Zenon, <1>2, <1>3, LaneAdmin
  <1>4. CASE c.t \notin enabled
    <2> DEFINE n == Len(readers) + 1
    <2>1. d \in Channel
      BY Zenon, <1>1, CreatedParts
    <2>2. /\ DOMAIN readers' = DOMAIN readers \cup {n}
          /\ readers'[n] = Dispatcher(c.t, d)
          /\ \A r \in DOMAIN readers : readers'[r] = readers[r]
      BY Zenon, <1>1, <1>2, <1>4, <2>1, SpawnFacts
    <2>3. /\ readers'[n].topic = c.t /\ readers'[n].chan = d
          /\ readers'[n].back = << >>
      BY <2>2 DEF Dispatcher
    <2> HIDE DEF n
    <2>4. Laid /\ Boxed
      BY Zenon DEF LaneInv
    <2>5. PICK own \in [Channel -> Topic \cup {NoTopic}] : Owned(own)
      BY Zenon DEF LaneInv
    <2>6. d \in 1 .. made /\ own[d] = c.t
      BY Zenon, <1>1, <2>4, <2>5 DEF Laid, Owned
    <2> HIDE DEF d
    <2>7. Speaks(<< >>, own[d])
      BY Zenon, SpeaksOne
    <2>8. \A r \in DOMAIN readers' :
            /\ readers'[r].chan \in 1 .. made
            /\ own[readers'[r].chan] = readers'[r].topic
            /\ Speaks(readers'[r].back, own[readers'[r].chan])
      BY ZenonT(60), <2>2, <2>3, <2>4, <2>5, <2>6, <2>7 DEF Laid, Owned
    <2>9. Laid'
      BY Zenon, <1>2, <2>4, <2>8 DEF Laid
    <2>10. Owned(own)'
      BY Zenon, <1>2, <2>5, <2>8 DEF Owned
    <2>11. Boxed'
      BY Zenon, <1>2, <2>4 DEF Boxed
    <2> QED  BY Zenon, <2>5, <2>9, <2>10, <2>11 DEF LaneInv
  <1> QED  BY Zenon, <1>3, <1>4

\* Acquiring a lock, and the calls that leave the lanes alone.
LEMMA OtherLane ==
    ASSUME LaneInv, NEW c, \/ RegisterWorker(c) \/ GetWorkers(c) \/ Unname(c)
                           \/ Begin(c) \/ \E l \in Lock : Acquire(c, l)
    PROVE  LaneInv'
  <1>1. UNCHANGED <<backend, chan, main, made, tchan, worker, readers, reg,
                    inbox>>
    BY Zenon DEF RegisterWorker, GetWorkers, Unname, Begin, Acquire, Flow,
       topics, workers
  <1> QED  BY Zenon, <1>1, LaneAdmin

\* abort empties inboxes.
LEMMA AbortLane ==
    ASSUME LaneInv, NEW S, Abort(S), reg' \subseteq reg,
           UNCHANGED <<backend, chan, main, made, tchan, worker, readers>>
    PROVE  LaneInv'
  <1>1. \A w \in Worker : inbox'[w] = inbox[w] \/ inbox'[w] = << >>
    BY Zenon DEF Abort
  <1> QED  BY Zenon, <1>1, LaneAdmin

\* No channel is in use yet.
LEMMA InitLane == Init => LaneInv
  <1> SUFFICES ASSUME Init PROVE LaneInv
    OBVIOUS
  <1>1. \A r \in DOMAIN << >> : FALSE
    OBVIOUS
  <1>2. 0 \in Channel
    BY Sizes DEF Channel
  <1>3. Laid
    <2>1. /\ made = 0 /\ \A t \in Topic : tchan[t] <= made
          /\ \A c \in Channel : chan[c] = << >>
      BY DEF Init
    <2> QED  BY Zenon, <1>1, <1>2, <2>1 DEF Init, Laid
  <1>4. Boxed
    BY Zenon, <1>1 DEF Init, Boxed
  <1> DEFINE own == [c \in Channel |-> NoTopic]
  <1>5. own \in [Channel -> Topic \cup {NoTopic}]
    OBVIOUS
  <1> HIDE DEF own
  <1>6. Owned(own)
    BY Zenon, <1>1 DEF Init, Owned, Speaks
  <1> QED  BY Zenon, <1>3, <1>4, <1>5, <1>6 DEF LaneInv

\* No step changes the backend.
LEMMA SameBackend ==
    ASSUME [Next]_vars
    PROVE  UNCHANGED backend
  <1>1. ASSUME NEW r, ReaderLoop(r) PROVE UNCHANGED backend
    BY Zenon, <1>1 DEF ReaderLoop, SendBack, Nack, Relay, Deliver
  <1>2. CASE Recv
    BY Zenon, <1>2 DEF Recv, MainClaim, MainTake, MainUnknown, MainForward,
       MainSpawn, MainNack
  <1>3. ASSUME NEW c, Continue(c) PROVE UNCHANGED backend
    BY Zenon, <1>3 DEF Continue, StartWorker, RegisterWorker, GetWorkers,
       Unname, DelWorkers, Acquire, Flow
  <1>4. CASE UNCHANGED vars
    BY Zenon, <1>4 DEF vars
  <1> QED  BY Zenon, <1>1, <1>2, <1>3, <1>4 DEF Next, SendNowhere, Register,
              CreateWorker, Send, Handle, DelWorker, Begin, Flow

\* Every step keeps the lanes apart.
LEMMA LaneStep ==
    ASSUME LaneInv, MailInv, PlanType, CallType, [Next]_vars
    PROVE  LaneInv'
  <1>0. SUFFICES ASSUME crossfire PROVE LaneInv'
    BY Zenon, SameBackend, NoLanes
  <1>1. CASE \E t \in Topic : SendNowhere(t)
    <2>1. UNCHANGED <<backend, chan, main, made, tchan, worker, readers, reg,
                      inbox>>
      BY Zenon, <1>1 DEF SendNowhere, queues, topics, workers, tasks
    <2> QED  BY Zenon, <2>1, LaneAdmin
  <1>2. CASE \E t \in Topic, w \in 0 .. MaxWorker : Send(t, w)
    BY Zenon, <1>0, <1>2, SendLane
  <1>3. CASE \E r \in DOMAIN readers : ReaderLoop(r)
    <2>1. PICK r \in DOMAIN readers : ReaderLoop(r)
      BY Zenon, <1>3
    <2>2. Moved
      BY Zenon, <2>1, ReaderMail
    <2> QED  BY Zenon, <1>0, <2>1, <2>2, SendBackLane, NackLane, RelayLane,
                DeliverLane DEF ReaderLoop
  <1>4. CASE Recv
    BY Zenon, <1>0, <1>4, RecvLane
  <1>5. CASE \E w \in Worker : Handle(w)
    BY Zenon, <1>0, <1>5, HandleMail, HandleLane
  <1>6. CASE \E w \in Worker : DelWorker(w)
    <2>1. PICK w \in Worker : DelWorker(w)
      BY Zenon, <1>6
    <2>2. /\ Abort({w}) /\ reg' \subseteq reg
          /\ UNCHANGED <<backend, chan, main, made, tchan, worker, readers>>
      BY Zenon, <2>1 DEF DelWorker, Flow, topics
    <2> QED  BY Zenon, <2>2, AbortLane
  <1>7. CASE \E t \in Topic : Register(t) \/ CreateWorker(t)
    BY Zenon, <1>0, <1>7, RegisterLane, CreateLane
  <1>8. CASE \E c \in calls : Continue(c)
    <2>1. PICK c \in calls : Continue(c)
      BY Zenon, <1>8
    <2>2. CASE DelWorkers(c)
      <3>1. PICK S : Abort(S)
        BY Zenon, <2>2 DEF DelWorkers
      <3>2. /\ reg' \subseteq reg
            /\ UNCHANGED <<backend, chan, main, made, tchan, worker, readers>>
        BY Zenon, <2>2 DEF DelWorkers, Flow
      <3> QED  BY Zenon, <3>1, <3>2, AbortLane
    <2>3. CASE ~DelWorkers(c)
      BY Zenon, <1>0, <2>1, <2>3, StartLane, OtherLane DEF Continue
    <2> QED  BY Zenon, <2>2, <2>3
  <1>9. CASE \E s \in {"get", "purge"}, t \in Topic :
               Begin([at |-> s, w |-> NoWorker, t |-> t])
    BY Zenon, <1>9, OtherLane
  <1>10. CASE UNCHANGED vars
    <2>1. UNCHANGED <<backend, chan, main, made, tchan, worker, readers, reg,
                      inbox>>
      BY Zenon, <1>10 DEF vars, queues, topics, workers, tasks
    <2> QED  BY Zenon, <2>1, LaneAdmin
  <1> QED  BY Zenon, <1>1, <1>2, <1>3, <1>4, <1>5, <1>6, <1>7, <1>8, <1>9,
              <1>10 DEF Next

-----------------------------------------------------------------------------
(* Crossfire: the flag of a topic stands for one dispatcher. *)

\* A creation that has started its worker on the topic's queue found, or set,
\* the flag.
Flag(t) ==
    /\ t \in enabled => t \in reg
    /\ t \in reg /\ t \in enabled => \E r \in DOMAIN readers : Served(t) = {r}
    /\ t \in reg /\ t \notin enabled => Served(t) = {}
    /\ names[t] # {} => t \in enabled
    /\ \A c \in calls :
         (c.at = "register" /\ c.t = t
            /\ t \in reg /\ worker[c.w].chan = tchan[t]) => t \in enabled

Flagged == crossfire => \A t \in Topic \ spanned : Flag(t)

\* Who serves a topic depends on the readers' channels and the topic's own.
LEMMA ServedStill ==
    ASSUME ReadersStill, NEW t, tchan'[t] = tchan[t]
    PROVE  Served(t)' = Served(t)
  BY Zenon DEF ReadersStill, Served

\* A step that changes no topic but for its names.
LEMMA FlagStill ==
    ASSUME Flagged, CallType, ReadersStill,
           UNCHANGED <<backend, tchan, reg, enabled>>,
           spanned \subseteq spanned',
           \A t \in Topic : names'[t] # {} => names[t] # {},
           \A w \in DOMAIN worker : worker'[w] = worker[w],
           \A c \in calls' : c.at = "register" => c \in calls
    PROVE  Flagged'
  <1>1. \A t : Served(t)' = Served(t)
    BY Zenon, ServedStill
  <1>2. crossfire' = crossfire
    BY Zenon DEF crossfire
  <1>3. \A c \in calls' : c.at = "register" =>
           c \in calls /\ worker'[c.w] = worker[c.w]
    BY Zenon DEF CallType
  <1>4. SUFFICES ASSUME crossfire, NEW t \in Topic, t \notin spanned'
                 PROVE  Flag(t)'
    BY Zenon, <1>2 DEF Flagged
  <1>5. Flag(t)
    BY Zenon, <1>2, <1>4 DEF Flagged
  <1>6. DOMAIN readers' = DOMAIN readers
    BY Zenon DEF ReadersStill
  <1> QED  BY Zenon, <1>1, <1>3, <1>4, <1>5, <1>6 DEF Flag

\* A fresh queue has no dispatcher and no worker.
LEMMA RegisterFlag ==
    ASSUME Flagged, LaneInv, PlanType, CallType, crossfire,
           NEW t \in Topic, Register(t)
    PROVE  Flagged'
  <1>1. /\ t \notin reg /\ reg' = reg \cup {t}
        /\ made' = made + 1 /\ tchan' = [tchan EXCEPT ![t] = made']
        /\ UNCHANGED <<names, enabled, worker, readers, calls, spanned>>
    BY Zenon DEF Register, CreateQueue, Flow, workers, admin
  <1>2. Laid
    BY Zenon DEF LaneInv
  <1>3. /\ tchan'[t] = made' /\ \A u \in Topic \ {t} : tchan'[u] = tchan[u]
    BY Zenon, <1>1 DEF PlanType
  <1>4. \A k \in 1 .. made : k # made'
    BY <1>1 DEF PlanType, Channel
  <1>5. SUFFICES ASSUME NEW u \in Topic, u \notin spanned PROVE Flag(u)'
    BY Zenon, <1>1 DEF Flagged
  <1>6. Flag(u)
    BY Zenon, <1>5 DEF Flagged
  <1>7. CASE u = t
    <2>1. u \notin enabled /\ names[u] = {}
      BY Zenon, <1>1, <1>6, <1>7 DEF Flag
    <2>2. Served(u)' = {}
      BY Zenon, <1>1, <1>2, <1>3, <1>4, <1>7 DEF Served, Laid
    <2>3. \A c \in calls : c.at = "register" => worker[c.w].chan # made'
      BY Zenon, <1>2, <1>4 DEF Laid, CallType
    <2>4. \A c \in calls' : c.at = "register" => worker'[c.w].chan # tchan'[u]
      BY Zenon, <1>1, <1>3, <1>7, <2>3
    <2> QED  BY Zenon, <1>1, <2>1, <2>2, <2>4 DEF Flag
  <1>8. CASE u # t
    <2>1. ReadersStill
      BY Zenon, <1>1 DEF ReadersStill
    <2>2. Served(u)' = Served(u) /\ tchan'[u] = tchan[u]
      BY Zenon, <1>3, <1>8, <2>1, ServedStill
    <2>3. u \in reg' <=> u \in reg
      BY Zenon, <1>1, <1>8
    <2> QED  BY Zenon, <1>1, <1>6, <2>2, <2>3 DEF Flag
  <1> QED  BY Zenon, <1>7, <1>8

\* start_worker sets the flag and starts the dispatcher that it stands for.
LEMMA StartFlag ==
    ASSUME Flagged, LaneInv, MailInv, PlanType, CallType, crossfire,
           NEW c, StartWorker(c)
    PROVE  Flagged'
  <1> DEFINE d == worker[c.w].chan
             e == [c EXCEPT !.at = "register"]
             n == Len(readers) + 1
  <1>1. /\ c \in calls /\ c.t \in Topic /\ c.w \in DOMAIN worker
        /\ worker[c.w].topic = c.t
    BY Zenon, StartPlan
  <1>2. /\ readers' = IF c.t \in enabled THEN readers
                      ELSE Append(readers, Dispatcher(c.t, d))
        /\ calls' = (calls \ {c}) \cup {e} /\ enabled' = enabled \cup {c.t}
        /\ spanned' = IF c.t \in reg /\ d = tchan[c.t] THEN spanned
                      ELSE spanned \cup {c.t}
        /\ UNCHANGED <<tchan, reg, names, worker, inbox, settled>>
        /\ UNCHANGED <<backend, chan, main, sent>>
    BY Zenon DEF StartWorker, Flow, Spans
  <1>3. e.t = c.t /\ e.w = c.w
    BY Zenon, <1>1 DEF CallType, Call
  <1> HIDE DEF e
  <1>4. crossfire'
    BY Zenon, <1>2 DEF crossfire
  <1>5. SUFFICES ASSUME NEW u \in Topic, u \notin spanned' PROVE Flag(u)'
    BY Zenon DEF Flagged
  <1>6. Flag(u)
    BY Zenon, <1>2, <1>5 DEF Flagged
  <1>7. CASE c.t \in enabled
    <2>1. ReadersStill
      BY Zenon, <1>2, <1>7 DEF ReadersStill
    <2>2. Served(u)' = Served(u) /\ DOMAIN readers' = DOMAIN readers
      BY Zenon, <1>2, <2>1, ServedStill DEF ReadersStill
    <2>3. enabled' = enabled
      BY Zenon, <1>2, <1>7
    <2> QED  BY Zenon, <1>2, <1>3, <1>6, <1>7, <2>2, <2>3 DEF Flag
  <1>8. CASE c.t \notin enabled
    <2>1. d \in Channel
      BY Zenon, <1>1, CreatedParts
    <2>2. /\ DOMAIN readers' = DOMAIN readers \cup {n}
          /\ readers'[n] = Dispatcher(c.t, d)
          /\ \A r \in DOMAIN readers : readers'[r] = readers[r]
      BY Zenon, <1>1, <1>2, <1>8, <2>1, SpawnFacts
    <2>3. readers'[n].chan = d
      BY <2>2 DEF Dispatcher
    <2> HIDE DEF n
    <2>4. Served(u)' = IF d = tchan[u] THEN Served(u) \cup {n} ELSE Served(u)
      BY Zenon, <1>2, <2>2, <2>3 DEF Served
    <2>5. CASE u = c.t
      <3>1. u \in reg /\ d = tchan[u]
        BY Zenon, <1>2, <1>5, <2>5
      <3>2. Served(u) = {}
        BY Zenon, <1>6, <1>8, <2>5, <3>1 DEF Flag
      <3>3. Served(u)' = {n}
        BY Zenon, <2>4, <3>1, <3>2
      <3> QED  BY Zenon, <1>2, <2>2, <2>5, <3>1, <3>3 DEF Flag
    <2>6. CASE u # c.t
      <3>1. d # tchan[u]
        <4>1. PICK own \in [Channel -> Topic \cup {NoTopic}] : Owned(own)
          BY Zenon DEF LaneInv
        <4>2. own[d] = c.t /\ d \in 1 .. made
          BY Zenon, <1>1, <4>1 DEF LaneInv, Laid, Owned
        <4>3. tchan[u] # 0 => own[tchan[u]] = u
          BY Zenon, <4>1 DEF Owned
        <4>4. d # 0
          BY <4>2
        <4> QED  BY Zenon, <2>6, <4>2, <4>3, <4>4
      <3>2. Served(u)' = Served(u)
        BY Zenon, <2>4, <3>1
      <3>3. (u \in enabled' <=> u \in enabled)
            /\ \A x \in calls' : x.t = u => x \in calls
        BY Zenon, <1>2, <1>3, <2>6
      <3> QED  BY Zenon, <1>2, <1>6, <2>2, <3>2, <3>3 DEF Flag
    <2> QED  BY Zenon, <2>5, <2>6
  <1> QED  BY Zenon, <1>7, <1>8

\* register_worker: the worker joins the topic whose flag its creation set.
LEMMA RegisterWorkerFlag ==
    ASSUME Flagged, PlanType, CallType, crossfire, NEW c, MailInv,
           RegisterWorker(c)
    PROVE  Flagged'
  <1>1. c \in calls /\ c.t \in Topic
    BY Zenon, RegisterWorkerPlan
  <1>2. /\ c.at = "register" /\ calls' = calls \ {c}
        /\ names' = [t \in Topic |->
                    names[t] \cup IF t \in reg \cap {c.t} THEN {c.w} ELSE {}]
        /\ spanned' = IF c.t \in reg /\ worker[c.w].chan = tchan[c.t]
                      THEN spanned ELSE spanned \cup {c.t}
        /\ UNCHANGED <<tchan, reg, enabled, worker, readers>>
    BY Zenon DEF RegisterWorker, Returns, Spans
  <1>3. SUFFICES ASSUME NEW u \in Topic, u \notin spanned' PROVE Flag(u)'
    BY Zenon DEF Flagged
  <1>4. Flag(u)
    BY Zenon, <1>2, <1>3 DEF Flagged
  <1>5. Served(u)' = Served(u)
    BY Zenon, <1>2, ServedStill DEF ReadersStill
  <1>6. names'[u] # {} => u \in enabled
    <2>1. CASE u = c.t
      BY Zenon, <1>1, <1>2, <1>3, <1>4, <2>1 DEF Flag
    <2>2. CASE u # c.t
      BY Zenon, <1>2, <1>4, <2>2 DEF Flag
    <2> QED  BY Zenon, <2>1, <2>2
  <1> QED  BY Zenon, <1>2, <1>4, <1>5, <1>6 DEF Flag

\* del_workers: the flag goes with the topic.
LEMMA DelWorkersFlag ==
    ASSUME Flagged, PlanType, CallType, crossfire, NEW c, MailInv,
           DelWorkers(c)
    PROVE  Flagged'
  <1>1. c.t \in Topic /\ names'[c.t] = {}
    BY Zenon, DelWorkersPlan
  <1>2. /\ calls' = calls \ {c} /\ reg' = reg \ {c.t}
        /\ names' = [names EXCEPT ![c.t] = {}] /\ enabled' = enabled \ {c.t}
        /\ UNCHANGED <<tchan, worker, readers, spanned>>
    BY Zenon DEF DelWorkers, Returns
  <1>3. SUFFICES ASSUME NEW u \in Topic, u \notin spanned PROVE Flag(u)'
    BY Zenon, <1>2 DEF Flagged
  <1>4. CASE u = c.t
    <2>1. u \notin reg' /\ u \notin enabled' /\ names'[u] = {}
      BY Zenon, <1>1, <1>2, <1>4
    <2> QED  BY Zenon, <2>1 DEF Flag
  <1>5. CASE u # c.t
    <2>1. Flag(u)
      BY Zenon, <1>3 DEF Flagged
    <2>2. Served(u)' = Served(u)
      BY Zenon, <1>2, ServedStill DEF ReadersStill
    <2>3. /\ names'[u] = names[u] /\ (u \in reg' <=> u \in reg)
          /\ (u \in enabled' <=> u \in enabled)
      BY Zenon, <1>2, <1>5 DEF PlanType
    <2> QED  BY Zenon, <1>2, <2>1, <2>2, <2>3 DEF Flag
  <1> QED  BY Zenon, <1>4, <1>5

\* The calls that leave the topics, but for their names, alone.
LEMMA OtherFlag ==
    ASSUME Flagged, PlanType, CallType, NEW c,
           \/ GetWorkers(c) \/ Unname(c) \/ \E l \in Lock : Acquire(c, l)
    PROVE  Flagged'
  <1>1. UNCHANGED <<backend, tchan, reg, enabled, worker, readers, spanned>>
    BY Zenon DEF GetWorkers, Unname, Acquire, Flow, topics, workers
  <1>2. calls' \subseteq calls
    BY Zenon DEF GetWorkers, Unname, Acquire, Returns
  <1>3. \A t \in Topic : names'[t] \subseteq names[t]
    BY Zenon DEF GetWorkers, Unname, Acquire, topics
  <1>4. ReadersStill
    BY Zenon, <1>1 DEF ReadersStill
  <1> QED  BY Zenon, <1>1, <1>2, <1>3, <1>4, FlagStill

\* A call that starts is not one that has started its worker.
LEMMA BeginFlag ==
    ASSUME Flagged, PlanType, CallType, NEW c, c.at # "register",
           calls' = calls \cup {c},
           UNCHANGED <<backend, tchan, reg, enabled, names, readers, spanned>>,
           \A w \in DOMAIN worker : worker'[w] = worker[w]
    PROVE  Flagged'
  <1>1. ReadersStill
    BY Zenon DEF ReadersStill
  <1> QED  BY Zenon, <1>1, FlagStill

\* The flow of messages leaves flags and dispatchers alone.
LEMMA FlowFlag ==
    ASSUME Flagged, CallType, PlanStill, ReadersStill
    PROVE  Flagged'
  <1>1. UNCHANGED <<backend, tchan, reg, names, enabled, worker, calls, spanned>>
    BY Zenon DEF PlanStill, topics, admin
  <1> QED  BY Zenon, <1>1, FlagStill

\* Every step keeps one dispatcher to a flag.
LEMMA FlagStep ==
    ASSUME Flagged, LaneInv, MailInv, PlanType, CallType, [Next]_vars
    PROVE  Flagged'
  <1>0. SUFFICES ASSUME crossfire PROVE Flagged'
    <2>1. crossfire' = crossfire
      BY Zenon, SameBackend DEF crossfire
    <2> QED  BY Zenon, <2>1 DEF Flagged
  <1>1. CASE \E t \in Topic : SendNowhere(t)
    BY Zenon, <1>1, SendNowhereMail, FlowFlag
  <1>2. CASE \E t \in Topic, w \in 0 .. MaxWorker : Send(t, w)
    BY Zenon, <1>2, SendMail, FlowFlag
  <1>3. CASE \E r \in DOMAIN readers : ReaderLoop(r)
    BY Zenon, <1>3, ReaderMail, FlowFlag DEF Moved
  <1>4. CASE Recv
    BY Zenon, <1>4, RecvMail, FlowFlag DEF Moved
  <1>5. CASE \E w \in Worker : Handle(w)
    BY Zenon, <1>5, HandleMail, FlowFlag DEF Moved
  <1>6. CASE \E w \in Worker : DelWorker(w)
    <2>1. PICK w \in Worker : DelWorker(w)
      BY Zenon, <1>6
    <2> DEFINE c == [at |-> "unname", w |-> w, t |-> NoTopic]
    <2>2. /\ calls' = calls \cup {c}
          /\ UNCHANGED <<backend, tchan, reg, enabled, names, readers, spanned,
                         worker>>
      BY Zenon, <2>1 DEF DelWorker, Starts, topics, Flow
    <2>3. c.at # "register"
      OBVIOUS
    <2> HIDE DEF c
    <2> QED  BY Zenon, <2>2, <2>3, BeginFlag
  <1>7. CASE \E t \in Topic : Register(t)
    BY Zenon, <1>0, <1>7, RegisterFlag
  <1>8. CASE \E t \in Topic : CreateWorker(t)
    <2>1. PICK t \in Topic : CreateWorker(t)
      BY Zenon, <1>8
    <2> DEFINE c == [at |-> "flag", w |-> Len(worker) + 1, t |-> t]
    <2>2. /\ calls' = calls \cup {c}
          /\ worker' = Append(worker, [topic |-> t, chan |-> tchan[t]])
          /\ UNCHANGED <<backend, tchan, reg, enabled, names, readers, spanned>>
      BY Zenon, <2>1 DEF CreateWorker, Starts, topics, Flow
    <2>3. c.at # "register"
      OBVIOUS
    <2>4. \A v \in DOMAIN worker : worker'[v] = worker[v]
      BY Zenon, <2>2, NewWorker
    <2> HIDE DEF c
    <2> QED  BY Zenon, <2>2, <2>3, <2>4, BeginFlag
  <1>9. CASE \E c \in calls : Continue(c)
    BY Zenon, <1>0, <1>9, StartFlag, RegisterWorkerFlag, DelWorkersFlag,
       OtherFlag DEF Continue
  <1>10. CASE \E s \in {"get", "purge"}, t \in Topic :
               Begin([at |-> s, w |-> NoWorker, t |-> t])
    <2>1. PICK s \in {"get", "purge"}, t \in Topic :
               Begin([at |-> s, w |-> NoWorker, t |-> t])
      BY Zenon, <1>10
    <2> DEFINE c == [at |-> s, w |-> NoWorker, t |-> t]
    <2>2. /\ calls' = calls \cup {c}
          /\ UNCHANGED <<backend, tchan, reg, enabled, names, readers, spanned,
                         worker>>
      BY Zenon, <2>1 DEF Begin, Starts, topics, workers, Flow
    <2>3. c.at # "register"
      OBVIOUS
    <2> HIDE DEF c
    <2> QED  BY Zenon, <2>2, <2>3, BeginFlag
  <1>11. CASE UNCHANGED vars
    <2>1. PlanStill /\ ReadersStill
      BY Zenon, <1>11 DEF vars, PlanStill, ReadersStill, queues, workers, tasks
    <2> QED  BY Zenon, <2>1, FlowFlag
  <1> QED  BY Zenon, <1>1, <1>2, <1>3, <1>4, <1>5, <1>6, <1>7, <1>8, <1>9,
              <1>10, <1>11 DEF Next

-----------------------------------------------------------------------------
(* The properties. *)

LanesInv == LaneInv /\ Flagged

\* Every step keeps the lanes apart and one dispatcher to a flag.
THEOREM LanesInvariant == Spec => []LanesInv
  <1>1. Init => LanesInv
    <2> SUFFICES ASSUME Init PROVE LanesInv
      OBVIOUS
    <2>1. \A r \in DOMAIN << >> : FALSE
      OBVIOUS
    <2>2. Flagged
      BY Zenon, <2>1 DEF Init, Flagged, Flag
    <2> QED  BY <2>2, InitLane DEF LanesInv
  <1>2. BusInv /\ LanesInv /\ [Next]_vars => LanesInv'
    BY Zenon, LaneStep, FlagStep DEF BusInv, LanesInv
  <1> QED  BY <1>1, <1>2, BusInvariant, PTL DEF Spec

\* Crossfire: a message only reaches workers of its topic, since a queue
\* belongs to one topic for good (create_queue).
THEOREM RightTopics == Spec => []RightTopic
  <1>1. LanesInv => RightTopic
    BY Zenon DEF LanesInv, LaneInv, Boxed, RightTopic
  <1> QED  BY <1>1, BusInvariant, LanesInvariant, PTL

\* Crossfire: the flag of a topic stands for one dispatcher (start_worker,
\* del_workers), unless a creation spanned a deletion.
THEOREM SoleReader == Spec => []OneReader
  <1>1. BusInv /\ LanesInv => OneReader
    <2> SUFFICES ASSUME BusInv, LanesInv, crossfire, NEW t \in reg,
                        names[t] # {}, t \notin spanned
                 PROVE  /\ routes[t] = tchan[t]
                        /\ \E r \in Served(t) : Served(t) = {r}
      BY Zenon DEF OneReader
    <2>1. t \in Topic /\ routes = tchan
      BY Zenon DEF BusInv, PlanType
    <2>2. Flag(t)
      BY Zenon, <2>1 DEF LanesInv, Flagged
    <2>3. PICK r \in DOMAIN readers : Served(t) = {r}
      BY Zenon, <2>2 DEF Flag
    <2> QED  BY Zenon, <2>1, <2>3
  <1> QED  BY <1>1, BusInvariant, LanesInvariant, PTL
=============================================================================
