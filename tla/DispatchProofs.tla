--------------------------- MODULE DispatchProofs ---------------------------
(***************************************************************************)
(* Invariants of Dispatch, proved for every choice of its constants.       *)
(***************************************************************************)
EXTENDS Dispatch, TLAPS

-----------------------------------------------------------------------------
(* Messages and sequences of messages. *)

\* Stamping a message, counting an attempt or a consumption (which wraps)
\* gives a message with the same id; only a stamp changes the target.
LEMMA MsgOps ==
    \A m \in Msg :
        /\ m.id \in Id /\ m.to \in Worker \cup {NoWorker} /\ m.attempts \in Nat
        /\ \A w \in Worker : /\ Stamped(m, w) \in Msg
                             /\ Stamped(m, w).id = m.id
                             /\ Stamped(m, w).to = w
                             /\ Stamped(m, w).attempts = m.attempts
        /\ Attempted(m) \in Msg /\ Attempted(m).id = m.id
        /\ Attempted(m).to = m.to /\ Attempted(m).attempts = m.attempts + 1
        /\ Consumed(m) \in Msg /\ Consumed(m).id = m.id
        /\ Consumed(m).to = m.to /\ Consumed(m).attempts = m.attempts
  <1> TAKE m \in Msg
  <1>1. (m.consumed + 1) % CountMod \in Nat
    BY ConstantsAssumption DEF Msg
  <1> QED  BY <1>1 DEF Msg, Stamped, Attempted, Consumed

\* A message as TopicRouter::send accepts it.
LEMMA NewMsgType ==
    \A i \in Id, t \in Targets :
        /\ NewMsg(i, t) \in Msg /\ NewMsg(i, t).attempts = 0
        /\ NewMsg(i, t).id = i /\ NewMsg(i, t).to = t
  BY Zenon, ConstantsAssumption DEF NewMsg, Msg

\* What queue, inbox and claim operations do to sequences of messages.
LEMMA MsgSeq ==
    /\ \A s \in Seq(Msg), m \in Msg : Append(s, m) \in Seq(Msg)
    /\ \A s \in Seq(Msg) : s # <<>> => Head(s) \in Msg /\ Tail(s) \in Seq(Msg)
    /\ \A s, t \in Seq(Msg) : s \o t \in Seq(Msg)
    /\ <<>> \in Seq(Msg)
  OBVIOUS

\* Settling messages and failing a call keep the history well typed.
LEMMA SettleType ==
    ASSUME HistType, NEW S, NEW f \in Fate, Settle(S, f)
    PROVE  fate' \in [Id -> SUBSET Fate]
  BY Zenon DEF HistType, Settle

\* A failed backend call is counted within its bound.
LEMMA FaultType ==
    ASSUME HistType, Fault
    PROVE  faults' \in 0 .. MaxFaults
  BY ConstantsAssumption DEF HistType, Fault

\* A worker that has finished with a message, or goes on to send it back.
LEMMA FinishType ==
    ASSUME WorkType, NEW w \in Worker, Finish(w)
    PROVE  WorkType'
  BY Zenon, ConstantsAssumption DEF WorkType, Finish

\* A worker about to send a message back holds a well-formed one.
LEMMA SendBackType ==
    ASSUME WorkType, NEW w \in Worker, NEW m \in Msg, SendBack(w, m)
    PROVE  WorkType'
  <1>1. m # NoMsg
    BY Zenon, ConstantsAssumption
  <1> QED  BY Zenon, <1>1 DEF WorkType, SendBack

-----------------------------------------------------------------------------
(* Type correctness *)

\* The bus before the first worker is created is well typed.
LEMMA InitType == Init => TypeOK
  BY ConstantsAssumption, MsgSeq DEF Init, TypeOK, BusType, DispType,
     AdminType, WorkType, HistType, Idle, DispatcherPC, NoGen

\* TopicRouter::send, queued or scheduled, accepts only well-formed messages.
LEMMA SendType ==
    ASSUME TypeOK, NEW i \in Id, NEW t \in Targets, Send(i, t)
    PROVE  TypeOK'
  <1>1. BusType'
    BY Zenon, NewMsgType, MsgSeq DEF TypeOK, BusType, Send, Room, NewMsg,
       busVars, dispVars, adminVars, workVars, histVars
  <1>2. HistType'
    BY Zenon, ConstantsAssumption DEF TypeOK, HistType, Send, Room, NewMsg,
       busVars, dispVars, adminVars, workVars, histVars
  <1>3. DispType' /\ AdminType' /\ WorkType'
    BY Zenon DEF TypeOK, DispType, AdminType, WorkType, Send, Room, NewMsg,
       busVars, dispVars, adminVars, workVars, histVars
  <1> QED  BY Zenon, <1>1, <1>2, <1>3 DEF TypeOK

\* The type invariant survives SendDelayed.
LEMMA SendDelayedType ==
    ASSUME TypeOK, NEW i \in Id, NEW t \in Targets, SendDelayed(i, t)
    PROVE  TypeOK'
  <1>1. BusType'
    BY NewMsgType DEF TypeOK, BusType, SendDelayed, Schedule, NewMsg,
       busVars, dispVars, adminVars, workVars, histVars
  <1>2. HistType'
    BY Zenon, ConstantsAssumption DEF TypeOK, HistType, SendDelayed, Schedule,
       NewMsg, busVars, dispVars, adminVars, workVars, histVars
  <1>3. DispType' /\ AdminType' /\ WorkType'
    BY Zenon DEF TypeOK, DispType, AdminType, WorkType, SendDelayed, Schedule,
       NewMsg, busVars, dispVars, adminVars, workVars, histVars
  <1> QED  BY Zenon, <1>1, <1>2, <1>3 DEF TypeOK

\* The delay scheduler moves well-formed records only.
LEMMA FetchReadyType ==
    ASSUME TypeOK, FetchReady
    PROVE  TypeOK'
  <1>1. BusType'
    BY Zenon DEF TypeOK, BusType, FetchReady, busVars, dispVars, adminVars,
       workVars, histVars
  <1>2. DispType' /\ AdminType' /\ WorkType' /\ HistType'
    BY Zenon DEF TypeOK, DispType, AdminType, WorkType, HistType, FetchReady,
       busVars, dispVars, adminVars, workVars, histVars
  <1> QED  BY Zenon, <1>1, <1>2 DEF TypeOK

\* The type invariant survives FireDelayed.
LEMMA FireDelayedType ==
    ASSUME TypeOK, NEW m \in firing, FireDelayed(m)
    PROVE  TypeOK'
  <1>1. BusType'
    BY Zenon, MsgSeq DEF TypeOK, BusType, FireDelayed, busVars, dispVars,
       adminVars, workVars, histVars
  <1>2. HistType'
    BY Zenon, SettleType, FaultType DEF TypeOK, HistType, FireDelayed, busVars,
       dispVars, adminVars, workVars, histVars, Fate
  <1>3. DispType' /\ AdminType' /\ WorkType'
    BY Zenon DEF TypeOK, DispType, AdminType, WorkType, FireDelayed, busVars,
       dispVars, adminVars, workVars, histVars
  <1> QED  BY Zenon, <1>1, <1>2, <1>3 DEF TypeOK

\* The dispatcher's sweep and claim hand it well-formed messages.
LEMMA ClaimStaleType ==
    ASSUME TypeOK, NEW n \in Node, ClaimStale(n)
    PROVE  TypeOK'
  <1>1. BusType'
    BY Zenon, MsgSeq DEF TypeOK, BusType, ClaimStale, busVars, dispVars,
       adminVars, workVars, histVars
  <1>2. DispType'
    BY Zenon, MsgSeq DEF TypeOK, DispType, ClaimStale, busVars, dispVars,
       adminVars, workVars, histVars, BusType, NoGen
  <1>3. AdminType' /\ WorkType' /\ HistType'
    BY Zenon DEF TypeOK, AdminType, WorkType, HistType, ClaimStale, busVars,
       dispVars, adminVars, workVars, histVars
  <1> QED  BY Zenon, <1>1, <1>2, <1>3 DEF TypeOK

\* The type invariant survives Claim.
LEMMA ClaimType ==
    ASSUME TypeOK, NEW n \in Node, Claim(n)
    PROVE  TypeOK'
  <1>1. BusType'
    BY Zenon, MsgSeq DEF TypeOK, BusType, Claim
  <1>2. PICK m \in Msg, s \in Seq(Msg) :
            /\ held' = [held EXCEPT ![n] = m]
            /\ reclaimed' = [reclaimed EXCEPT ![n] = s]
    <2>1. CASE reclaimed[n] # <<>>
      <3>1. Head(reclaimed[n]) \in Msg /\ Tail(reclaimed[n]) \in Seq(Msg)
        BY Zenon, <2>1, MsgSeq DEF TypeOK, DispType
      <3> QED  BY Zenon, <2>1, <3>1 DEF Claim
    <2>2. CASE reclaimed[n] = <<>>
      <3>1. Head(queue) \in Msg /\ reclaimed[n] \in Seq(Msg)
        BY Zenon, <2>2, MsgSeq DEF TypeOK, BusType, DispType, Claim
      <3>2. reclaimed' = [reclaimed EXCEPT ![n] = reclaimed[n]]
        BY Zenon, <2>2 DEF Claim, TypeOK, DispType
      <3> QED  BY Zenon, <2>2, <3>1, <3>2 DEF Claim
    <2> QED  BY Zenon, <2>1, <2>2
  <1>3. DispType'
    BY Zenon, <1>2 DEF TypeOK, DispType, Claim, DispatcherPC, NoGen
  <1>4. AdminType' /\ WorkType' /\ HistType'
    BY Zenon DEF TypeOK, AdminType, WorkType, HistType, Claim, adminVars,
       workVars, histVars
  <1> QED  BY Zenon, <1>1, <1>3, <1>4 DEF TypeOK

\* Refreshing the worker cache keeps the held message.
LEMMA LoadGenerationType ==
    ASSUME TypeOK, NEW n \in Node, LoadGeneration(n)
    PROVE  TypeOK'
  <1>1. DispType'
    BY Zenon DEF TypeOK, DispType, LoadGeneration, busVars, dispVars,
       adminVars, workVars, histVars, AdminType, DispatcherPC, NoGen
  <1>2. BusType' /\ AdminType' /\ WorkType' /\ HistType'
    BY Zenon DEF TypeOK, BusType, AdminType, WorkType, HistType,
       LoadGeneration, busVars, dispVars, adminVars, workVars, histVars
  <1> QED  BY Zenon, <1>1, <1>2 DEF TypeOK

\* The type invariant survives ReadNames.
LEMMA ReadNamesType ==
    ASSUME TypeOK, NEW n \in Node, ReadNames(n)
    PROVE  TypeOK'
  <1>1. DispType'
    BY Zenon DEF TypeOK, DispType, ReadNames, busVars, dispVars, adminVars,
       workVars, histVars, AdminType, DispatcherPC, NoGen
  <1>2. BusType' /\ AdminType' /\ WorkType' /\ HistType'
    BY Zenon DEF TypeOK, BusType, AdminType, WorkType, HistType, ReadNames,
       busVars, dispVars, adminVars, workVars, histVars
  <1> QED  BY Zenon, <1>1, <1>2 DEF TypeOK

\* The type invariant survives FilterInboxes.
LEMMA FilterInboxesType ==
    ASSUME TypeOK, NEW n \in Node, FilterInboxes(n)
    PROVE  TypeOK'
  <1>1. DispType'
    BY Zenon DEF TypeOK, DispType, FilterInboxes, busVars, dispVars, adminVars,
       workVars, histVars, DispatcherPC, NoGen
  <1>2. BusType' /\ AdminType' /\ WorkType' /\ HistType'
    BY Zenon DEF TypeOK, BusType, AdminType, WorkType, HistType, FilterInboxes,
       busVars, dispVars, adminVars, workVars, histVars
  <1> QED  BY Zenon, <1>1, <1>2 DEF TypeOK

\* The targeted-miss branch, its drop and its relay.
LEMMA DropMissType ==
    ASSUME TypeOK, NEW n \in Node, DropMiss(n)
    PROVE  TypeOK'
  <1>1. DispType'
    BY Zenon DEF TypeOK, DispType, DropMiss, Misses, busVars, dispVars,
       adminVars, workVars, histVars, DispatcherPC, NoGen
  <1>2. HistType'
    BY Zenon, SettleType DEF TypeOK, HistType, DropMiss, Misses, busVars,
       dispVars, adminVars, workVars, histVars, Fate
  <1>3. BusType' /\ AdminType' /\ WorkType'
    BY Zenon DEF TypeOK, BusType, AdminType, WorkType, DropMiss, Misses,
       busVars, dispVars, adminVars, workVars, histVars
  <1> QED  BY Zenon, <1>1, <1>2, <1>3 DEF TypeOK

\* The type invariant survives RelayMiss.
LEMMA RelayMissType ==
    ASSUME TypeOK, NEW n \in Node, RelayMiss(n)
    PROVE  TypeOK'
  <1>1. held[n] \in Msg
    BY Zenon DEF TypeOK, DispType, RelayMiss
  <1>2. orphans' = orphans \/ orphans' = Append(orphans, held[n])
    BY Zenon DEF RelayMiss
  <1>3. BusType'
    BY Zenon, <1>1, <1>2, MsgSeq DEF TypeOK, BusType, RelayMiss
  <1>4. DispType'
    BY Zenon, <1>1, MsgOps DEF TypeOK, DispType, RelayMiss, DispatcherPC, NoGen
  <1>5. HistType'
    BY Zenon, FaultType DEF TypeOK, HistType, RelayMiss, histVars
  <1>6. AdminType' /\ WorkType'
    BY Zenon DEF TypeOK, AdminType, WorkType, RelayMiss, adminVars, workVars
  <1> QED  BY Zenon, <1>3, <1>4, <1>5, <1>6 DEF TypeOK

\* The type invariant survives Relay.
LEMMA RelayType ==
    ASSUME TypeOK, NEW n \in Node, Relay(n)
    PROVE  TypeOK'
  <1>1. BusType'
    BY Zenon, MsgSeq DEF TypeOK, BusType, Relay, NextClaim, busVars, dispVars,
       adminVars, workVars, histVars, DispType
  <1>2. DispType'
    BY Zenon DEF TypeOK, DispType, Relay, NextClaim, busVars, dispVars,
       adminVars, workVars, histVars, DispatcherPC, NoGen
  <1>3. HistType'
    BY Zenon, SettleType, FaultType DEF TypeOK, HistType, Relay, NextClaim,
       busVars, dispVars, adminVars, workVars, histVars, Fate
  <1>4. AdminType' /\ WorkType'
    BY Zenon DEF TypeOK, AdminType, WorkType, Relay, NextClaim, busVars,
       dispVars, adminVars, workVars, histVars
  <1> QED  BY Zenon, <1>1, <1>2, <1>3, <1>4 DEF TypeOK

\* Giving a claim back, and releasing it.
LEMMA NackType ==
    ASSUME TypeOK, NEW n \in Node, Nack(n)
    PROVE  TypeOK'
  <1>1. BusType'
    BY Zenon, MsgSeq DEF TypeOK, BusType, Nack, busVars, dispVars, adminVars,
       workVars, histVars, DispType
  <1>2. DispType'
    BY Zenon DEF TypeOK, DispType, Nack, busVars, dispVars, adminVars,
       workVars, histVars, DispatcherPC, NoGen
  <1>3. AdminType' /\ WorkType' /\ HistType'
    BY Zenon DEF TypeOK, AdminType, WorkType, HistType, Nack, busVars,
       dispVars, adminVars, workVars, histVars
  <1> QED  BY Zenon, <1>1, <1>2, <1>3 DEF TypeOK

\* The type invariant survives NackFails.
LEMMA NackFailsType ==
    ASSUME TypeOK, NEW n \in Node, NackFails(n)
    PROVE  TypeOK'
  <1>1. BusType'
    BY Zenon, MsgSeq DEF TypeOK, BusType, NackFails, NextClaim, busVars,
       dispVars, adminVars, workVars, histVars, DispType
  <1>2. DispType'
    BY Zenon DEF TypeOK, DispType, NackFails, NextClaim, busVars, dispVars,
       adminVars, workVars, histVars, DispatcherPC, NoGen
  <1>3. HistType'
    BY Zenon, FaultType DEF TypeOK, HistType, NackFails, NextClaim, busVars,
       dispVars, adminVars, workVars, histVars
  <1>4. AdminType' /\ WorkType'
    BY Zenon DEF TypeOK, AdminType, WorkType, NackFails, NextClaim, busVars,
       dispVars, adminVars, workVars, histVars
  <1> QED  BY Zenon, <1>1, <1>2, <1>3, <1>4 DEF TypeOK

\* The type invariant survives Ack.
LEMMA AckType ==
    ASSUME TypeOK, NEW n \in Node, Ack(n)
    PROVE  TypeOK'
  <1>1. BusType'
    BY Zenon, MsgSeq DEF TypeOK, BusType, Ack, NextClaim, busVars, dispVars,
       adminVars, workVars, histVars, DispType
  <1>2. DispType'
    BY Zenon DEF TypeOK, DispType, Ack, NextClaim, busVars, dispVars,
       adminVars, workVars, histVars, DispatcherPC, NoGen
  <1>3. HistType'
    BY Zenon, FaultType DEF TypeOK, HistType, Ack, NextClaim, busVars,
       dispVars, adminVars, workVars, histVars
  <1>4. AdminType' /\ WorkType'
    BY Zenon DEF TypeOK, AdminType, WorkType, Ack, NextClaim, busVars,
       dispVars, adminVars, workVars, histVars
  <1> QED  BY Zenon, <1>1, <1>2, <1>3, <1>4 DEF TypeOK

\* A node that loses its memory leaves well-typed state behind.
LEMMA CrashType ==
    ASSUME TypeOK, NEW n \in Node, Crash(n)
    PROVE  TypeOK'
  <1>1. BusType'
    BY Zenon, MsgSeq DEF TypeOK, BusType, Crash, Local, Idle, busVars,
       dispVars, adminVars, workVars, histVars, DispType, Claimed, Holding
  <1>2. DispType'
    BY Zenon, MsgSeq DEF TypeOK, DispType, Crash, Local, Idle, busVars,
       dispVars, adminVars, workVars, histVars, DispatcherPC, NoGen
  <1>3. AdminType'
    BY Zenon DEF TypeOK, AdminType, Crash, Local, Idle, busVars, dispVars,
       adminVars, workVars, histVars
  <1>4. WorkType'
    BY Zenon, MsgSeq, ConstantsAssumption DEF TypeOK, WorkType, Crash,
       Local, Idle, busVars, dispVars, adminVars, workVars, histVars
  <1>5. HistType'
    <2>1. fate' \in [Id -> SUBSET Fate]
      BY Zenon, SettleType DEF TypeOK, Crash, Fate
    <2>2. crashes' \in 0 .. MaxCrashes
      <3>1. crashes < MaxCrashes /\ crashes' = crashes + 1
        BY Zenon DEF Crash
      <3> QED  BY <3>1, ConstantsAssumption DEF TypeOK, HistType
    <2>3. UNCHANGED <<sent, target, acks, ackedBy, faults>>
      BY Zenon DEF Crash
    <2> QED  BY Zenon, <2>1, <2>2, <2>3 DEF TypeOK, HistType
  <1> QED  BY Zenon, <1>1, <1>2, <1>3, <1>4, <1>5 DEF TypeOK

\* try_send into an inbox, and its refusal.
LEMMA DeliverType ==
    ASSUME TypeOK, NEW n \in Node, NEW w \in Worker, Deliver(n, w)
    PROVE  TypeOK'
  <1>1. DispType'
    BY Zenon DEF TypeOK, DispType, Deliver, Selects, busVars, dispVars,
       adminVars, workVars, histVars, DispatcherPC, NoGen
  <1>2. WorkType'
    BY Zenon, MsgSeq, MsgOps DEF TypeOK, WorkType, Deliver, Selects, busVars,
       dispVars, adminVars, workVars, histVars, DispType
  <1>3. BusType' /\ AdminType' /\ HistType'
    BY Zenon DEF TypeOK, BusType, AdminType, HistType, Deliver, Selects,
       busVars, dispVars, adminVars, workVars, histVars
  <1> QED  BY Zenon, <1>1, <1>2, <1>3 DEF TypeOK

\* The type invariant survives Refused.
LEMMA RefusedType ==
    ASSUME TypeOK, NEW n \in Node, NEW w \in Worker, Refused(n, w)
    PROVE  TypeOK'
  <1>1. DispType'
    BY Zenon DEF TypeOK, DispType, Refused, Selects, busVars, dispVars,
       adminVars, workVars, histVars, DispatcherPC, NoGen
  <1>2. BusType' /\ AdminType' /\ WorkType' /\ HistType'
    BY Zenon DEF TypeOK, BusType, AdminType, WorkType, HistType, Refused,
       Selects, busVars, dispVars, adminVars, workVars, histVars
  <1> QED  BY Zenon, <1>1, <1>2 DEF TypeOK

\* The worker's inbox loop.
LEMMA ReceiveType ==
    ASSUME TypeOK, NEW w \in Worker, Receive(w)
    PROVE  TypeOK'
  <1>1. WorkType'
    BY MsgSeq, ConstantsAssumption DEF TypeOK, WorkType, Receive, busVars,
       dispVars, adminVars, workVars, histVars
  <1>2. BusType' /\ DispType' /\ AdminType' /\ HistType'
    BY Zenon DEF TypeOK, BusType, DispType, AdminType, HistType, Receive,
       busVars, dispVars, adminVars, workVars, histVars
  <1> QED  BY Zenon, <1>1, <1>2 DEF TypeOK

\* Ack::Ack with its Repeated branch.
LEMMA HandlerAckType ==
    ASSUME TypeOK, NEW w \in Worker, HandlerAck(w)
    PROVE  TypeOK'
  <1> DEFINE m == Consumed(cur[w])
  <1>1. m \in Msg /\ m.id \in Id
    <2>1. cur[w] \in Msg
      BY Zenon DEF TypeOK, WorkType, HandlerAck
    <2> QED  BY Zenon, <2>1, MsgOps
  <1>2. \/ SendBack(w, m) /\ UNCHANGED fate
        \/ Finish(w) /\ Settle({m.id}, "done")
    BY Zenon DEF HandlerAck
  <1>3. /\ acks' = [acks EXCEPT ![m.id] = @ + 1]
        /\ ackedBy' = [ackedBy EXCEPT ![m.id] = @ \cup {w}]
        /\ UNCHANGED <<delayed, faults>>
    BY Zenon DEF HandlerAck
  <1> HIDE DEF m
  <1>4. WorkType'
    BY Zenon, <1>1, <1>2, FinishType, SendBackType DEF TypeOK
  <1>5. HistType'
    <2>1. fate' \in [Id -> SUBSET Fate]
      BY Zenon, <1>2, SettleType DEF TypeOK, HistType, Fate
    <2>2. acks' \in [Id -> Nat] /\ ackedBy' \in [Id -> SUBSET Worker]
      BY <1>1, <1>3 DEF TypeOK, HistType
    <2> QED  BY Zenon, <1>2, <1>3, <2>1, <2>2 DEF TypeOK, HistType,
                SendBack, Finish
  <1>6. BusType' /\ DispType' /\ AdminType'
    BY Zenon, <1>2, <1>3 DEF TypeOK, BusType, DispType, AdminType, SendBack,
       Finish, dispVars, adminVars
  <1> QED  BY Zenon, <1>4, <1>5, <1>6 DEF TypeOK

\* Ack::Dead and the errors process_msg returns.
LEMMA HandlerDeadType ==
    ASSUME TypeOK, NEW w \in Worker, HandlerDead(w)
    PROVE  TypeOK'
  <1>1. WorkType'
    BY Zenon, ConstantsAssumption DEF TypeOK, WorkType, HandlerDead, Finish,
       busVars, dispVars, adminVars, workVars, histVars
  <1>2. HistType'
    BY Zenon, SettleType DEF TypeOK, HistType, HandlerDead, Finish, busVars,
       dispVars, adminVars, workVars, histVars, Fate
  <1>3. BusType' /\ DispType' /\ AdminType'
    BY Zenon DEF TypeOK, BusType, DispType, AdminType, HandlerDead, Finish,
       busVars, dispVars, adminVars, workVars, histVars
  <1> QED  BY Zenon, <1>1, <1>2, <1>3 DEF TypeOK

\* The type invariant survives ProcessFails.
LEMMA ProcessFailsType ==
    ASSUME TypeOK, NEW w \in Worker, ProcessFails(w)
    PROVE  TypeOK'
  <1>1. WorkType'
    BY Zenon, ConstantsAssumption DEF TypeOK, WorkType, ProcessFails, Finish,
       busVars, dispVars, adminVars, workVars, histVars
  <1>2. HistType'
    <2>1. fate' \in [Id -> SUBSET Fate] /\ faults' \in 0 .. MaxFaults
      BY Zenon, SettleType, FaultType DEF TypeOK, ProcessFails, Fate
    <2>2. /\ acks' \in {acks, [acks EXCEPT ![cur[w].id] = @ + 1]}
          /\ ackedBy' \in {ackedBy, [ackedBy EXCEPT ![cur[w].id] = @ \cup {w}]}
      BY Zenon DEF ProcessFails
    <2>3. /\ acks' \in [Id -> Nat]
          /\ ackedBy' \in [Id -> SUBSET Worker]
      BY <2>2 DEF TypeOK, HistType
    <2>4. UNCHANGED <<sent, target, crashes>>
      BY Zenon DEF ProcessFails, Finish
    <2> QED  BY Zenon, <2>1, <2>2, <2>3, <2>4 DEF TypeOK, HistType
  <1>3. BusType' /\ DispType' /\ AdminType'
    BY Zenon DEF TypeOK, BusType, DispType, AdminType, ProcessFails, Finish,
       busVars, dispVars, adminVars, workVars, histVars
  <1> QED  BY Zenon, <1>1, <1>2, <1>3 DEF TypeOK

\* producer.send of the copy process_msg sends back, and its failure.
LEMMA RequeueType ==
    ASSUME TypeOK, NEW w \in Worker, Requeue(w)
    PROVE  TypeOK'
  <1>1. BusType'
    BY Zenon, MsgSeq DEF TypeOK, BusType, Requeue, busVars, dispVars,
       adminVars, workVars, histVars, WorkType
  <1>2. WorkType'
    BY Zenon, ConstantsAssumption DEF TypeOK, WorkType, Requeue, busVars,
       dispVars, adminVars, workVars, histVars
  <1>3. DispType' /\ AdminType' /\ HistType'
    BY Zenon DEF TypeOK, DispType, AdminType, HistType, Requeue, busVars,
       dispVars, adminVars, workVars, histVars
  <1> QED  BY Zenon, <1>1, <1>2, <1>3 DEF TypeOK

\* The type invariant survives RequeueFails.
LEMMA RequeueFailsType ==
    ASSUME TypeOK, NEW w \in Worker, RequeueFails(w)
    PROVE  TypeOK'
  <1>1. WorkType'
    BY Zenon, ConstantsAssumption DEF TypeOK, WorkType, RequeueFails, Finish,
       busVars, dispVars, adminVars, workVars, histVars
  <1>2. HistType'
    BY Zenon, SettleType, FaultType DEF TypeOK, HistType, RequeueFails, Finish,
       busVars, dispVars, adminVars, workVars, histVars, Fate
  <1>3. BusType' /\ DispType' /\ AdminType'
    BY Zenon DEF TypeOK, BusType, DispType, AdminType, RequeueFails, Finish,
       busVars, dispVars, adminVars, workVars, histVars
  <1> QED  BY Zenon, <1>1, <1>2, <1>3 DEF TypeOK

\* create_worker and register_worker.
LEMMA CreateWorkerType ==
    ASSUME TypeOK, NEW w \in Worker, CreateWorker(w)
    PROVE  TypeOK'
  <1>1. DispType'
    BY Zenon, ConstantsAssumption DEF TypeOK, DispType, CreateWorker, Idle,
       busVars, dispVars, adminVars, workVars, histVars, DispatcherPC, NoGen
  <1>2. AdminType'
    BY Zenon, ConstantsAssumption DEF TypeOK, AdminType, CreateWorker, Idle,
       busVars, dispVars, adminVars, workVars, histVars
  <1>3. BusType' /\ WorkType' /\ HistType'
    BY Zenon DEF TypeOK, BusType, WorkType, HistType, CreateWorker, Idle,
       busVars, dispVars, adminVars, workVars, histVars
  <1> QED  BY Zenon, <1>1, <1>2, <1>3 DEF TypeOK

\* The type invariant survives RegisterWorker.
LEMMA RegisterWorkerType ==
    ASSUME TypeOK, NEW w \in Worker, RegisterWorker(w)
    PROVE  TypeOK'
  <1>1. AdminType'
    <2>1. /\ names' = [names EXCEPT ![Home[w]] = @ \cup {w}]
          /\ gen' = [gen EXCEPT ![Home[w]] = @ + 1]
          /\ UNCHANGED <<inboxes, task>>
      BY Zenon DEF RegisterWorker
    <2>2. admin' \in [Node -> [op : {"idle", "register", "delinbox", "delnames"},
                               w : Worker \cup {NoWorker}]]
      BY Zenon, ConstantsAssumption DEF TypeOK, AdminType, RegisterWorker, Idle
    <2>3. names' \in [Node -> SUBSET Worker]
      BY Zenon, <2>1, ConstantsAssumption DEF TypeOK, AdminType
    <2>4. gen' \in [Node -> Nat]
      BY <2>1, ConstantsAssumption DEF TypeOK, AdminType
    <2> QED  BY Zenon, <2>1, <2>2, <2>3, <2>4 DEF TypeOK, AdminType
  <1>2. BusType' /\ DispType' /\ WorkType' /\ HistType'
    BY Zenon DEF TypeOK, BusType, DispType, WorkType, HistType, RegisterWorker,
       Idle, busVars, dispVars, adminVars, workVars, histVars
  <1> QED  BY Zenon, <1>1, <1>2 DEF TypeOK

\* del_worker: abort, inbox, name.
LEMMA DelWorkerType ==
    ASSUME TypeOK, NEW w \in Worker, DelWorker(w)
    PROVE  TypeOK'
  <1>1. AdminType'
    BY Zenon, ConstantsAssumption DEF TypeOK, AdminType, DelWorker, Idle,
       busVars, dispVars, adminVars, workVars, histVars
  <1>2. BusType' /\ DispType' /\ WorkType' /\ HistType'
    BY Zenon DEF TypeOK, BusType, DispType, WorkType, HistType, DelWorker,
       Idle, busVars, dispVars, adminVars, workVars, histVars
  <1> QED  BY Zenon, <1>1, <1>2 DEF TypeOK

\* The type invariant survives DelInbox.
LEMMA DelInboxType ==
    ASSUME TypeOK, NEW w \in Worker, DelInbox(w)
    PROVE  TypeOK'
  <1>1. AdminType'
    BY Zenon, ConstantsAssumption DEF TypeOK, AdminType, DelInbox, Idle,
       busVars, dispVars, adminVars, workVars, histVars
  <1>2. BusType' /\ DispType' /\ WorkType' /\ HistType'
    BY Zenon DEF TypeOK, BusType, DispType, WorkType, HistType, DelInbox, Idle,
       busVars, dispVars, adminVars, workVars, histVars
  <1> QED  BY Zenon, <1>1, <1>2 DEF TypeOK

\* The type invariant survives DelNames.
LEMMA DelNamesType ==
    ASSUME TypeOK, NEW w \in Worker, DelNames(w)
    PROVE  TypeOK'
  <1>1. AdminType'
    <2>1. /\ names' = [names EXCEPT ![Home[w]] = @ \ {w}]
          /\ gen' = [gen EXCEPT ![Home[w]] = @ + 1]
          /\ UNCHANGED <<inboxes, task>>
      BY Zenon DEF DelNames
    <2>2. admin' \in [Node -> [op : {"idle", "register", "delinbox", "delnames"},
                               w : Worker \cup {NoWorker}]]
      BY Zenon, ConstantsAssumption DEF TypeOK, AdminType, DelNames, Idle
    <2>3. names' \in [Node -> SUBSET Worker]
      BY Zenon, <2>1, ConstantsAssumption DEF TypeOK, AdminType
    <2>4. gen' \in [Node -> Nat]
      BY <2>1, ConstantsAssumption DEF TypeOK, AdminType
    <2> QED  BY Zenon, <2>1, <2>2, <2>3, <2>4 DEF TypeOK, AdminType
  <1>2. BusType' /\ DispType' /\ WorkType' /\ HistType'
    BY Zenon DEF TypeOK, BusType, DispType, WorkType, HistType, DelNames, Idle,
       busVars, dispVars, adminVars, workVars, histVars
  <1> QED  BY Zenon, <1>1, <1>2 DEF TypeOK

\* The end of an aborted worker's task and channel.
LEMMA CancelTaskType ==
    ASSUME TypeOK, NEW w \in Worker, CancelTask(w)
    PROVE  TypeOK'
  <1>1. AdminType'
    BY Zenon DEF TypeOK, AdminType, CancelTask, busVars, dispVars, adminVars,
       workVars, histVars
  <1>2. WorkType'
    BY Zenon, ConstantsAssumption DEF TypeOK, WorkType, CancelTask, busVars,
       dispVars, adminVars, workVars, histVars
  <1>3. HistType'
    BY Zenon, SettleType DEF TypeOK, HistType, CancelTask, busVars, dispVars,
       adminVars, workVars, histVars, Fate
  <1>4. BusType' /\ DispType'
    BY Zenon DEF TypeOK, BusType, DispType, CancelTask, busVars, dispVars,
       adminVars, workVars, histVars
  <1> QED  BY Zenon, <1>1, <1>2, <1>3, <1>4 DEF TypeOK

\* The type invariant survives CloseInbox.
LEMMA CloseInboxType ==
    ASSUME TypeOK, NEW w \in Worker, CloseInbox(w)
    PROVE  TypeOK'
  <1>1. AdminType'
    BY Zenon DEF TypeOK, AdminType, CloseInbox, busVars, dispVars, adminVars,
       workVars, histVars
  <1>2. WorkType'
    BY Zenon, MsgSeq DEF TypeOK, WorkType, CloseInbox, busVars, dispVars,
       adminVars, workVars, histVars
  <1>3. HistType'
    BY Zenon, SettleType DEF TypeOK, HistType, CloseInbox, busVars, dispVars,
       adminVars, workVars, histVars, Fate
  <1>4. BusType' /\ DispType'
    BY Zenon DEF TypeOK, BusType, DispType, CloseInbox, busVars, dispVars,
       adminVars, workVars, histVars
  <1> QED  BY Zenon, <1>1, <1>2, <1>3, <1>4 DEF TypeOK

\* Ack::NoAck: exhausted, delayed or immediate retry.
LEMMA HandlerNoAckType ==
    ASSUME TypeOK, NEW w \in Worker, NEW r \in RetryLimits,
           NEW later \in BOOLEAN, HandlerNoAck(w, r, later)
    PROVE  TypeOK'
  <1> DEFINE m == Attempted(cur[w])
  <1>1. m \in Msg /\ m.id \in Id
    <2>1. cur[w] \in Msg
      BY Zenon DEF TypeOK, WorkType, HandlerNoAck
    <2> QED  BY Zenon, <2>1, MsgOps
  <1>2. \/ SendBack(w, m) /\ UNCHANGED <<delayed, fate>>
        \/ Finish(w) /\ Schedule(m) /\ UNCHANGED fate
        \/ Finish(w) /\ Settle({m.id}, "exhausted") /\ UNCHANGED delayed
    BY Zenon DEF HandlerNoAck
  <1>3. UNCHANGED <<acks, ackedBy, faults>>
    BY Zenon DEF HandlerNoAck
  <1> HIDE DEF m
  <1>4. BusType'
    BY Zenon, <1>1, <1>2 DEF TypeOK, BusType, SendBack, Finish, Schedule
  <1>5. WorkType'
    BY Zenon, <1>1, <1>2, FinishType, SendBackType DEF TypeOK
  <1>6. HistType'
    <2>1. fate' \in [Id -> SUBSET Fate]
      BY Zenon, <1>2, SettleType DEF TypeOK, HistType, Fate
    <2> QED  BY Zenon, <1>2, <1>3, <2>1 DEF TypeOK, HistType, SendBack, Finish
  <1>7. DispType' /\ AdminType'
    BY Zenon, <1>2 DEF TypeOK, DispType, AdminType, SendBack, Finish, dispVars,
       adminVars
  <1> QED  BY Zenon, <1>4, <1>5, <1>6, <1>7 DEF TypeOK

\* Every reachable state of the topic is well typed: in particular a
\* dispatcher past its claim holds a message, and a worker holds one exactly
\* while it runs the handler or sends the message back.
THEOREM TypeCorrect == Spec => []TypeOK
  <1>1. TypeOK /\ [Next]_vars => TypeOK'
    <2> SUFFICES ASSUME TypeOK, [Next]_vars
                 PROVE  TypeOK'
      OBVIOUS
    <2>1. CASE \E i \in Id, t \in Targets : Send(i, t) \/ SendDelayed(i, t)
      BY Zenon, <2>1, SendType, SendDelayedType
    <2>2. CASE Scheduler
      BY Zenon, <2>2, FetchReadyType, FireDelayedType DEF Scheduler
    <2>3. ASSUME NEW n \in Node, Dispatcher(n)
          PROVE  TypeOK'
      BY Zenon, <2>3, ClaimStaleType, ClaimType, LoadGenerationType,
         ReadNamesType, FilterInboxesType, DeliverType, RefusedType,
         DropMissType, RelayMissType, RelayType, NackType, NackFailsType,
         AckType DEF Dispatcher
    <2>4. ASSUME NEW n \in Node, Crash(n)
          PROVE  TypeOK'
      BY Zenon, <2>4, CrashType
    <2>5. ASSUME NEW w \in Worker, WorkerLoop(w)
          PROVE  TypeOK'
      BY Zenon, <2>5, ReceiveType, HandlerAckType, HandlerDeadType,
         ProcessFailsType, HandlerNoAckType, RequeueType, RequeueFailsType
         DEF WorkerLoop, Handle
    <2>6. ASSUME NEW w \in Worker, Administer(w)
          PROVE  TypeOK'
      BY Zenon, <2>6, CreateWorkerType, RegisterWorkerType, DelWorkerType,
         DelInboxType, DelNamesType, CancelTaskType, CloseInboxType
         DEF Administer
    <2>7. CASE UNCHANGED vars
      BY Zenon, <2>7 DEF vars, busVars, dispVars, adminVars, workVars,
         histVars, TypeOK, BusType, DispType, AdminType, WorkType, HistType
    <2> QED  BY Zenon, <2>1, <2>2, <2>3, <2>4, <2>5, <2>6, <2>7 DEF Next
  <1> QED  BY <1>1, InitType, PTL DEF Spec

-----------------------------------------------------------------------------
(***************************************************************************)
(* The dispatcher's worker cache is never stale without knowing it.        *)
(***************************************************************************)

\* What register_worker and del_worker keep between the names, the inboxes and
\* the generation of node n.
AdminInv(n) ==
    /\ names[n] \subseteq Local(n)
    /\ admin[n] = Idle \/ (admin[n].op # "idle" /\ admin[n].w \in Local(n))
    /\ names[n] \subseteq inboxes
          \cup (IF admin[n].op = "delnames" THEN {admin[n].w} ELSE {})
    /\ admin[n].op = "register" => admin[n].w \in inboxes

\* What the dispatcher knows of them: at "filter" the names it has read, later
\* the names whose inboxes it found, unless the generation has moved on.
CacheInv(n) ==
    /\ loaded[n] <= gen[n] /\ seen[n] <= gen[n]
    /\ pc[n] = "filter" /\ loaded[n] = gen[n] => cached[n] = names[n]
    /\ pc[n] # "filter" /\ seen[n] = gen[n] /\ admin[n].op # "delnames"
          => cached[n] = names[n]

FreshInv == \A n \in Node : AdminInv(n) /\ CacheInv(n)

-----------------------------------------------------------------------------
\* Steps of dispatchers that neither refresh the cache nor change the workers.
LEMMA FreshStill ==
    ASSUME FreshInv, UNCHANGED <<adminVars, loaded, seen, cached>>,
           \A n \in Node : pc'[n] = "filter" <=> pc[n] = "filter"
    PROVE  FreshInv'
  BY Zenon DEF FreshInv, AdminInv, CacheInv, adminVars, Local

\* The three steps of a refresh, and the reset after a refused delivery.
LEMMA FreshDispatcher ==
    ASSUME TypeOK, FreshInv, NEW n \in Node, Dispatcher(n)
    PROVE  FreshInv'
  <1>1. CASE \/ ClaimStale(n) \/ Claim(n) \/ DropMiss(n) \/ RelayMiss(n)
             \/ Relay(n) \/ Nack(n) \/ NackFails(n) \/ Ack(n)
             \/ \E w \in Worker : Deliver(n, w)
    <2>1. /\ UNCHANGED <<adminVars, loaded, seen, cached>>
          /\ \A d \in Node : pc'[d] = "filter" <=> pc[d] = "filter"
      BY Zenon, <1>1 DEF ClaimStale, Claim, DropMiss, RelayMiss, Relay, Nack,
         NackFails, Ack, NextClaim, Deliver, TypeOK, DispType
    <2> QED  BY Zenon, <2>1, FreshStill
  <1>2. CASE \/ LoadGeneration(n) \/ ReadNames(n) \/ FilterInboxes(n)
             \/ \E w \in Worker : Refused(n, w)
    <2>1. UNCHANGED adminVars
      BY Zenon, <1>2 DEF LoadGeneration, ReadNames, FilterInboxes, Refused
    <2>2. \A d \in Node : AdminInv(d)'
      BY Zenon, <2>1 DEF FreshInv, AdminInv, adminVars, Local
    <2>3. \A d \in Node \ {n} : CacheInv(d)'
      BY ZenonT(60), <1>2, <2>1 DEF LoadGeneration, ReadNames, FilterInboxes,
         Refused, FreshInv, CacheInv, adminVars, TypeOK, DispType
    <2>4. CASE LoadGeneration(n)
      <3>1. CacheInv(n)'
        BY <2>1, <2>4 DEF LoadGeneration, FreshInv, CacheInv, adminVars,
           TypeOK, DispType, AdminType
      <3> QED  BY Zenon, <2>2, <2>3, <3>1 DEF FreshInv
    <2>5. CASE ReadNames(n)
      <3>1. CacheInv(n)'
        BY Zenon, <2>1, <2>5 DEF ReadNames, FreshInv, CacheInv, adminVars,
           TypeOK, DispType
      <3> QED  BY Zenon, <2>2, <2>3, <3>1 DEF FreshInv
    <2>6. CASE FilterInboxes(n)
      <3>1. /\ pc[n] = "filter" /\ pc'[n] # "filter" /\ seen'[n] = loaded[n]
            /\ cached'[n] = cached[n] \cap inboxes /\ loaded'[n] = loaded[n]
        BY Zenon, <2>6 DEF FilterInboxes, TypeOK, DispType
      <3>2. admin[n].op # "delnames" => names[n] \subseteq inboxes
        BY Zenon DEF FreshInv, AdminInv
      <3>3. loaded[n] = gen[n] /\ admin[n].op # "delnames"
              => cached[n] \cap inboxes = names[n]
        BY Zenon, <3>1, <3>2 DEF FreshInv, CacheInv
      <3>4. CacheInv(n)'
        BY Zenon, <2>1, <3>1, <3>3 DEF FreshInv, CacheInv, adminVars
      <3> QED  BY Zenon, <2>2, <2>3, <3>4 DEF FreshInv
    <2>7. ASSUME NEW w \in Worker, Refused(n, w)
          PROVE  FreshInv'
      <3>1. CacheInv(n)'
        BY <2>1, <2>7 DEF Refused, FreshInv, CacheInv, adminVars, TypeOK,
           DispType, AdminType, NoGen
      <3> QED  BY Zenon, <2>2, <2>3, <3>1 DEF FreshInv
    <2> QED  BY Zenon, <1>2, <2>4, <2>5, <2>6, <2>7
  <1> QED  BY Zenon, <1>1, <1>2 DEF Dispatcher

\* A creation or a deletion in progress on one node concerns no other node.
LEMMA FreshElsewhere ==
    ASSUME FreshInv, NEW w \in Worker, NEW d \in Node, d # Home[w],
           names'[d] = names[d], gen'[d] = gen[d], admin'[d] = admin[d],
           inboxes \ {w} \subseteq inboxes',
           pc'[d] = pc[d], UNCHANGED <<loaded, seen, cached>>
    PROVE  AdminInv(d)' /\ CacheInv(d)'
  <1>1. w \notin Local(d)
    BY Zenon DEF Local
  <1>2. AdminInv(d)'
    BY <1>1 DEF FreshInv, AdminInv, Idle, Local
  <1>3. CacheInv(d)'
    BY Zenon DEF FreshInv, CacheInv
  <1> QED  BY Zenon, <1>2, <1>3

\* create_worker and del_worker: the name goes in after the inbox and comes
\* out after it, each time with a new generation.
LEMMA FreshAdminister ==
    ASSUME TypeOK, FreshInv, NEW w \in Worker, Administer(w)
    PROVE  FreshInv'
  <1>0. PICK n \in Node : n = Home[w]
    BY Zenon, ConstantsAssumption
  <1>1. n \in Node /\ w \in Local(n)
    BY Zenon, <1>0 DEF Local
  <1>2. CASE CancelTask(w) \/ CloseInbox(w)
    <2>1. UNCHANGED <<names, gen, inboxes, admin, pc, loaded, seen, cached>>
      BY Zenon, <1>2 DEF CancelTask, CloseInbox, dispVars
    <2> QED  BY Zenon, <2>1 DEF FreshInv, AdminInv, CacheInv, Local
  <1>3. CASE \/ CreateWorker(w) \/ RegisterWorker(w) \/ DelWorker(w)
             \/ DelInbox(w) \/ DelNames(w)
    <2>1. /\ inboxes \ {w} \subseteq inboxes'
          /\ UNCHANGED <<loaded, seen, cached>>
          /\ pc'[n] = "filter" <=> pc[n] = "filter"
      BY Zenon, <1>0, <1>1, <1>3 DEF CreateWorker, RegisterWorker, DelWorker,
         DelInbox, DelNames, dispVars, TypeOK, DispType
    <2>2. \A d \in Node \ {n} : /\ names'[d] = names[d] /\ gen'[d] = gen[d]
                                /\ admin'[d] = admin[d] /\ pc'[d] = pc[d]
      BY Zenon, <1>0, <1>1, <1>3 DEF CreateWorker, RegisterWorker, DelWorker,
         DelInbox, DelNames, dispVars, TypeOK, DispType, AdminType
    <2>3. \A d \in Node \ {n} : AdminInv(d)' /\ CacheInv(d)'
      BY Zenon, <2>1, <2>2, FreshElsewhere, <1>0
    <2>4. AdminInv(n) /\ CacheInv(n)
      BY Zenon, <1>1 DEF FreshInv
    <2>5. CASE CreateWorker(w)
      <3>1. /\ admin[n] = Idle /\ admin'[n] = [op |-> "register", w |-> w]
            /\ inboxes' = inboxes \cup {w} /\ UNCHANGED <<names, gen>>
        BY Zenon, <1>0, <1>1, <2>5 DEF CreateWorker, TypeOK, AdminType
      <3>2. /\ admin[n].op = "idle"
            /\ admin'[n].op = "register" /\ admin'[n].w = w
        BY <3>1 DEF Idle
      <3>3. AdminInv(n)'
        BY Zenon, <1>1, <2>4, <3>1, <3>2 DEF AdminInv, Local
      <3>4. CacheInv(n)'
        BY Zenon, <2>1, <2>4, <3>1, <3>2 DEF CacheInv
      <3> QED  BY Zenon, <2>3, <3>3, <3>4 DEF FreshInv
    <2>6. CASE RegisterWorker(w)
      <3>1. /\ admin[n] = [op |-> "register", w |-> w] /\ admin'[n] = Idle
            /\ names'[n] = names[n] \cup {w} /\ gen'[n] = gen[n] + 1
            /\ inboxes' = inboxes
        BY Zenon, <1>0, <1>1, <2>6 DEF RegisterWorker, TypeOK, AdminType
      <3>2. AdminInv(n)'
        <4>1. /\ admin[n].op = "register" /\ admin[n].w = w
              /\ admin'[n].op = "idle"
          BY <3>1 DEF Idle
        <4> QED  BY Zenon, <1>1, <2>4, <3>1, <4>1 DEF AdminInv, Local
      <3>3. CacheInv(n)'
        <4>1. gen[n] \in Nat /\ loaded[n] \in Nat /\ seen[n] \in Int
          BY <1>1 DEF TypeOK, DispType, AdminType, NoGen
        <4>2. loaded[n] <= gen[n] /\ seen[n] <= gen[n]
          BY Zenon, <2>4 DEF CacheInv
        <4>3. /\ loaded'[n] = loaded[n] /\ seen'[n] = seen[n]
              /\ gen'[n] = gen[n] + 1
          BY Zenon, <2>1, <3>1
        <4>4. /\ loaded'[n] <= gen'[n] /\ loaded'[n] # gen'[n]
              /\ seen'[n] <= gen'[n] /\ seen'[n] # gen'[n]
          BY <4>1, <4>2, <4>3
        <4> QED  BY Zenon, <4>4 DEF CacheInv
      <3> QED  BY Zenon, <2>3, <3>2, <3>3 DEF FreshInv
    <2>7. CASE DelWorker(w)
      <3>1. /\ admin[n] = Idle /\ admin'[n] = [op |-> "delinbox", w |-> w]
            /\ UNCHANGED <<names, gen, inboxes>>
        BY Zenon, <1>0, <1>1, <2>7 DEF DelWorker, TypeOK, AdminType
      <3>2. /\ admin[n].op = "idle"
            /\ admin'[n].op = "delinbox" /\ admin'[n].w = w
        BY <3>1 DEF Idle
      <3>3. AdminInv(n)'
        BY Zenon, <1>1, <2>4, <3>1, <3>2 DEF AdminInv, Local
      <3>4. CacheInv(n)'
        BY Zenon, <2>1, <2>4, <3>1, <3>2 DEF CacheInv
      <3> QED  BY Zenon, <2>3, <3>3, <3>4 DEF FreshInv
    <2>8. CASE DelInbox(w)
      <3>1. /\ admin[n] = [op |-> "delinbox", w |-> w]
            /\ admin'[n] = [op |-> "delnames", w |-> w]
            /\ inboxes' = inboxes \ {w} /\ UNCHANGED <<names, gen>>
        BY Zenon, <1>0, <1>1, <2>8 DEF DelInbox, TypeOK, AdminType
      <3>2. /\ admin[n].op = "delinbox"
            /\ admin'[n].op = "delnames" /\ admin'[n].w = w
        BY <3>1
      <3>3. AdminInv(n)'
        BY Zenon, <1>1, <2>4, <3>1, <3>2 DEF AdminInv, Local
      <3>4. CacheInv(n)'
        BY Zenon, <2>1, <2>4, <3>1, <3>2 DEF CacheInv
      <3> QED  BY Zenon, <2>3, <3>3, <3>4 DEF FreshInv
    <2>9. CASE DelNames(w)
      <3>1. /\ admin[n] = [op |-> "delnames", w |-> w] /\ admin'[n] = Idle
            /\ names'[n] = names[n] \ {w} /\ gen'[n] = gen[n] + 1
            /\ inboxes' = inboxes
        BY Zenon, <1>0, <1>1, <2>9 DEF DelNames, TypeOK, AdminType
      <3>2. AdminInv(n)'
        <4>1. /\ admin[n].op = "delnames" /\ admin[n].w = w
              /\ admin'[n].op = "idle"
          BY <3>1 DEF Idle
        <4> QED  BY Zenon, <1>1, <2>4, <3>1, <4>1 DEF AdminInv, Local
      <3>3. CacheInv(n)'
        <4>1. gen[n] \in Nat /\ loaded[n] \in Nat /\ seen[n] \in Int
          BY <1>1 DEF TypeOK, DispType, AdminType, NoGen
        <4>2. loaded[n] <= gen[n] /\ seen[n] <= gen[n]
          BY Zenon, <2>4 DEF CacheInv
        <4>3. /\ loaded'[n] = loaded[n] /\ seen'[n] = seen[n]
              /\ gen'[n] = gen[n] + 1
          BY Zenon, <2>1, <3>1
        <4>4. /\ loaded'[n] <= gen'[n] /\ loaded'[n] # gen'[n]
              /\ seen'[n] <= gen'[n] /\ seen'[n] # gen'[n]
          BY <4>1, <4>2, <4>3
        <4> QED  BY Zenon, <4>4 DEF CacheInv
      <3> QED  BY Zenon, <2>3, <3>2, <3>3 DEF FreshInv
    <2> QED  BY Zenon, <1>3, <2>5, <2>6, <2>7, <2>8, <2>9
  <1> QED  BY Zenon, <1>2, <1>3 DEF Administer

\* A restarted node has no workers and an empty cache.
LEMMA FreshCrash ==
    ASSUME TypeOK, FreshInv, NEW n \in Node, Crash(n)
    PROVE  FreshInv'
  <1>1. /\ names'[n] = {} /\ gen'[n] = 0 /\ admin'[n] = Idle /\ pc'[n] = "off"
        /\ loaded'[n] = 0 /\ seen'[n] = NoGen /\ cached'[n] = {}
    BY Zenon DEF Crash, TypeOK, DispType, AdminType
  <1>2. \A d \in Node \ {n} :
            /\ names'[d] = names[d] /\ gen'[d] = gen[d] /\ admin'[d] = admin[d]
            /\ pc'[d] = pc[d] /\ loaded'[d] = loaded[d] /\ seen'[d] = seen[d]
            /\ cached'[d] = cached[d]
    BY Zenon DEF Crash, TypeOK, DispType, AdminType
  <1>3. inboxes' = inboxes \ Local(n)
    BY Zenon DEF Crash
  <1>4. AdminInv(n)' /\ CacheInv(n)'
    BY <1>1 DEF AdminInv, CacheInv, Idle, NoGen
  <1>5. ASSUME NEW d \in Node \ {n}
        PROVE  AdminInv(d)' /\ CacheInv(d)'
    <2>1. Local(d) \cap Local(n) = {}
      BY Zenon, <1>5 DEF Local
    <2>2. AdminInv(d)'
      BY <1>2, <1>3, <1>5, <2>1 DEF FreshInv, AdminInv, Idle, Local
    <2>3. CacheInv(d)'
      BY Zenon, <1>2, <1>5 DEF FreshInv, CacheInv
    <2> QED  BY Zenon, <2>2, <2>3
  <1> QED  BY Zenon, <1>4, <1>5 DEF FreshInv

\* Whenever the generation a dispatcher has seen is the current one, and no
\* creation or deletion is half done, it routes over exactly the registered
\* workers.
THEOREM CachesFresh == Spec => []CacheFresh
  <1>1. Init => FreshInv
    <2> SUFFICES ASSUME Init, NEW n \in Node
                 PROVE  AdminInv(n) /\ CacheInv(n)
      BY Zenon DEF FreshInv
    <2>1. /\ loaded[n] = 0 /\ gen[n] = 0 /\ seen[n] = NoGen
          /\ cached[n] = {} /\ names[n] = {} /\ admin[n] = Idle
      BY Zenon DEF Init
    <2>2. AdminInv(n)
      BY <2>1 DEF AdminInv, Idle
    <2>3. CacheInv(n)
      BY <2>1 DEF CacheInv, NoGen
    <2> QED  BY Zenon, <2>2, <2>3
  <1>2. TypeOK /\ FreshInv /\ [Next]_vars => FreshInv'
    <2> SUFFICES ASSUME TypeOK, FreshInv, [Next]_vars
                 PROVE  FreshInv'
      OBVIOUS
    <2>1. CASE \/ \E i \in Id, t \in Targets : Send(i, t) \/ SendDelayed(i, t)
               \/ Scheduler \/ UNCHANGED vars
      <3>1. UNCHANGED <<adminVars, loaded, seen, cached, pc>>
        BY Zenon, <2>1 DEF Send, SendDelayed, Scheduler, FetchReady,
           FireDelayed, vars, dispVars
      <3> QED  BY Zenon, <3>1, FreshStill
    <2>2. CASE \E n \in Node : Dispatcher(n) \/ Crash(n)
      BY Zenon, <2>2, FreshDispatcher, FreshCrash
    <2>3. ASSUME NEW w \in Worker, WorkerLoop(w)
          PROVE  FreshInv'
      <3>1. UNCHANGED <<adminVars, loaded, seen, cached, pc>>
        BY Zenon, <2>3 DEF WorkerLoop, Receive, Handle, HandlerAck,
           HandlerDead, ProcessFails, HandlerNoAck, Requeue, RequeueFails,
           Finish, SendBack, dispVars
      <3> QED  BY Zenon, <3>1, FreshStill
    <2>4. CASE \E w \in Worker : Administer(w)
      BY Zenon, <2>4, FreshAdminister
    <2> QED  BY Zenon, <2>1, <2>2, <2>3, <2>4 DEF Next
  <1>3. FreshInv => CacheFresh
    <2> SUFFICES ASSUME FreshInv, NEW n \in Node, pc[n] # "filter",
                        seen[n] = gen[n], admin[n] = Idle
                 PROVE  cached[n] = names[n]
      BY Zenon DEF CacheFresh
    <2>1. admin[n].op # "delnames"
      BY DEF Idle
    <2>2. CacheInv(n)
      BY Zenon DEF FreshInv
    <2> QED  BY Zenon, <2>1, <2>2 DEF CacheInv
  <1> QED  BY <1>1, <1>2, <1>3, TypeCorrect, PTL DEF Spec

-----------------------------------------------------------------------------
(***************************************************************************)
(* No message is forgotten.                                                *)
(***************************************************************************)

\* Queue operations keep the messages of the queue.
LEMMA HasIdSeq ==
    ASSUME NEW s \in Seq(Msg), NEW i
    PROVE  /\ \A m \in Msg : HasId(s, i) \/ m.id = i => HasId(Append(s, m), i)
           /\ s # <<>> /\ HasId(s, i) => Head(s).id = i \/ HasId(Tail(s), i)
           /\ HasId(s, i) => i \in Ids(s)
  <1>1. ASSUME NEW m \in Msg, HasId(s, i) \/ m.id = i
        PROVE  HasId(Append(s, m), i)
    <2>1. /\ DOMAIN Append(s, m) = 1 .. Len(s) + 1
          /\ \A k \in DOMAIN s : Append(s, m)[k] = s[k]
          /\ Append(s, m)[Len(s) + 1] = m
      OBVIOUS
    <2>2. CASE m.id = i
      BY <2>1, <2>2 DEF HasId
    <2>3. CASE HasId(s, i)
      BY <2>1, <2>3 DEF HasId
    <2> QED  BY Zenon, <1>1, <2>2, <2>3
  <1>2. ASSUME s # <<>>, HasId(s, i)
        PROVE  Head(s).id = i \/ HasId(Tail(s), i)
    <2>1. PICK k \in 1 .. Len(s) : s[k].id = i
      BY <1>2 DEF HasId
    <2>2. CASE k = 1
      BY <2>1, <2>2
    <2>3. CASE k # 1
      <3>1. k - 1 \in DOMAIN Tail(s) /\ Tail(s)[k - 1] = s[k]
        BY <1>2, <2>3
      <3> QED  BY Zenon, <2>1, <3>1 DEF HasId
    <2> QED  BY Zenon, <2>2, <2>3
  <1>3. HasId(s, i) => i \in Ids(s)
    BY Zenon DEF HasId, Ids
  <1> QED  BY Zenon, <1>1, <1>2, <1>3

\* Joining the pending list with reclaimed entries keeps both.
LEMMA HasIdConcat ==
    ASSUME NEW s \in Seq(Msg), NEW t \in Seq(Msg), NEW i,
           HasId(s, i) \/ HasId(t, i)
    PROVE  HasId(s \o t, i)
  <1>1. CASE HasId(s, i)
    BY <1>1 DEF HasId
  <1>2. CASE HasId(t, i)
    <2>1. PICK k \in 1 .. Len(t) : t[k].id = i
      BY <1>2 DEF HasId
    <2>2. Len(s) + k \in DOMAIN (s \o t) /\ (s \o t)[Len(s) + k] = t[k]
      OBVIOUS
    <2> QED  BY Zenon, <2>1, <2>2 DEF HasId
  <1> QED  BY Zenon, <1>1, <1>2

\* A recorded end is never erased.
LEMMA SettleKeeps ==
    ASSUME HistType, NEW S, NEW f \in Fate, Settle(S, f), NEW i \in Id
    PROVE  /\ i \in S => fate'[i] # {}
           /\ fate[i] # {} => fate'[i] # {}
  BY Zenon DEF HistType, Settle

\* Steps that move no message (cache refresh, a refusal, worker creation and
\* the synchronous part of its deletion) lose none.
LEMMA StillKeeps ==
    ASSUME NEW i \in Id, Located(i) \/ fate[i] # {},
           UNCHANGED <<busVars, reclaimed, held, workVars, fate>>,
           \A n \in Node : pc[n] \in Holding => pc'[n] \in Holding
    PROVE  Located(i)' \/ fate'[i] # {}
  BY Zenon DEF Located, OnBus, AtDispatcher, AtWorker, busVars, workVars

\* A step of the dispatcher of n that keeps or moves n's message keeps what
\* every other place holds.
LEMMA ElsewhereKeeps ==
    ASSUME NEW i \in Id, NEW n \in Node, TypeOK,
           UNCHANGED <<delayed, firing, workVars>>,
           \A d \in Node \ {n} : /\ pc'[d] = pc[d] /\ held'[d] = held[d]
                                 /\ reclaimed'[d] = reclaimed[d],
           Located(i),
           HasId(queue, i) => Located(i)',
           HasId(orphans, i) => Located(i)',
           HasId(reclaimed[n], i) => Located(i)',
           pc[n] \in Holding /\ held[n].id = i => Located(i)'
    PROVE  Located(i)'
  BY Zenon DEF Located, OnBus, AtDispatcher, AtWorker, workVars

\* Claiming moves a message from the queue, or from the stale claims, into the
\* dispatcher's hands.
LEMMA ClaimKeeps ==
    ASSUME TypeOK, NEW n \in Node, NEW i \in Id, Located(i), Claim(n)
    PROVE  Located(i)'
  <1>1. UNCHANGED <<delayed, firing, workVars>> /\ orphans' = orphans
    BY Zenon DEF Claim
  <1>2. \A d \in Node \ {n} : /\ pc'[d] = pc[d] /\ held'[d] = held[d]
                              /\ reclaimed'[d] = reclaimed[d]
    BY Zenon DEF Claim, TypeOK, DispType
  <1>3. pc'[n] \in Holding /\ pc[n] \notin Holding
    BY Zenon DEF Claim, TypeOK, DispType, Holding
  <1>4. ASSUME HasId(queue, i)  PROVE  Located(i)'
    <2>1. CASE queue' = queue
      BY Zenon, <1>4, <2>1 DEF Located, OnBus
    <2>2. CASE queue' # queue
      <3>1. queue # <<>> /\ queue' = Tail(queue) /\ held'[n] = Head(queue)
        BY Zenon, <2>2 DEF Claim, TypeOK, DispType
      <3>2. held'[n].id = i \/ HasId(queue', i)
        BY Zenon, <1>4, <3>1, HasIdSeq DEF TypeOK, BusType
      <3> QED  BY Zenon, <1>3, <3>2 DEF Located, OnBus, AtDispatcher
    <2> QED  BY Zenon, <2>1, <2>2
  <1>5. ASSUME HasId(reclaimed[n], i)  PROVE  Located(i)'
    <2>1. reclaimed[n] # <<>>
      BY <1>5 DEF HasId
    <2>2. reclaimed'[n] = Tail(reclaimed[n]) /\ held'[n] = Head(reclaimed[n])
      BY Zenon, <2>1 DEF Claim, TypeOK, DispType
    <2>3. held'[n].id = i \/ HasId(reclaimed'[n], i)
      BY Zenon, <1>5, <2>1, <2>2, HasIdSeq DEF TypeOK, DispType
    <2> QED  BY Zenon, <1>3, <2>3 DEF Located, AtDispatcher
  <1>6. HasId(orphans, i) => Located(i)'
    BY Zenon, <1>1 DEF Located, OnBus
  <1> QED  BY Zenon, <1>1, <1>2, <1>3, <1>4, <1>5, <1>6, ElsewhereKeeps

\* The sweep moves the abandoned claims to the dispatcher that reclaims them.
LEMMA ClaimStaleKeeps ==
    ASSUME TypeOK, NEW n \in Node, NEW i \in Id, Located(i), ClaimStale(n)
    PROVE  Located(i)'
  <1>1. UNCHANGED <<delayed, firing, workVars, pc, held, queue>>
    BY Zenon DEF ClaimStale
  <1>2. /\ reclaimed'[n] = reclaimed[n] \o orphans
        /\ \A d \in Node \ {n} : reclaimed'[d] = reclaimed[d]
    BY Zenon DEF ClaimStale, TypeOK, DispType
  <1>3. HasId(orphans, i) \/ HasId(reclaimed[n], i) => Located(i)'
    <2>1. orphans \in Seq(Msg) /\ reclaimed[n] \in Seq(Msg)
      BY Zenon DEF TypeOK, BusType, DispType
    <2>2. HasId(orphans, i) \/ HasId(reclaimed[n], i) => HasId(reclaimed'[n], i)
      BY Zenon, <1>2, <2>1, HasIdConcat
    <2> QED  BY Zenon, <2>2 DEF Located, AtDispatcher
  <1>4. HasId(queue, i) \/ (pc[n] \in Holding /\ held[n].id = i) => Located(i)'
    BY Zenon, <1>1 DEF Located, OnBus, AtDispatcher
  <1> QED  BY Zenon, <1>1, <1>2, <1>3, <1>4, ElsewhereKeeps

\* Delivery: the message is in the inbox before the claim is released.
LEMMA DeliverKeeps ==
    ASSUME TypeOK, NEW n \in Node, NEW w \in Worker, NEW i \in Id, Located(i),
           Deliver(n, w)
    PROVE  Located(i)'
  <1>1. UNCHANGED <<busVars, held, reclaimed, cur, wpc>>
    BY Zenon DEF Deliver
  <1>2. \A d \in Node \ {n} : pc'[d] = pc[d]
    BY Zenon DEF Deliver, TypeOK, DispType
  <1>3. held[n] \in Msg /\ inbox[w] \in Seq(Msg)
    BY Zenon DEF Deliver, TypeOK, DispType, WorkType
  <1>4. /\ inbox'[w] = Append(inbox[w], Stamped(held[n], w))
        /\ \A v \in Worker \ {w} : inbox'[v] = inbox[v]
    BY Zenon DEF Deliver, TypeOK, WorkType
  <1>5. HasId(inbox[w], i) \/ held[n].id = i => HasId(inbox'[w], i)
    <2>1. Stamped(held[n], w) \in Msg /\ Stamped(held[n], w).id = held[n].id
      BY Zenon, <1>3, MsgOps
    <2> QED  BY Zenon, <1>3, <1>4, <2>1, HasIdSeq
  <1>6. CASE OnBus(i)
    BY Zenon, <1>1, <1>6 DEF OnBus, busVars, Located
  <1>7. ASSUME NEW v \in Worker, AtWorker(v, i)
        PROVE  Located(i)'
    BY Zenon, <1>1, <1>4, <1>5, <1>7 DEF AtWorker, Located
  <1>8. ASSUME NEW d \in Node, AtDispatcher(d, i)
        PROVE  Located(i)'
    BY Zenon, <1>1, <1>2, <1>5, <1>8 DEF AtDispatcher, AtWorker, Located
  <1> QED  BY Zenon, <1>6, <1>7, <1>8 DEF Located

\* A targeted miss past the hop cap has the fate "dropped".
LEMMA DropMissKeeps ==
    ASSUME TypeOK, NEW n \in Node, NEW i \in Id, Located(i) \/ fate[i] # {},
           DropMiss(n)
    PROVE  Located(i)' \/ fate'[i] # {}
  <1>1. UNCHANGED <<busVars, held, reclaimed, workVars>>
    BY Zenon DEF DropMiss
  <1>2. /\ held[n].id = i => fate'[i] # {}
        /\ fate[i] # {} => fate'[i] # {}
    BY Zenon, SettleKeeps DEF DropMiss, TypeOK, Fate
  <1>3. \A d \in Node \ {n} : pc'[d] = pc[d]
    BY Zenon DEF DropMiss, TypeOK, DispType
  <1> QED
    BY Zenon, <1>1, <1>2, <1>3
       DEF Located, OnBus, AtDispatcher, AtWorker, busVars, workVars

\* A relayed message stays in the dispatcher's hands, a copy whose ack failed
\* in the pending list.
LEMMA RelayMissKeeps ==
    ASSUME TypeOK, NEW n \in Node, NEW i \in Id, Located(i), RelayMiss(n)
    PROVE  Located(i)'
  <1>1. UNCHANGED <<queue, delayed, firing, reclaimed, workVars>>
    BY Zenon DEF RelayMiss
  <1>2. \A d \in Node \ {n} : pc'[d] = pc[d] /\ held'[d] = held[d]
    BY Zenon DEF RelayMiss, TypeOK, DispType
  <1>3. held[n] \in Msg
    BY Zenon DEF RelayMiss, TypeOK, DispType
  <1>4. pc'[n] \in Holding /\ held'[n].id = held[n].id
    BY Zenon, <1>3, MsgOps DEF RelayMiss, TypeOK, DispType, Holding
  <1>5. HasId(orphans, i) => HasId(orphans', i)
    BY Zenon, <1>3, HasIdSeq DEF RelayMiss, TypeOK, BusType
  <1>6. /\ HasId(queue, i) \/ HasId(orphans, i) => Located(i)'
        /\ HasId(reclaimed[n], i) \/ held[n].id = i => Located(i)'
    BY Zenon, <1>1, <1>4, <1>5 DEF Located, OnBus, AtDispatcher
  <1> QED  BY Zenon, <1>1, <1>2, <1>6, ElsewhereKeeps

\* The relayed message is back on the queue, or its send failed.
LEMMA RelayKeeps ==
    ASSUME TypeOK, NEW n \in Node, NEW i \in Id, Located(i) \/ fate[i] # {},
           Relay(n)
    PROVE  Located(i)' \/ fate'[i] # {}
  <1>1. UNCHANGED <<orphans, delayed, firing, reclaimed, workVars>>
    BY Zenon DEF Relay, NextClaim
  <1>2. \A d \in Node \ {n} : pc'[d] = pc[d] /\ held'[d] = held[d]
    BY Zenon DEF Relay, NextClaim, TypeOK, DispType
  <1>3. fate[i] # {} => fate'[i] # {}
    BY Zenon, SettleKeeps DEF Relay, TypeOK, Fate
  <1>4. CASE Located(i)
    <2>1. held[n] \in Msg
      BY Zenon DEF Relay, TypeOK, DispType
    <2>2. HasId(queue, i) => HasId(queue', i)
      BY Zenon, <2>1, HasIdSeq DEF Relay, TypeOK, BusType
    <2>3. held[n].id = i => HasId(queue', i) \/ fate'[i] # {}
      BY Zenon, <2>1, HasIdSeq, SettleKeeps DEF Relay, TypeOK, BusType, Fate
    <2>4. /\ HasId(queue, i) \/ HasId(orphans, i) => Located(i)'
          /\ HasId(reclaimed[n], i) => Located(i)'
          /\ held[n].id = i => Located(i)' \/ fate'[i] # {}
      BY Zenon, <1>1, <2>2, <2>3 DEF Located, OnBus, AtDispatcher
    <2> QED  BY Zenon, <1>1, <1>2, <1>4, <2>4, ElsewhereKeeps
  <1> QED  BY Zenon, <1>3, <1>4

\* A nacked message is on the queue again before its claim is released.
LEMMA NackKeeps ==
    ASSUME TypeOK, NEW n \in Node, NEW i \in Id, Located(i), Nack(n)
    PROVE  Located(i)'
  <1>1. UNCHANGED <<orphans, delayed, firing, held, reclaimed, workVars>>
    BY Zenon DEF Nack
  <1>2. \A d \in Node \ {n} : pc'[d] = pc[d]
    BY Zenon DEF Nack, TypeOK, DispType
  <1>3. held[n] \in Msg
    BY Zenon DEF Nack, TypeOK, DispType
  <1>4. HasId(queue, i) \/ held[n].id = i => HasId(queue', i)
    BY Zenon, <1>3, HasIdSeq DEF Nack, TypeOK, BusType
  <1>5. /\ HasId(queue, i) \/ HasId(orphans, i) => Located(i)'
        /\ HasId(reclaimed[n], i) \/ held[n].id = i => Located(i)'
    BY Zenon, <1>1, <1>4 DEF Located, OnBus, AtDispatcher
  <1> QED  BY Zenon, <1>1, <1>2, <1>5, ElsewhereKeeps

\* A claim whose nack failed stays in the pending list; an acknowledged one
\* was delivered, requeued or dropped before.
LEMMA ReleaseKeeps ==
    ASSUME TypeOK, NEW n \in Node, NEW i \in Id, Located(i),
           NackFails(n) \/ Ack(n)
    PROVE  Located(i)'
  <1>1. UNCHANGED <<queue, delayed, firing, reclaimed, workVars>>
    BY Zenon DEF NackFails, Ack, NextClaim
  <1>2. \A d \in Node \ {n} : pc'[d] = pc[d] /\ held'[d] = held[d]
    BY Zenon DEF NackFails, Ack, NextClaim, TypeOK, DispType
  <1>3. held[n] \in Msg
    BY Zenon DEF NackFails, Ack, TypeOK, DispType
  <1>4. HasId(orphans, i) => HasId(orphans', i)
    BY Zenon, <1>3, HasIdSeq DEF NackFails, Ack, TypeOK, BusType
  <1>5. pc[n] \in Holding /\ held[n].id = i => HasId(orphans', i)
    BY Zenon, <1>3, HasIdSeq DEF NackFails, Ack, TypeOK, BusType, Holding
  <1>6. /\ HasId(queue, i) \/ HasId(orphans, i) => Located(i)'
        /\ HasId(reclaimed[n], i) => Located(i)'
        /\ pc[n] \in Holding /\ held[n].id = i => Located(i)'
    BY Zenon, <1>1, <1>4, <1>5 DEF Located, OnBus, AtDispatcher
  <1> QED  BY Zenon, <1>1, <1>2, <1>6, ElsewhereKeeps

\* Sending, scheduling and firing: an accepted message is on the queue or in
\* the WAL, and a fired one is back on the queue or recorded as lost.
LEMMA SendKeeps ==
    ASSUME TypeOK, NoLoss, NEW j \in Id, NEW t \in Targets,
           Send(j, t) \/ SendDelayed(j, t)
    PROVE  NoLoss'
  <1>1. /\ UNCHANGED <<orphans, firing, dispVars, workVars, fate>>
        /\ sent' = sent \cup {j}
    BY Zenon DEF Send, SendDelayed
  <1>2. NewMsg(j, t) \in Msg /\ NewMsg(j, t).id = j
    BY Zenon, NewMsgType DEF NewMsg
  <1>3. ASSUME NEW i \in Id, OnBus(i) \/ i = j
        PROVE  OnBus(i)'
    <2>1. CASE Send(j, t)
      <3>1. queue' = Append(queue, NewMsg(j, t)) /\ delayed' = delayed
        BY Zenon, <2>1 DEF Send
      <3>2. HasId(queue, i) \/ i = j => HasId(queue', i)
        BY Zenon, <1>2, <3>1, HasIdSeq DEF TypeOK, BusType
      <3> QED  BY Zenon, <1>1, <1>3, <3>1, <3>2 DEF OnBus
    <2>2. CASE SendDelayed(j, t)
      <3>1. /\ queue' = queue
            /\ delayed' = {d \in delayed : d.id # j} \cup {NewMsg(j, t)}
        BY Zenon, <1>2, <2>2 DEF SendDelayed, Schedule
      <3> QED  BY Zenon, <1>1, <1>2, <1>3, <3>1 DEF OnBus
    <2> QED  BY Zenon, <2>1, <2>2
  <1>4. ASSUME NEW i \in sent'
        PROVE  Located(i)' \/ fate'[i] # {}
    <2>1. i \in Id
      BY Zenon, <1>1, <1>4 DEF TypeOK, HistType
    <2>2. \A n \in Node : AtDispatcher(n, i) => AtDispatcher(n, i)'
      BY Zenon, <1>1 DEF AtDispatcher, dispVars
    <2>3. \A w \in Worker : AtWorker(w, i) => AtWorker(w, i)'
      BY Zenon, <1>1 DEF AtWorker, workVars
    <2> QED  BY Zenon, <1>1, <1>3, <2>1, <2>2, <2>3 DEF NoLoss, Located
  <1> QED  BY Zenon, <1>4 DEF NoLoss

\* fetch_ready and the sends of the delay scheduler forget no message.
LEMMA SchedulerKeeps ==
    ASSUME TypeOK, NEW i \in Id, Located(i) \/ fate[i] # {}, Scheduler
    PROVE  Located(i)' \/ fate'[i] # {}
  <1>1. UNCHANGED <<orphans, dispVars, workVars>>
    BY Zenon DEF Scheduler, FetchReady, FireDelayed
  <1>2. \A n \in Node : AtDispatcher(n, i) => AtDispatcher(n, i)'
    BY Zenon, <1>1 DEF AtDispatcher, dispVars
  <1>3. \A w \in Worker : AtWorker(w, i) => AtWorker(w, i)'
    BY Zenon, <1>1 DEF AtWorker, workVars
  <1>4. CASE FetchReady
    <2>1. /\ queue' = queue /\ fate' = fate
          /\ delayed \cup firing \subseteq delayed' \cup firing'
      BY Zenon, <1>4 DEF FetchReady, histVars
    <2>2. OnBus(i) => OnBus(i)'
      BY Zenon, <1>1, <2>1 DEF OnBus
    <2> QED  BY Zenon, <1>2, <1>3, <2>1, <2>2 DEF Located
  <1>5. ASSUME NEW m \in firing, FireDelayed(m)
        PROVE  Located(i)' \/ fate'[i] # {}
    <2>1. firing' = firing \ {m} /\ delayed' = delayed
      BY Zenon, <1>5 DEF FireDelayed
    <2>2. m \in Msg
      BY Zenon DEF TypeOK, BusType
    <2>3. HasId(queue, i) => HasId(queue', i)
      BY Zenon, <1>5, <2>2, HasIdSeq DEF FireDelayed, TypeOK, BusType
    <2>4. m.id = i => HasId(queue', i) \/ fate'[i] # {}
      BY Zenon, <1>5, <2>2, HasIdSeq, SettleKeeps
         DEF FireDelayed, TypeOK, BusType, Fate
    <2>5. fate[i] # {} => fate'[i] # {}
      BY Zenon, <1>5, SettleKeeps DEF FireDelayed, TypeOK, Fate
    <2>6. OnBus(i) => OnBus(i)' \/ fate'[i] # {}
      BY Zenon, <1>1, <2>1, <2>3, <2>4 DEF OnBus
    <2> QED  BY Zenon, <1>2, <1>3, <2>5, <2>6 DEF Located
  <1> QED  BY Zenon, <1>4, <1>5 DEF Scheduler

\* A step of worker w keeps what every other place holds.
LEMMA OtherPlacesKeep ==
    ASSUME NEW i \in Id, NEW w \in Worker,
           UNCHANGED <<orphans, firing, dispVars>>,
           \A v \in Worker \ {w} : /\ inbox'[v] = inbox[v] /\ cur'[v] = cur[v]
                                   /\ wpc'[v] = wpc[v],
           Located(i) \/ fate[i] # {},
           fate[i] # {} => fate'[i] # {},
           HasId(queue, i) => Located(i)',
           \A m \in delayed : m.id = i => Located(i)',
           AtWorker(w, i) => Located(i)' \/ fate'[i] # {}
    PROVE  Located(i)' \/ fate'[i] # {}
  BY Zenon DEF Located, OnBus, AtDispatcher, AtWorker, dispVars

\* The inbox loop takes a message from the inbox into process_msg.
LEMMA ReceiveKeeps ==
    ASSUME TypeOK, NEW w \in Worker, NEW i \in Id, Located(i) \/ fate[i] # {},
           Receive(w)
    PROVE  Located(i)' \/ fate'[i] # {}
  <1>1. UNCHANGED <<orphans, firing, dispVars, queue, delayed, fate>>
    BY Zenon DEF Receive, busVars, histVars
  <1>2. \A v \in Worker \ {w} : /\ inbox'[v] = inbox[v] /\ cur'[v] = cur[v]
                                /\ wpc'[v] = wpc[v]
    BY Zenon DEF Receive, TypeOK, WorkType
  <1>3. /\ inbox[w] # <<>> /\ wpc[w] = "idle" /\ wpc'[w] = "run"
        /\ inbox'[w] = Tail(inbox[w]) /\ cur'[w] = Head(inbox[w])
    BY Zenon DEF Receive, TypeOK, WorkType
  <1>4. HasId(inbox[w], i) => HasId(inbox'[w], i) \/ cur'[w].id = i
    BY Zenon, <1>3, HasIdSeq DEF TypeOK, WorkType
  <1>5. AtWorker(w, i) => Located(i)'
    BY Zenon, <1>3, <1>4 DEF AtWorker, Located
  <1>6. HasId(queue, i) \/ (\E m \in delayed : m.id = i) => Located(i)'
    BY Zenon, <1>1 DEF Located, OnBus
  <1> QED  BY Zenon, <1>1, <1>2, <1>5, <1>6, OtherPlacesKeep

\* process_msg ends with the message completed, dead-lettered or lost.
LEMMA FinishKeeps ==
    ASSUME TypeOK, NEW w \in Worker, NEW i \in Id, Located(i) \/ fate[i] # {},
           Finish(w), delayed' = delayed, NEW f \in Fate, Settle({cur[w].id}, f)
    PROVE  Located(i)' \/ fate'[i] # {}
  <1>1. UNCHANGED <<orphans, firing, dispVars, queue, inbox>>
    BY Zenon DEF Finish
  <1>2. \A v \in Worker \ {w} : cur'[v] = cur[v] /\ wpc'[v] = wpc[v]
    BY Zenon DEF Finish, TypeOK, WorkType
  <1>3. /\ cur[w].id = i => fate'[i] # {}
        /\ fate[i] # {} => fate'[i] # {}
    BY Zenon, SettleKeeps DEF TypeOK
  <1>4. AtWorker(w, i) => Located(i)' \/ fate'[i] # {}
    BY Zenon, <1>1, <1>3 DEF AtWorker, Located
  <1>5. HasId(queue, i) \/ (\E m \in delayed : m.id = i) => Located(i)'
    BY Zenon, <1>1 DEF Located, OnBus
  <1> QED  BY Zenon, <1>1, <1>2, <1>3, <1>4, <1>5, OtherPlacesKeep

\* process_msg goes on with a copy that has the same id.
LEMMA SendBackKeeps ==
    ASSUME TypeOK, NEW w \in Worker, NEW i \in Id, Located(i) \/ fate[i] # {},
           NEW m \in Msg, SendBack(w, m), m.id = cur[w].id,
           UNCHANGED <<delayed, fate>>
    PROVE  Located(i)' \/ fate'[i] # {}
  <1>1. UNCHANGED <<orphans, firing, dispVars, queue, inbox>>
    BY Zenon DEF SendBack
  <1>2. /\ cur'[w] = m /\ wpc'[w] = "send"
        /\ \A v \in Worker \ {w} : cur'[v] = cur[v] /\ wpc'[v] = wpc[v]
    BY Zenon DEF SendBack, TypeOK, WorkType
  <1>3. AtWorker(w, i) => Located(i)'
    BY Zenon, <1>1, <1>2 DEF AtWorker, Located
  <1>4. HasId(queue, i) \/ (\E d \in delayed : d.id = i) => Located(i)'
    BY Zenon, <1>1 DEF Located, OnBus
  <1> QED  BY Zenon, <1>1, <1>2, <1>3, <1>4, OtherPlacesKeep

\* A delayed retry is in the WAL when process_msg returns.
LEMMA ScheduleKeeps ==
    ASSUME TypeOK, NEW w \in Worker, NEW i \in Id, Located(i) \/ fate[i] # {},
           NEW m \in Msg, Finish(w), Schedule(m), m.id = cur[w].id, fate' = fate
    PROVE  Located(i)' \/ fate'[i] # {}
  <1>1. UNCHANGED <<orphans, firing, dispVars, queue, inbox>>
    BY Zenon DEF Finish
  <1>2. \A v \in Worker \ {w} : cur'[v] = cur[v] /\ wpc'[v] = wpc[v]
    BY Zenon DEF Finish, TypeOK, WorkType
  <1>3. (\E d \in delayed : d.id = i) \/ m.id = i => \E d \in delayed' : d.id = i
    BY Zenon DEF Schedule
  <1>4. AtWorker(w, i) => Located(i)'
    BY Zenon, <1>1, <1>3 DEF AtWorker, Located, OnBus
  <1>5. HasId(queue, i) \/ (\E d \in delayed : d.id = i) => Located(i)'
    BY Zenon, <1>1, <1>3 DEF Located, OnBus
  <1> QED  BY Zenon, <1>1, <1>2, <1>4, <1>5, OtherPlacesKeep

\* Whatever the handler returns, the message goes on or has an end.
LEMMA HandleKeeps ==
    ASSUME TypeOK, NEW w \in Worker, NEW i \in Id, Located(i) \/ fate[i] # {},
           Handle(w)
    PROVE  Located(i)' \/ fate'[i] # {}
  <1>1. cur[w] \in Msg
    BY Zenon DEF Handle, HandlerAck, HandlerDead, ProcessFails, HandlerNoAck,
       TypeOK, WorkType
  <1>2. /\ Consumed(cur[w]) \in Msg /\ Consumed(cur[w]).id = cur[w].id
        /\ Attempted(cur[w]) \in Msg /\ Attempted(cur[w]).id = cur[w].id
    BY Zenon, <1>1, MsgOps
  <1>3. CASE HandlerAck(w)
    <2>1. \/ SendBack(w, Consumed(cur[w])) /\ UNCHANGED <<delayed, fate>>
          \/ Finish(w) /\ Settle({cur[w].id}, "done") /\ delayed' = delayed
      BY Zenon, <1>2, <1>3 DEF HandlerAck
    <2> QED  BY Zenon, <1>2, <2>1, SendBackKeeps, FinishKeeps DEF Fate
  <1>4. CASE HandlerDead(w) \/ ProcessFails(w)
    BY Zenon, <1>4, FinishKeeps DEF HandlerDead, ProcessFails, Fate
  <1>5. ASSUME NEW r \in RetryLimits, NEW later \in BOOLEAN,
               HandlerNoAck(w, r, later)
        PROVE  Located(i)' \/ fate'[i] # {}
    <2>1. \/ SendBack(w, Attempted(cur[w])) /\ UNCHANGED <<delayed, fate>>
          \/ /\ Finish(w) /\ Schedule(Attempted(cur[w])) /\ fate' = fate
          \/ /\ Finish(w) /\ Settle({cur[w].id}, "exhausted")
             /\ delayed' = delayed
      BY Zenon, <1>2, <1>5 DEF HandlerNoAck
    <2> QED
      BY Zenon, <1>2, <2>1, SendBackKeeps, ScheduleKeeps, FinishKeeps DEF Fate
  <1> QED  BY Zenon, <1>3, <1>4, <1>5 DEF Handle

\* The copy sent back is on the queue when the worker lets go of it.
LEMMA RequeueKeeps ==
    ASSUME TypeOK, NEW w \in Worker, NEW i \in Id, Located(i) \/ fate[i] # {},
           Requeue(w)
    PROVE  Located(i)' \/ fate'[i] # {}
  <1>1. UNCHANGED <<orphans, firing, dispVars, delayed, inbox, fate>>
    BY Zenon DEF Requeue, histVars
  <1>2. \A v \in Worker \ {w} : cur'[v] = cur[v] /\ wpc'[v] = wpc[v]
    BY Zenon DEF Requeue, TypeOK, WorkType
  <1>3. cur[w] \in Msg
    BY Zenon DEF Requeue, TypeOK, WorkType
  <1>4. HasId(queue, i) \/ cur[w].id = i => HasId(queue', i)
    BY Zenon, <1>3, HasIdSeq DEF Requeue, TypeOK, BusType
  <1>5. AtWorker(w, i) => Located(i)'
    BY Zenon, <1>1, <1>4 DEF AtWorker, Located, OnBus
  <1>6. HasId(queue, i) \/ (\E d \in delayed : d.id = i) => Located(i)'
    BY Zenon, <1>1, <1>4 DEF Located, OnBus
  <1> QED  BY Zenon, <1>1, <1>2, <1>5, <1>6, OtherPlacesKeep

\* What the end of an aborted worker destroys is recorded as lost.
LEMMA EndOfWorkerKeeps ==
    ASSUME TypeOK, NEW w \in Worker, NEW i \in Id, Located(i) \/ fate[i] # {},
           CancelTask(w) \/ CloseInbox(w)
    PROVE  Located(i)' \/ fate'[i] # {}
  <1>1. UNCHANGED <<orphans, firing, dispVars, queue, delayed>>
    BY Zenon DEF CancelTask, CloseInbox, busVars
  <1>2. \A v \in Worker \ {w} : /\ inbox'[v] = inbox[v] /\ cur'[v] = cur[v]
                                /\ wpc'[v] = wpc[v]
    BY Zenon DEF CancelTask, CloseInbox, TypeOK, WorkType
  <1>3. fate[i] # {} => fate'[i] # {}
    BY Zenon, SettleKeeps DEF CancelTask, CloseInbox, TypeOK, Fate
  <1>4. HasId(queue, i) \/ (\E d \in delayed : d.id = i) => Located(i)'
    BY Zenon, <1>1 DEF Located, OnBus
  <1>5. AtWorker(w, i) => Located(i)' \/ fate'[i] # {}
    <2>1. CASE CancelTask(w)
      <3>1. wpc[w] # "idle" /\ cur[w].id = i => fate'[i] # {}
        BY Zenon, <2>1, SettleKeeps DEF CancelTask, TypeOK, Fate
      <3> QED  BY Zenon, <2>1, <3>1 DEF AtWorker, Located, CancelTask
    <2>2. CASE CloseInbox(w)
      <3>1. HasId(inbox[w], i) => fate'[i] # {}
        BY Zenon, <2>2, SettleKeeps, HasIdSeq DEF CloseInbox, TypeOK,
           WorkType, Fate
      <3> QED  BY Zenon, <2>2, <3>1 DEF AtWorker, Located, CloseInbox
    <2> QED  BY Zenon, <2>1, <2>2
  <1> QED  BY Zenon, <1>1, <1>2, <1>3, <1>4, <1>5, OtherPlacesKeep

\* A crash leaves claims in the pending list; the memory it destroys is
\* recorded as lost.
LEMMA CrashKeeps ==
    ASSUME TypeOK, NEW n \in Node, NEW i \in Id, Located(i) \/ fate[i] # {},
           Crash(n)
    PROVE  Located(i)' \/ fate'[i] # {}
  <1> DEFINE S == Waiting(n) \cup InHandler(n) \cup Relayed(n)
  <1>1. Settle(S, "lost")
    BY Zenon DEF Crash
  <1>2. (i \in S => fate'[i] # {}) /\ (fate[i] # {} => fate'[i] # {})
    <2> HIDE DEF S
    <2> QED  BY Zenon, <1>1, SettleKeeps DEF TypeOK, Fate
  <1>3. UNCHANGED <<queue, delayed, firing>>
    BY Zenon DEF Crash
  <1>4. \A d \in Node \ {n} : /\ pc'[d] = pc[d] /\ held'[d] = held[d]
                              /\ reclaimed'[d] = reclaimed[d]
    BY Zenon DEF Crash, TypeOK, DispType
  <1>5. \A w \in Worker \ Started(n) :
            inbox'[w] = inbox[w] /\ cur'[w] = cur[w] /\ wpc'[w] = wpc[w]
    BY Zenon DEF Crash
  <1>6. /\ HasId(orphans, i) \/ HasId(reclaimed[n], i) => HasId(orphans', i)
        /\ pc[n] \in Claimed /\ held[n].id = i => HasId(orphans', i)
    <2> DEFINE o == IF pc[n] \in Claimed THEN Append(orphans, held[n]) ELSE orphans
    <2>1. orphans' = o \o reclaimed[n]
      BY Zenon DEF Crash
    <2>2. orphans \in Seq(Msg) /\ reclaimed[n] \in Seq(Msg)
      BY Zenon DEF TypeOK, BusType, DispType
    <2>3. pc[n] \in Claimed => held[n] \in Msg
      BY Zenon DEF TypeOK, DispType, Claimed, Holding
    <2>4. /\ o \in Seq(Msg)
          /\ HasId(orphans, i) => HasId(o, i)
          /\ pc[n] \in Claimed /\ held[n].id = i => HasId(o, i)
      BY Zenon, <2>2, <2>3, HasIdSeq, MsgSeq
    <2> HIDE DEF o
    <2> QED  BY Zenon, <2>1, <2>2, <2>4, HasIdConcat
  <1>7. CASE OnBus(i)
    BY Zenon, <1>3, <1>6, <1>7 DEF OnBus, Located
  <1>8. ASSUME NEW d \in Node, AtDispatcher(d, i)
        PROVE  Located(i)' \/ fate'[i] # {}
    <2>1. CASE d # n
      BY Zenon, <1>4, <1>8, <2>1 DEF AtDispatcher, Located
    <2>2. CASE d = n
      <3>1. CASE HasId(reclaimed[n], i) \/ (pc[n] \in Claimed /\ held[n].id = i)
        BY Zenon, <1>6, <3>1 DEF Located, OnBus
      <3>2. CASE pc[n] = "relay" /\ held[n].id = i
        <4>1. i \in Relayed(n)
          BY Zenon, <3>2 DEF Relayed
        <4> QED  BY Zenon, <1>2, <4>1
      <3> QED  BY Zenon, <1>8, <2>2, <3>1, <3>2 DEF AtDispatcher, Claimed
    <2> QED  BY Zenon, <2>1, <2>2
  <1>9. ASSUME NEW w \in Worker, AtWorker(w, i)
        PROVE  Located(i)' \/ fate'[i] # {}
    <2>1. CASE w \notin Started(n)
      BY Zenon, <1>5, <1>9, <2>1 DEF AtWorker, Located
    <2>2. CASE w \in Started(n)
      <3>1. HasId(inbox[w], i) => i \in Ids(inbox[w])
        BY Zenon, HasIdSeq DEF TypeOK, WorkType
      <3>2. i \in S
        <4>1. CASE i \in Ids(inbox[w])
          <5>1. i \in Waiting(n)
            BY Zenon, <2>2, <4>1 DEF Waiting
          <5> QED  BY Zenon, <5>1
        <4>2. CASE wpc[w] # "idle" /\ cur[w].id = i
          <5>1. i \in InHandler(n)
            BY Zenon, <2>2, <4>2 DEF InHandler
          <5> QED  BY Zenon, <5>1
        <4> QED  BY Zenon, <1>9, <3>1, <4>1, <4>2 DEF AtWorker
      <3> HIDE DEF S
      <3> QED  BY Zenon, <1>2, <3>2
    <2> QED  BY Zenon, <2>1, <2>2
  <1> QED  BY Zenon, <1>2, <1>7, <1>8, <1>9 DEF Located

\* A message accepted by TopicRouter::send is never forgotten by dispatchers,
\* workers, scheduler or administration: until it has an end it is somewhere.
THEOREM NothingForgotten == Spec => []NoLoss
  <1>1. Init => NoLoss
    BY Zenon DEF Init, NoLoss
  <1>2. TypeOK /\ NoLoss /\ [Next]_vars => NoLoss'
    <2> SUFFICES ASSUME TypeOK, NoLoss, [Next]_vars
                 PROVE  NoLoss'
      OBVIOUS
    <2>1. CASE \E i \in Id, t \in Targets : Send(i, t) \/ SendDelayed(i, t)
      BY Zenon, <2>1, SendKeeps
    <2> DEFINE Kept == \A i \in Id : Located(i) \/ fate[i] # {}
                                        => Located(i)' \/ fate'[i] # {}
    <2>2. Kept /\ sent' = sent => NoLoss'
      BY Zenon DEF NoLoss, TypeOK, HistType
    <2>3. CASE Scheduler
      <3>1. sent' = sent
        BY Zenon, <2>3 DEF Scheduler, FetchReady, FireDelayed, histVars
      <3> QED  BY Zenon, <2>2, <2>3, <3>1, SchedulerKeeps
    <2>4. ASSUME NEW n \in Node, Dispatcher(n)
          PROVE  NoLoss'
      <3>1. sent' = sent
        BY Zenon, <2>4 DEF Dispatcher, ClaimStale, Claim, LoadGeneration,
           ReadNames, FilterInboxes, Deliver, Refused, DropMiss, RelayMiss,
           Relay, Nack, NackFails, Ack, NextClaim, histVars
      <3>2. CASE \/ LoadGeneration(n) \/ ReadNames(n) \/ FilterInboxes(n)
                 \/ \E w \in Worker : Refused(n, w)
        <4>1. /\ UNCHANGED <<busVars, reclaimed, held, workVars, fate>>
              /\ \A d \in Node : pc[d] \in Holding => pc'[d] \in Holding
          BY Zenon, <3>2 DEF LoadGeneration, ReadNames, FilterInboxes, Refused,
             histVars, TypeOK, DispType, Holding
        <4> QED  BY Zenon, <2>2, <3>1, <4>1, StillKeeps
      <3>3. CASE \/ ClaimStale(n) \/ Claim(n) \/ RelayMiss(n) \/ Nack(n)
                 \/ NackFails(n) \/ Ack(n) \/ \E w \in Worker : Deliver(n, w)
        <4>1. fate' = fate
          BY Zenon, <3>3 DEF ClaimStale, Claim, RelayMiss, Nack, NackFails,
             Ack, Deliver, histVars
        <4>2. \A i \in Id : Located(i) => Located(i)'
          BY Zenon, <3>3, ClaimStaleKeeps, ClaimKeeps, RelayMissKeeps,
             NackKeeps, ReleaseKeeps, DeliverKeeps
        <4> QED  BY Zenon, <2>2, <3>1, <4>1, <4>2
      <3>4. CASE DropMiss(n) \/ Relay(n)
        BY Zenon, <2>2, <3>1, <3>4, DropMissKeeps, RelayKeeps
      <3> QED  BY Zenon, <2>4, <3>2, <3>3, <3>4 DEF Dispatcher
    <2>5. ASSUME NEW n \in Node, Crash(n)
          PROVE  NoLoss'
      <3>1. sent' = sent
        BY Zenon, <2>5 DEF Crash
      <3> QED  BY Zenon, <2>2, <2>5, <3>1, CrashKeeps
    <2>6. ASSUME NEW w \in Worker, WorkerLoop(w)
          PROVE  NoLoss'
      <3>1. sent' = sent
        BY Zenon, <2>6 DEF WorkerLoop, Receive, Handle, HandlerAck,
           HandlerDead, ProcessFails, HandlerNoAck, Requeue, RequeueFails,
           Finish, SendBack, histVars
      <3>2. CASE RequeueFails(w)
        BY Zenon, <2>2, <3>1, <3>2, FinishKeeps DEF RequeueFails, Fate
      <3>3. CASE Receive(w) \/ Handle(w) \/ Requeue(w)
        BY Zenon, <2>2, <3>1, <3>3, ReceiveKeeps, HandleKeeps, RequeueKeeps
      <3> QED  BY Zenon, <2>6, <3>2, <3>3 DEF WorkerLoop
    <2>7. ASSUME NEW w \in Worker, Administer(w)
          PROVE  NoLoss'
      <3>1. sent' = sent
        BY Zenon, <2>7 DEF Administer, CreateWorker, RegisterWorker, DelWorker,
           DelInbox, DelNames, CancelTask, CloseInbox, histVars
      <3>2. CASE CancelTask(w) \/ CloseInbox(w)
        BY Zenon, <2>2, <3>1, <3>2, EndOfWorkerKeeps
      <3>3. CASE \/ CreateWorker(w) \/ RegisterWorker(w) \/ DelWorker(w)
                 \/ DelInbox(w) \/ DelNames(w)
        <4>1. /\ UNCHANGED <<busVars, reclaimed, held, workVars, fate>>
              /\ \A d \in Node : pc[d] \in Holding => pc'[d] \in Holding
          BY Zenon, <3>3 DEF CreateWorker, RegisterWorker, DelWorker, DelInbox,
             DelNames, dispVars, histVars, TypeOK, DispType, Holding
        <4> QED  BY Zenon, <2>2, <3>1, <4>1, StillKeeps
      <3> QED  BY Zenon, <2>7, <3>2, <3>3 DEF Administer
    <2>8. CASE UNCHANGED vars
      <3>1. /\ UNCHANGED <<busVars, reclaimed, held, workVars, fate, sent, pc>>
        BY Zenon, <2>8 DEF vars, dispVars, histVars
      <3> QED  BY Zenon, <2>2, <3>1, StillKeeps
    <2> QED  BY Zenon, <2>1, <2>3, <2>4, <2>5, <2>6, <2>7, <2>8 DEF Next
  <1> QED  BY <1>1, <1>2, TypeCorrect, PTL DEF Spec

-----------------------------------------------------------------------------
(***************************************************************************)
(* Every copy of a message, wherever it is: addresses and attempts.        *)
(***************************************************************************)

\* Every copy the bus, a dispatcher or a worker has is in S.
Copies(S) ==
    /\ queue \in Seq(S) /\ orphans \in Seq(S)
    /\ delayed \subseteq S /\ firing \subseteq S
    /\ \A n \in Node : held[n] \in S \cup {NoMsg} /\ reclaimed[n] \in Seq(S)
    /\ \A w \in Worker : inbox[w] \in Seq(S) /\ cur[w] \in S \cup {NoMsg}

-----------------------------------------------------------------------------
\* Queue, claim and inbox operations on sequences over S.
LEMMA SeqIn ==
    ASSUME NEW S
    PROVE  /\ \A s \in Seq(S), m \in S : Append(s, m) \in Seq(S)
           /\ \A s \in Seq(S) : s # <<>> => Head(s) \in S /\ Tail(s) \in Seq(S)
           /\ \A s, t \in Seq(S) : s \o t \in Seq(S)
           /\ <<>> \in Seq(S)
  OBVIOUS

\* A larger set of messages contains the copies as well.
LEMMA CopiesMonotone ==
    ASSUME NEW S, NEW T, S \subseteq T, Copies(S)
    PROVE  Copies(T)
  <1>1. \A s \in Seq(S) : s \in Seq(T)
    OBVIOUS
  <1> QED  BY Zenon, <1>1 DEF Copies

\* Steps that move no message.
LEMMA CopiesStill ==
    ASSUME NEW S, Copies(S),
           UNCHANGED <<busVars, held, reclaimed, inbox, cur>>
    PROVE  Copies(S)'
  BY Zenon DEF Copies, busVars

\* The dispatcher passes on the copies it was given; a relay and a delivery
\* also change the copy.
LEMMA CopiesDispatcher ==
    ASSUME TypeOK, NEW S \in SUBSET Msg, Copies(S), NEW n \in Node, Dispatcher(n),
           RelayMiss(n) => Attempted(held[n]) \in S,
           \A w \in Worker : Deliver(n, w) => Stamped(held[n], w) \in S
    PROVE  Copies(S)'
  <1>1. pc[n] \notin {"off", "claim"} => held[n] \in S
    BY Zenon, ConstantsAssumption DEF TypeOK, DispType, Copies
  <1>2. CASE ClaimStale(n)
    BY Zenon, <1>2, SeqIn DEF ClaimStale, Copies, TypeOK, DispType, workVars
  <1>3. CASE Claim(n)
    <2>1. PICK m \in S, s \in Seq(S) : held' = [held EXCEPT ![n] = m]
                                       /\ reclaimed' = [reclaimed EXCEPT ![n] = s]
      <3>1. CASE reclaimed[n] # <<>>
        <4>1. Head(reclaimed[n]) \in S /\ Tail(reclaimed[n]) \in Seq(S)
          BY Zenon, <3>1, SeqIn DEF Copies
        <4> QED  BY Zenon, <1>3, <3>1, <4>1 DEF Claim
      <3>2. CASE reclaimed[n] = <<>>
        <4>1. Head(queue) \in S /\ reclaimed[n] \in Seq(S)
          BY Zenon, <1>3, <3>2, SeqIn DEF Copies, Claim
        <4>2. reclaimed' = [reclaimed EXCEPT ![n] = reclaimed[n]]
          BY Zenon, <1>3, <3>2 DEF Claim, TypeOK, DispType
        <4> QED  BY Zenon, <1>3, <3>2, <4>1, <4>2 DEF Claim
      <3> QED  BY Zenon, <3>1, <3>2
    <2>2. queue' \in Seq(S)
      <3>1. queue' = queue \/ (queue # <<>> /\ queue' = Tail(queue))
        BY Zenon, <1>3 DEF Claim
      <3> QED  BY Zenon, <3>1, SeqIn DEF Copies
    <2>3. UNCHANGED <<orphans, delayed, firing, inbox, cur>>
      BY Zenon, <1>3 DEF Claim, workVars
    <2> QED  BY Zenon, <2>1, <2>2, <2>3 DEF Copies, TypeOK, DispType
  <1>4. CASE \/ LoadGeneration(n) \/ ReadNames(n) \/ FilterInboxes(n)
             \/ DropMiss(n) \/ \E w \in Worker : Refused(n, w)
    BY Zenon, <1>4, CopiesStill DEF LoadGeneration, ReadNames, FilterInboxes,
       DropMiss, Refused, workVars
  <1>5. ASSUME NEW w \in Worker, Deliver(n, w)
        PROVE  Copies(S)'
    <2>1. Append(inbox[w], Stamped(held[n], w)) \in Seq(S)
      BY Zenon, <1>5, SeqIn DEF Copies
    <2>2. inbox' = [inbox EXCEPT ![w] = Append(inbox[w], Stamped(held[n], w))]
      BY Zenon, <1>5 DEF Deliver
    <2>3. UNCHANGED <<busVars, held, reclaimed, cur>>
      BY Zenon, <1>5 DEF Deliver
    <2> QED  BY Zenon, <2>1, <2>2, <2>3 DEF Copies, busVars, TypeOK, WorkType
  <1>6. CASE RelayMiss(n)
    <2>1. orphans' \in Seq(S)
      BY Zenon, <1>1, <1>6, SeqIn DEF RelayMiss, Copies
    <2> QED
      BY Zenon, <1>6, <2>1 DEF RelayMiss, Copies, TypeOK, DispType, workVars
  <1>7. CASE Relay(n) \/ NackFails(n) \/ Ack(n)
    <2>1. queue' \in Seq(S) /\ orphans' \in Seq(S)
      BY Zenon, <1>1, <1>7, SeqIn DEF Relay, NackFails, Ack, Copies
    <2>2. NextClaim(n)
      BY Zenon, <1>7 DEF Relay, NackFails, Ack
    <2> QED  BY Zenon, <2>1, <2>2 DEF NextClaim, Copies, TypeOK, DispType,
                workVars
  <1>8. CASE Nack(n)
    <2>1. queue' \in Seq(S)
      BY Zenon, <1>1, <1>8, SeqIn DEF Nack, Copies
    <2> QED  BY Zenon, <1>8, <2>1 DEF Nack, Copies, workVars
  <1> QED
    BY Zenon, <1>2, <1>3, <1>4, <1>5, <1>6, <1>7, <1>8 DEF Dispatcher

\* A worker passes on the copy it was given, counted once more.
LEMMA CopiesWorker ==
    ASSUME TypeOK, NEW S \in SUBSET Msg, Copies(S), NEW w \in Worker,
           WorkerLoop(w),
           HandlerAck(w) => Consumed(cur[w]) \in S,
           \A r \in RetryLimits, later \in BOOLEAN :
               HandlerNoAck(w, r, later) /\ Attempted(cur[w]).attempts < r
                   => Attempted(cur[w]) \in S
    PROVE  Copies(S)'
  <1>1. ASSUME Finish(w), delayed' \subseteq S
        PROVE  Copies(S)'
    BY Zenon, <1>1 DEF Finish, Copies, dispVars, TypeOK, WorkType
  <1>2. ASSUME NEW m \in S, SendBack(w, m), delayed' = delayed
        PROVE  Copies(S)'
    BY Zenon, <1>2 DEF SendBack, Copies, dispVars, TypeOK, WorkType
  <1>3. CASE Receive(w)
    <2>1. Head(inbox[w]) \in S /\ Tail(inbox[w]) \in Seq(S)
      BY Zenon, <1>3, SeqIn DEF Receive, Copies
    <2> QED  BY Zenon, <1>3, <2>1
             DEF Receive, Copies, busVars, dispVars, TypeOK, WorkType
  <1>4. CASE HandlerAck(w)
    <2>1. \/ SendBack(w, Consumed(cur[w])) /\ delayed' = delayed
          \/ Finish(w) /\ delayed' = delayed
      BY Zenon, <1>4 DEF HandlerAck
    <2> QED  BY Zenon, <1>1, <1>2, <1>4, <2>1 DEF Copies
  <1>5. ASSUME NEW r \in RetryLimits, NEW later \in BOOLEAN,
               HandlerNoAck(w, r, later)
        PROVE  Copies(S)'
    <2> DEFINE m == Attempted(cur[w])
    <2>1. \/ m.attempts < r /\ SendBack(w, m) /\ delayed' = delayed
          \/ m.attempts < r /\ Finish(w) /\ Schedule(m)
          \/ Finish(w) /\ delayed' = delayed
      BY Zenon, <1>5 DEF HandlerNoAck
    <2>2. m.attempts < r => m \in S
      BY Zenon, <1>5
    <2> HIDE DEF m
    <2>3. m \in S /\ Schedule(m) => delayed' \subseteq S
      BY Zenon DEF Schedule, Copies
    <2> QED  BY Zenon, <1>1, <1>2, <2>1, <2>2, <2>3 DEF Copies
  <1>6. CASE HandlerDead(w) \/ ProcessFails(w) \/ RequeueFails(w)
    BY Zenon, <1>1, <1>6 DEF HandlerDead, ProcessFails, RequeueFails, Copies
  <1>7. CASE Requeue(w)
    <2>1. cur[w] \in S
      BY Zenon, <1>7, ConstantsAssumption DEF Requeue, TypeOK, WorkType, Copies
    <2>2. queue' \in Seq(S)
      BY Zenon, <1>7, <2>1, SeqIn DEF Requeue, Copies
    <2> QED
      BY Zenon, <1>7, <2>2 DEF Requeue, Copies, dispVars, TypeOK, WorkType
  <1> QED  BY Zenon, <1>3, <1>4, <1>5, <1>6, <1>7 DEF WorkerLoop, Handle

\* Worker creation, deletion and crashes move no message except to the pending
\* list.
LEMMA CopiesAdminister ==
    ASSUME TypeOK, NEW S \in SUBSET Msg, Copies(S), NEW w \in Worker,
           Administer(w)
    PROVE  Copies(S)'
  <1>1. CASE \/ CreateWorker(w) \/ RegisterWorker(w) \/ DelWorker(w)
             \/ DelInbox(w) \/ DelNames(w)
    BY Zenon, <1>1, CopiesStill DEF CreateWorker, RegisterWorker, DelWorker,
       DelInbox, DelNames, dispVars, workVars
  <1>2. CASE CancelTask(w)
    BY Zenon, <1>2 DEF CancelTask, Copies, busVars, dispVars, TypeOK, WorkType
  <1>3. CASE CloseInbox(w)
    BY Zenon, <1>3, SeqIn DEF CloseInbox, Copies, busVars, dispVars, TypeOK,
       WorkType
  <1> QED  BY Zenon, <1>1, <1>2, <1>3 DEF Administer

\* A crash leaves only copies that existed before it.
LEMMA CopiesCrash ==
    ASSUME TypeOK, NEW S \in SUBSET Msg, Copies(S), NEW n \in Node, Crash(n)
    PROVE  Copies(S)'
  <1>1. pc[n] \in Claimed => held[n] \in S
    BY Zenon, ConstantsAssumption DEF TypeOK, DispType, Copies, Claimed,
       Holding
  <1>2. orphans' \in Seq(S)
    <2> DEFINE o == IF pc[n] \in Claimed THEN Append(orphans, held[n]) ELSE orphans
    <2>1. orphans' = o \o reclaimed[n]
      BY Zenon DEF Crash
    <2>2. o \in Seq(S) /\ reclaimed[n] \in Seq(S)
      BY Zenon, <1>1, SeqIn DEF Copies
    <2> QED  BY Zenon, <2>1, <2>2, SeqIn
  <1>3. \A d \in Node : held'[d] \in S \cup {NoMsg} /\ reclaimed'[d] \in Seq(S)
    BY Zenon, SeqIn DEF Crash, Copies, TypeOK, DispType
  <1>4. \A w \in Worker : inbox'[w] \in Seq(S) /\ cur'[w] \in S \cup {NoMsg}
    BY Zenon, SeqIn DEF Crash, Copies
  <1> QED  BY Zenon, <1>2, <1>3, <1>4 DEF Copies, Crash

\* The delay scheduler moves records to the queue.
LEMMA CopiesScheduler ==
    ASSUME NEW S \in SUBSET Msg, Copies(S), Scheduler
    PROVE  Copies(S)'
  <1>1. CASE FetchReady
    BY Zenon, <1>1 DEF FetchReady, Copies, dispVars, workVars
  <1>2. ASSUME NEW m \in firing, FireDelayed(m)
        PROVE  Copies(S)'
    <2>1. queue' \in Seq(S)
      BY Zenon, <1>2, SeqIn DEF FireDelayed, Copies
    <2> QED  BY Zenon, <1>2, <2>1 DEF FireDelayed, Copies, dispVars, workVars
  <1> QED  BY Zenon, <1>1, <1>2 DEF Scheduler

\* TopicRouter::send adds a new message.
LEMMA CopiesSend ==
    ASSUME NEW S \in SUBSET Msg, Copies(S), NEW i \in Id, NEW t \in Targets,
           NewMsg(i, t) \in S, Send(i, t) \/ SendDelayed(i, t)
    PROVE  Copies(S)'
  <1>1. CASE Send(i, t)
    <2>1. queue' \in Seq(S)
      BY Zenon, <1>1, SeqIn DEF Send, Copies
    <2> QED  BY Zenon, <1>1, <2>1 DEF Send, Copies, dispVars, workVars
  <1>2. CASE SendDelayed(i, t)
    BY Zenon, <1>2 DEF SendDelayed, Schedule, Copies, dispVars, workVars
  <1> QED  BY Zenon, <1>1, <1>2

\* No step takes a copy out of S, if the copies a step changes stay in it.
LEMMA CopiesNext ==
    ASSUME TypeOK, NEW S \in SUBSET Msg, Copies(S), [Next]_vars,
           \A i \in Id, t \in Targets :
               Send(i, t) \/ SendDelayed(i, t) => NewMsg(i, t) \in S,
           \A n \in Node : RelayMiss(n) => Attempted(held[n]) \in S,
           \A n \in Node, w \in Worker :
               Deliver(n, w) => Stamped(held[n], w) \in S,
           \A w \in Worker : HandlerAck(w) => Consumed(cur[w]) \in S,
           \A w \in Worker, r \in RetryLimits, later \in BOOLEAN :
               HandlerNoAck(w, r, later) /\ Attempted(cur[w]).attempts < r
                   => Attempted(cur[w]) \in S
    PROVE  Copies(S)'
  <1>1. CASE \E i \in Id, t \in Targets : Send(i, t) \/ SendDelayed(i, t)
    BY Zenon, <1>1, CopiesSend
  <1>2. CASE Scheduler
    BY Zenon, <1>2, CopiesScheduler
  <1>3. CASE \E n \in Node : Dispatcher(n) \/ Crash(n)
    BY Zenon, <1>3, CopiesDispatcher, CopiesCrash
  <1>4. CASE \E w \in Worker : WorkerLoop(w) \/ Administer(w)
    BY Zenon, <1>4, CopiesWorker, CopiesAdminister
  <1>5. CASE UNCHANGED vars
    BY Zenon, <1>5, CopiesStill DEF vars, dispVars, workVars
  <1> QED  BY Zenon, <1>1, <1>2, <1>3, <1>4, <1>5 DEF Next

-----------------------------------------------------------------------------
(* Attempts *)

BoundedMsg == {m \in Msg : Bounded(m)}

\* The attempts counter that hops and retries share stays below the larger of
\* the hop cap and the retry limits, in every copy.
THEOREM AttemptsStayBounded == Spec => []AttemptsBounded
  <1>1. Init => Copies(BoundedMsg)
    BY SeqIn DEF Init, Copies
  <1>2. TypeOK /\ Copies(BoundedMsg) /\ [Next]_vars => Copies(BoundedMsg)'
    <2> SUFFICES ASSUME TypeOK, Copies(BoundedMsg), [Next]_vars
                 PROVE  Copies(BoundedMsg)'
      OBVIOUS
    <2>1. \A i \in Id, t \in Targets : NewMsg(i, t) \in BoundedMsg
      BY NewMsgType, ConstantsAssumption DEF BoundedMsg, Bounded
    <2>2. ASSUME NEW n \in Node, RelayMiss(n)
          PROVE  Attempted(held[n]) \in BoundedMsg
      <3>1. held[n] \in Msg /\ held[n].attempts < MaxHops
        BY Zenon, <2>2 DEF RelayMiss, TypeOK, DispType
      <3> QED  BY <3>1, MsgOps, ConstantsAssumption DEF BoundedMsg, Bounded
    <2>3. ASSUME NEW n \in Node, NEW w \in Worker, Deliver(n, w)
          PROVE  Stamped(held[n], w) \in BoundedMsg
      <3>1. held[n] \in BoundedMsg
        BY Zenon, <2>3, ConstantsAssumption DEF Deliver, TypeOK, DispType,
           Copies
      <3> QED  BY Zenon, <3>1, MsgOps DEF BoundedMsg, Bounded
    <2>4. ASSUME NEW w \in Worker, HandlerAck(w)
          PROVE  Consumed(cur[w]) \in BoundedMsg
      <3>1. cur[w] \in BoundedMsg
        BY Zenon, <2>4, ConstantsAssumption DEF HandlerAck, TypeOK,
           WorkType, Copies
      <3> QED  BY Zenon, <3>1, MsgOps DEF BoundedMsg, Bounded
    <2>5. ASSUME NEW w \in Worker, NEW r \in RetryLimits,
                 NEW later \in BOOLEAN, HandlerNoAck(w, r, later),
                 Attempted(cur[w]).attempts < r
          PROVE  Attempted(cur[w]) \in BoundedMsg
      <3>1. cur[w] \in Msg
        BY Zenon, <2>5 DEF HandlerNoAck, TypeOK, WorkType
      <3> QED  BY Zenon, <2>5, <3>1, MsgOps DEF BoundedMsg, Bounded
    <2>6. BoundedMsg \in SUBSET Msg
      BY Zenon DEF BoundedMsg
    <2>7. \A S \in SUBSET Msg : S = BoundedMsg => Copies(S)'
      BY Zenon, <2>1, <2>2, <2>3, <2>4, <2>5, CopiesNext
    <2> QED  BY Zenon, <2>6, <2>7
  <1>3. Copies(BoundedMsg) => AttemptsBounded
    <2> SUFFICES ASSUME Copies(BoundedMsg)
                 PROVE  AttemptsBounded
      OBVIOUS
    <2>1. \A m \in BoundedMsg : Bounded(m)
      BY Zenon DEF BoundedMsg
    <2>2. \A s \in Seq(BoundedMsg) : \A k \in DOMAIN s : s[k] \in BoundedMsg
      OBVIOUS
    <2> QED  BY Zenon, <2>1, <2>2 DEF Copies, AttemptsBounded
  <1> QED  BY <1>1, <1>2, <1>3, TypeCorrect, PTL DEF Spec

-----------------------------------------------------------------------------
(* Addresses *)

\* Copies of accepted messages that carry the address they were sent with.
Addressed ==
    {m \in Msg : /\ m.id \in sent
                 /\ target[m.id] # NoWorker => m.to = target[m.id]}

\* The inductive invariant behind InboxAddressed and TargetHonoured.
AddressInv ==
    /\ Copies(Addressed)
    /\ InboxAddressed
    /\ \A w \in Worker : wpc[w] # "idle" => cur[w].to = w
    /\ \A i \in Id \ sent : ackedBy[i] = {}
    /\ TargetHonoured

\* An address is fixed when the message is sent.
LEMMA AddressedGrows ==
    ASSUME TypeOK, [Next]_vars
    PROVE  /\ Addressed \subseteq Addressed'
           /\ \A i \in sent : i \in sent' /\ target'[i] = target[i]
  <1>1. CASE \E i \in Id, t \in Targets : Send(i, t) \/ SendDelayed(i, t)
    <2>1. PICK i \in Id, t \in Targets : Send(i, t) \/ SendDelayed(i, t)
      BY Zenon, <1>1
    <2>2. /\ i \notin sent /\ sent' = sent \cup {i}
          /\ target' = [target EXCEPT ![i] = t]
      BY Zenon, <2>1 DEF Send, SendDelayed
    <2> QED  BY Zenon, <2>2 DEF Addressed, TypeOK, HistType
  <1>2. CASE UNCHANGED <<sent, target>>
    BY Zenon, <1>2 DEF Addressed
  <1>3. \/ \E i \in Id, t \in Targets : Send(i, t) \/ SendDelayed(i, t)
        \/ UNCHANGED <<sent, target>>
    <2>1. Scheduler => UNCHANGED <<sent, target>>
      BY Zenon DEF Scheduler, FetchReady, FireDelayed, histVars
    <2>2. ASSUME NEW n \in Node, Dispatcher(n) \/ Crash(n)
          PROVE  UNCHANGED <<sent, target>>
      <3>1. CASE \/ ClaimStale(n) \/ Claim(n) \/ LoadGeneration(n)
                 \/ ReadNames(n) \/ FilterInboxes(n) \/ Nack(n) \/ RelayMiss(n)
        BY Zenon, <3>1 DEF ClaimStale, Claim, LoadGeneration, ReadNames,
           FilterInboxes, Nack, RelayMiss, histVars
      <3>2. CASE \/ \E w \in Worker : Deliver(n, w) \/ Refused(n, w)
                 \/ DropMiss(n) \/ Relay(n) \/ NackFails(n) \/ Ack(n)
        BY Zenon, <3>2 DEF Deliver, Refused, DropMiss, Relay, NackFails, Ack,
           NextClaim, histVars
      <3>3. CASE Crash(n)
        BY Zenon, <3>3 DEF Crash
      <3> QED  BY Zenon, <2>2, <3>1, <3>2, <3>3 DEF Dispatcher
    <2>3. ASSUME NEW w \in Worker, WorkerLoop(w)
          PROVE  UNCHANGED <<sent, target>>
      <3>1. CASE HandlerAck(w) \/ HandlerDead(w) \/ ProcessFails(w)
        BY Zenon, <3>1 DEF HandlerAck, HandlerDead, ProcessFails, Finish,
           SendBack
      <3>2. CASE \E r \in RetryLimits, later \in BOOLEAN :
                    HandlerNoAck(w, r, later)
        BY Zenon, <3>2 DEF HandlerNoAck, Finish, SendBack
      <3>3. CASE Receive(w) \/ Requeue(w) \/ RequeueFails(w)
        BY Zenon, <3>3 DEF Receive, Requeue, RequeueFails, Finish, histVars
      <3> QED  BY Zenon, <2>3, <3>1, <3>2, <3>3 DEF WorkerLoop, Handle
    <2>4. \A w \in Worker : Administer(w) => UNCHANGED <<sent, target>>
      BY Zenon DEF Administer, CreateWorker, RegisterWorker, DelWorker,
         DelInbox, DelNames, CancelTask, CloseInbox, histVars
    <2>5. UNCHANGED vars => UNCHANGED <<sent, target>>
      BY Zenon DEF vars, histVars
    <2> QED  BY Zenon, <2>1, <2>2, <2>3, <2>4, <2>5 DEF Next
  <1> QED  BY Zenon, <1>1, <1>2, <1>3

\* Stamping, relaying, retrying and repeating keep an address.
LEMMA AddressedCopies ==
    ASSUME TypeOK, AddressInv, [Next]_vars
    PROVE  Copies(Addressed)'
  <1>1. PICK S \in SUBSET Msg : S = Addressed'
    BY Zenon DEF Addressed
  <1>2. Copies(S)
    BY Zenon, <1>1, AddressedGrows, CopiesMonotone DEF AddressInv
  <1>3. ASSUME NEW i \in Id, NEW t \in Targets, Send(i, t) \/ SendDelayed(i, t)
        PROVE  NewMsg(i, t) \in S
    <2>1. i \in sent' /\ target'[i] = t
      BY Zenon, <1>3 DEF Send, SendDelayed, TypeOK, HistType
    <2> QED  BY <1>1, <2>1, NewMsgType DEF Addressed
  <1>4. \A m \in S : Attempted(m) \in S /\ Consumed(m) \in S
    BY Zenon, <1>1, MsgOps DEF Addressed
  <1>5. ASSUME NEW n \in Node, RelayMiss(n)
        PROVE  Attempted(held[n]) \in S
    <2>1. held[n] \in S
      BY Zenon, <1>2, <1>5, ConstantsAssumption DEF RelayMiss, TypeOK,
         DispType, Copies
    <2> QED  BY Zenon, <1>4, <2>1
  <1>6. ASSUME NEW n \in Node, NEW w \in Worker, Deliver(n, w)
        PROVE  Stamped(held[n], w) \in S
    <2>1. held[n] \in S /\ held[n].to \in {w, NoWorker}
      BY Zenon, <1>2, <1>6, ConstantsAssumption
         DEF Deliver, Selects, TypeOK, DispType, Copies
    <2> QED  BY Zenon, <1>1, <2>1, MsgOps DEF Addressed
  <1>7. ASSUME NEW w \in Worker, wpc[w] = "run"
        PROVE  Attempted(cur[w]) \in S /\ Consumed(cur[w]) \in S
    <2>1. cur[w] \in S
      BY Zenon, <1>2, <1>7, ConstantsAssumption DEF TypeOK, WorkType, Copies
    <2> QED  BY Zenon, <1>4, <2>1
  <1>8. /\ \A w \in Worker : HandlerAck(w) => Consumed(cur[w]) \in S
        /\ \A w \in Worker, r \in RetryLimits, later \in BOOLEAN :
               HandlerNoAck(w, r, later) => Attempted(cur[w]) \in S
    BY Zenon, <1>7 DEF HandlerAck, HandlerNoAck
  <1>9. Copies(S)'
    BY Zenon, <1>2, <1>3, <1>5, <1>6, <1>8, CopiesNext
  <1> QED  BY Zenon, <1>1, <1>9

\* Inboxes: only a delivery adds to one, and it adds a stamped message.
LEMMA AddressedInboxes ==
    ASSUME TypeOK, InboxAddressed, [Next]_vars
    PROVE  InboxAddressed'
  <1>1. CASE inbox' = inbox
    BY Zenon, <1>1 DEF InboxAddressed
  <1>2. ASSUME NEW n \in Node, NEW w \in Worker, Deliver(n, w)
        PROVE  InboxAddressed'
    <2>1. Stamped(held[n], w) \in Msg /\ Stamped(held[n], w).to = w
      BY Zenon, <1>2, MsgOps DEF Deliver, TypeOK, DispType
    <2>2. /\ inbox[w] \in Seq(Msg)
          /\ inbox'[w] = Append(inbox[w], Stamped(held[n], w))
          /\ \A v \in Worker \ {w} : inbox'[v] = inbox[v]
      BY Zenon, <1>2 DEF Deliver, TypeOK, WorkType
    <2>3. \A k \in DOMAIN inbox'[w] : inbox'[w][k].to = w
      <3>1. \A k \in DOMAIN inbox[w] : inbox[w][k].to = w
        BY Zenon DEF InboxAddressed
      <3>2. \A s \in Seq(Msg), m \in Msg :
                m.to = w /\ (\A k \in DOMAIN s : s[k].to = w)
                    => \A k \in DOMAIN Append(s, m) : Append(s, m)[k].to = w
        <4>1. \A s \in Seq(Msg), m \in Msg : \A k \in DOMAIN Append(s, m) :
                  \/ Append(s, m)[k] = m
                  \/ k \in DOMAIN s /\ Append(s, m)[k] = s[k]
          OBVIOUS
        <4> QED  BY <4>1
      <3> QED  BY <2>1, <2>2, <3>1, <3>2, Zenon
    <2> QED  BY Zenon, <2>2, <2>3 DEF InboxAddressed
  <1>3. ASSUME NEW w \in Worker, Receive(w)
        PROVE  InboxAddressed'
    <2>1. /\ inbox[w] \in Seq(Msg) /\ inbox[w] # <<>>
          /\ inbox'[w] = Tail(inbox[w])
          /\ \A v \in Worker \ {w} : inbox'[v] = inbox[v]
      BY Zenon, <1>3 DEF Receive, TypeOK, WorkType
    <2>2. \A k \in DOMAIN inbox'[w] : inbox'[w][k].to = w
      BY <2>1 DEF InboxAddressed
    <2> QED  BY Zenon, <2>1, <2>2 DEF InboxAddressed
  <1>4. ASSUME NEW w \in Worker, CloseInbox(w)
        PROVE  InboxAddressed'
    <2>1. \A v \in Worker : inbox'[v] = <<>> \/ inbox'[v] = inbox[v]
      BY Zenon, <1>4 DEF CloseInbox, TypeOK, WorkType
    <2>2. DOMAIN <<>> = {}
      OBVIOUS
    <2> QED  BY <2>1, <2>2, Zenon DEF InboxAddressed
  <1>5. ASSUME NEW n \in Node, Crash(n)
        PROVE  InboxAddressed'
    <2>1. \A w \in Worker : inbox'[w] = <<>> \/ inbox'[w] = inbox[w]
      BY Zenon, <1>5 DEF Crash
    <2> QED  BY <2>1 DEF InboxAddressed
  <1>6. \/ inbox' = inbox
        \/ \E n \in Node, w \in Worker : Deliver(n, w)
        \/ \E w \in Worker : Receive(w) \/ CloseInbox(w)
        \/ \E n \in Node : Crash(n)
    <2>1. (\E i \in Id, t \in Targets : Send(i, t) \/ SendDelayed(i, t))
              => inbox' = inbox
      BY Zenon DEF Send, SendDelayed, workVars
    <2>2. Scheduler => inbox' = inbox
      BY Zenon DEF Scheduler, FetchReady, FireDelayed, workVars
    <2>3. \A n \in Node : Dispatcher(n) => \/ inbox' = inbox
                                           \/ \E w \in Worker : Deliver(n, w)
      BY Zenon DEF Dispatcher, ClaimStale, Claim, LoadGeneration, ReadNames,
         FilterInboxes, Refused, DropMiss, RelayMiss, Relay, Nack,
         NackFails, Ack, NextClaim, workVars
    <2>4. ASSUME NEW w \in Worker, WorkerLoop(w)
          PROVE  inbox' = inbox \/ Receive(w)
      <3>1. CASE HandlerAck(w) \/ HandlerDead(w) \/ ProcessFails(w)
        BY Zenon, <3>1 DEF HandlerAck, HandlerDead, ProcessFails, Finish,
           SendBack
      <3>2. CASE \E r \in RetryLimits, later \in BOOLEAN :
                    HandlerNoAck(w, r, later)
        BY Zenon, <3>2 DEF HandlerNoAck, Finish, SendBack
      <3>3. CASE Requeue(w) \/ RequeueFails(w)
        BY Zenon, <3>3 DEF Requeue, RequeueFails, Finish
      <3> QED  BY Zenon, <2>4, <3>1, <3>2, <3>3 DEF WorkerLoop, Handle
    <2>5. \A w \in Worker : Administer(w) => inbox' = inbox \/ CloseInbox(w)
      BY Zenon DEF Administer, CreateWorker, RegisterWorker, DelWorker,
         DelInbox, DelNames, CancelTask, workVars
    <2>6. UNCHANGED vars => inbox' = inbox
      BY Zenon DEF vars, workVars
    <2> QED  BY Zenon, <2>1, <2>2, <2>3, <2>4, <2>5, <2>6 DEF Next
  <1> QED  BY Zenon, <1>1, <1>2, <1>3, <1>4, <1>5, <1>6

\* A worker processes only what was in its inbox.
LEMMA AddressedHandlers ==
    ASSUME TypeOK, AddressInv, [Next]_vars, NEW v \in Worker, wpc'[v] # "idle"
    PROVE  cur'[v].to = v
  <1>1. CASE UNCHANGED <<cur, wpc>>
    BY Zenon, <1>1 DEF AddressInv
  <1>2. ASSUME NEW w \in Worker, WorkerLoop(w)
        PROVE  cur'[v].to = v
    <2>1. CASE v # w
      <3>1. cur'[v] = cur[v] /\ wpc'[v] = wpc[v]
        BY Zenon, <1>2, <2>1 DEF WorkerLoop, Receive, Handle, HandlerAck,
           HandlerDead, ProcessFails, HandlerNoAck, Requeue, RequeueFails,
           Finish, SendBack, TypeOK, WorkType
      <3> QED  BY Zenon, <3>1 DEF AddressInv
    <2>2. CASE Receive(w) /\ v = w
      <3>1. /\ inbox[w] \in Seq(Msg) /\ inbox[w] # <<>>
            /\ cur'[w] = Head(inbox[w])
        BY Zenon, <2>2 DEF Receive, TypeOK, WorkType
      <3>2. 1 \in DOMAIN inbox[w] /\ Head(inbox[w]) = inbox[w][1]
        BY <3>1
      <3>3. inbox[w][1].to = w
        BY Zenon, <3>2 DEF AddressInv, InboxAddressed
      <3> QED  BY Zenon, <2>2, <3>1, <3>2, <3>3
    <2>3. CASE Handle(w) /\ v = w
      <3>1. cur[w] \in Msg /\ cur[w].to = w
        BY Zenon, <2>3 DEF Handle, HandlerAck, HandlerDead, ProcessFails,
           HandlerNoAck, TypeOK, WorkType, AddressInv
      <3>2. cur'[w] \in {Consumed(cur[w]), Attempted(cur[w])}
        BY Zenon, <2>3 DEF Handle, HandlerAck, HandlerDead, ProcessFails,
           HandlerNoAck, Finish, SendBack, TypeOK, WorkType
      <3> QED  BY Zenon, <2>3, <3>1, <3>2, MsgOps
    <2>4. CASE (Requeue(w) \/ RequeueFails(w)) /\ v = w
      BY Zenon, <2>4 DEF Requeue, RequeueFails, Finish, TypeOK, WorkType
    <2> QED  BY Zenon, <1>2, <2>1, <2>2, <2>3, <2>4 DEF WorkerLoop
  <1>3. ASSUME NEW w \in Worker, CancelTask(w)
        PROVE  cur'[v].to = v
    BY Zenon, <1>3 DEF CancelTask, TypeOK, WorkType, AddressInv
  <1>4. ASSUME NEW n \in Node, Crash(n)
        PROVE  cur'[v].to = v
    BY Zenon, <1>4 DEF Crash, AddressInv
  <1>5. \/ UNCHANGED <<cur, wpc>>
        \/ \E w \in Worker : WorkerLoop(w) \/ CancelTask(w)
        \/ \E n \in Node : Crash(n)
    <2>1. (\E i \in Id, t \in Targets : Send(i, t) \/ SendDelayed(i, t))
              => UNCHANGED <<cur, wpc>>
      BY Zenon DEF Send, SendDelayed, workVars
    <2>2. Scheduler => UNCHANGED <<cur, wpc>>
      BY Zenon DEF Scheduler, FetchReady, FireDelayed, workVars
    <2>3. \A n \in Node : Dispatcher(n) => UNCHANGED <<cur, wpc>>
      BY Zenon DEF Dispatcher, ClaimStale, Claim, LoadGeneration, ReadNames,
         FilterInboxes, Deliver, Refused, DropMiss, RelayMiss, Relay, Nack,
         NackFails, Ack, NextClaim, workVars
    <2>4. \A w \in Worker : Administer(w) => UNCHANGED <<cur, wpc>> \/ CancelTask(w)
      BY Zenon DEF Administer, CreateWorker, RegisterWorker, DelWorker,
         DelInbox, DelNames, CloseInbox, workVars
    <2>5. UNCHANGED vars => UNCHANGED <<cur, wpc>>
      BY Zenon DEF vars, workVars
    <2> QED  BY Zenon, <2>1, <2>2, <2>3, <2>4, <2>5 DEF Next
  <1> QED  BY Zenon, <1>1, <1>2, <1>3, <1>4, <1>5

\* Only the addressee's handler acknowledges a message.
LEMMA AddressedAcks ==
    ASSUME TypeOK, AddressInv, [Next]_vars
    PROVE  /\ \A i \in Id \ sent' : ackedBy'[i] = {}
           /\ TargetHonoured'
  <1>1. CASE ackedBy' = ackedBy
    <2>1. \A i \in Id : i \in sent => i \in sent' /\ target'[i] = target[i]
      BY Zenon, AddressedGrows
    <2>2. \A i \in Id : i \notin sent => ackedBy[i] = {}
      BY Zenon DEF AddressInv
    <2> QED  BY Zenon, <1>1, <2>1, <2>2 DEF AddressInv, TargetHonoured
  <1>2. ASSUME NEW w \in Worker, HandlerAck(w) \/ ProcessFails(w),
               ackedBy' # ackedBy
        PROVE  /\ \A i \in Id \ sent' : ackedBy'[i] = {}
               /\ TargetHonoured'
    <2>1. cur[w] \in Addressed /\ cur[w].to = w
      BY Zenon, <1>2, ConstantsAssumption
         DEF HandlerAck, ProcessFails, TypeOK, WorkType, AddressInv, Copies
    <2>2. cur[w] \in Msg /\ Consumed(cur[w]).id = cur[w].id /\ cur[w].id \in Id
      BY Zenon, <2>1, MsgOps DEF Addressed
    <2>3. ackedBy' = [ackedBy EXCEPT ![cur[w].id] = @ \cup {w}]
      BY Zenon, <1>2, <2>2 DEF HandlerAck, ProcessFails
    <2>4. UNCHANGED <<sent, target>>
      BY Zenon, <1>2 DEF HandlerAck, ProcessFails, Finish, SendBack
    <2> QED
      BY Zenon, <2>1, <2>2, <2>3, <2>4
         DEF TypeOK, HistType, AddressInv, Addressed, TargetHonoured
  <1>3. \/ ackedBy' = ackedBy
        \/ \E w \in Worker : HandlerAck(w) \/ ProcessFails(w)
    <2>1. (\E i \in Id, t \in Targets : Send(i, t) \/ SendDelayed(i, t))
              => ackedBy' = ackedBy
      BY Zenon DEF Send, SendDelayed
    <2>2. Scheduler => ackedBy' = ackedBy
      BY Zenon DEF Scheduler, FetchReady, FireDelayed, histVars
    <2>3. ASSUME NEW n \in Node, Dispatcher(n) \/ Crash(n)
          PROVE  ackedBy' = ackedBy
      <3>1. CASE \/ ClaimStale(n) \/ Claim(n) \/ LoadGeneration(n)
                 \/ ReadNames(n) \/ FilterInboxes(n) \/ Nack(n) \/ RelayMiss(n)
        BY Zenon, <3>1 DEF ClaimStale, Claim, LoadGeneration, ReadNames,
           FilterInboxes, Nack, RelayMiss, histVars
      <3>2. CASE \/ \E w \in Worker : Deliver(n, w) \/ Refused(n, w)
                 \/ DropMiss(n) \/ Relay(n) \/ NackFails(n) \/ Ack(n)
        BY Zenon, <3>2 DEF Deliver, Refused, DropMiss, Relay, NackFails, Ack,
           NextClaim, histVars
      <3>3. CASE Crash(n)
        BY Zenon, <3>3 DEF Crash
      <3> QED  BY Zenon, <2>3, <3>1, <3>2, <3>3 DEF Dispatcher
    <2>4. \A w \in Worker : WorkerLoop(w) => \/ ackedBy' = ackedBy
                                             \/ HandlerAck(w) \/ ProcessFails(w)
      BY Zenon DEF WorkerLoop, Receive, Handle, HandlerDead, HandlerNoAck,
         Requeue, RequeueFails, histVars
    <2>5. \A w \in Worker : Administer(w) => ackedBy' = ackedBy
      BY Zenon DEF Administer, CreateWorker, RegisterWorker, DelWorker,
         DelInbox, DelNames, CancelTask, CloseInbox, histVars
    <2>6. UNCHANGED vars => ackedBy' = ackedBy
      BY Zenon DEF vars, histVars
    <2> QED  BY Zenon, <2>1, <2>2, <2>3, <2>4, <2>5, <2>6 DEF Next
  <1> QED  BY Zenon, <1>1, <1>2, <1>3

\* The addresses the dispatchers write and relay are kept to the handler.
LEMMA AddressInvariant == Spec => []AddressInv
  <1>1. Init => AddressInv
    <2> SUFFICES ASSUME Init
                 PROVE  AddressInv
      OBVIOUS
    <2>1. Copies(Addressed)
      BY Zenon, SeqIn DEF Init, Copies
    <2>2. InboxAddressed
      BY DEF Init, InboxAddressed
    <2>3. TargetHonoured /\ \A i \in Id : ackedBy[i] = {}
      BY Zenon DEF Init, TargetHonoured
    <2>4. \A w \in Worker : wpc[w] = "idle"
      BY Zenon DEF Init
    <2> QED  BY Zenon, <2>1, <2>2, <2>3, <2>4 DEF AddressInv
  <1>2. TypeOK /\ AddressInv /\ [Next]_vars => AddressInv'
    <2> SUFFICES ASSUME TypeOK, AddressInv, [Next]_vars
                 PROVE  AddressInv'
      OBVIOUS
    <2>1. Copies(Addressed)'
      BY Zenon, AddressedCopies
    <2>2. InboxAddressed'
      BY Zenon, AddressedInboxes DEF AddressInv
    <2>3. \A w \in Worker : wpc'[w] # "idle" => cur'[w].to = w
      BY Zenon, AddressedHandlers
    <2> QED  BY Zenon, <2>1, <2>2, <2>3, AddressedAcks DEF AddressInv
  <1> QED  BY <1>1, <1>2, TypeCorrect, PTL DEF Spec

\* The is_misrouted test of the inbox loop never succeeds: an inbox holds only
\* messages stamped for its worker.
THEOREM InboxesAddressed == Spec => []InboxAddressed
  <1>1. AddressInv => InboxAddressed
    BY Zenon DEF AddressInv
  <1> QED  BY <1>1, AddressInvariant, PTL

\* A message sent to one worker is acknowledged by no other worker, whatever
\* crashes, redeliveries, relays, retries and deletions happen on the way.
THEOREM TargetsHonoured == Spec => []TargetHonoured
  <1>1. AddressInv => TargetHonoured
    BY Zenon DEF AddressInv
  <1> QED  BY <1>1, AddressInvariant, PTL

=============================================================================
