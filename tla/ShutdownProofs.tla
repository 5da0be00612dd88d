--------------------------- MODULE ShutdownProofs ---------------------------
(* Safety of the shutdown strategies, for any workers and callers. *)
EXTENDS Shutdown, TLAPS

AtWork(c) == pc[c] \notin Ended \cup {"rest"}

\* What caller c has done so far, by where it is.
CallerInv(c) ==
    /\ c \in Worker /\ AtWork(c) => task[c] = "busy"
    /\ snap[c] \cap index \subseteq todo[c]
    /\ pc[c] \in {"rest", "sleep", "poll", "snap", "lookup"} => snap[c] = {}
    /\ pc[c] = "poll" => strat[c] = "TwoStage"
    /\ pc[c] \in {"sleep", "snap", "next"} => strat[c] # "Graceful"
    /\ pc[c] = "snap" => strat[c] # "Cleanup"
    /\ pc[c] \in {"lookup", "watch"} => strat[c] = "Graceful"
    /\ pc[c] \in {"watch", "ack", "write"} /\ strat[c] = "Graceful"
         => snap[c] = {cur[c]}
    /\ pc[c] = "done" => snap[c] \cap index = {}

\* What c has told the Host.
AckInv(c) ==
    /\ Fatal(c) => snap[c] \subseteq acked \cup todo[c]
    /\ Fatal(c) /\ pc[c] = "write" => cur[c] \in acked
    /\ Fatal(c) /\ pc[c] = "done" => snap[c] \subseteq acked

\* TwoStage's first stage only has finished workers in hand.
CleanupInv(c) ==
    strat[c] = "Cleanup" =>
        /\ todo[c] \subseteq complete
        /\ pc[c] \in {"next", "write"} \cup Ended
        /\ pc[c] = "write" => cur[c] \in complete

WorkerInv(w) ==
    /\ w \in complete => task[w] = "done"
    /\ killer[w] = "Cleanup" => w \in complete

SafeInv ==
    /\ TypeOK
    /\ \A c \in Caller : CallerInv(c) /\ AckInv(c) /\ CleanupInv(c)
    /\ \A w \in Worker : WorkerInv(w)

USE ShutdownAssumption DEF PC, Ended
-----------------------------------------------------------------------------
(* Types. *)

\* A handler's worker goes back to its loop, well typed.
LEMMA ReturnType ==
    ASSUME TypeOK, NEW c \in Caller, NEW l \in PC, Return(c, l)
    PROVE  /\ pc' \in [Caller -> PC]
           /\ task' \in [Worker -> {"idle", "busy", "done", "dead"}]
           /\ status' \in [Worker -> {"Idle", "Working"}]
           /\ \A w \in Worker : task'[w] = "busy" => status'[w] = "Working"
           /\ \A d \in Caller \ {c} : pc'[d] = pc[d]
  BY ZenonT(60) DEF TypeOK, Return, Goto, Become

\* The steps of the workers and of the recv task keep the types.
LEMMA WorkerType ==
    ASSUME TypeOK, NEW w \in Worker,
           RecvStarts \/ Take(w) \/ Finish(w) \/ Stop(w) \/ Cancel(w)
    PROVE  TypeOK'
  <1>1. CASE RecvStarts
    BY Zenon, <1>1 DEF TypeOK, RecvStarts, workerVars, callVars
  <1>2. CASE Take(w)
    BY Zenon, <1>2 DEF TypeOK, Take, Become, callVars
  <1>3. CASE Finish(w)
    BY Zenon, <1>3 DEF TypeOK, Finish, Become, callVars
  <1>4. CASE Stop(w)
    BY Zenon, <1>4 DEF TypeOK, Stop, callVars
  <1>5. CASE Cancel(w)
    BY Zenon, <1>5 DEF TypeOK, Cancel
  <1> QED  BY Zenon, <1>1, <1>2, <1>3, <1>4, <1>5

\* The first steps of a strategy keep the types.
LEMMA BeginType ==
    ASSUME TypeOK, NEW c \in Caller,
           Command(c) \/ Sleep(c) \/ Snapshot(c) \/ Poll(c)
             \/ ForceTimeout(c) \/ Lookup(c) \/ Watch(c)
    PROVE  TypeOK'
  <1>1. CASE Command(c)
    <2>1. PICK s \in Commands, w \in Worker :
            /\ cur' = [cur EXCEPT ![c] = w]
            /\ strat' = [strat EXCEPT ![c] = s]
      BY Zenon, <1>1 DEF Command
    <2>2. \E l \in {"poll", "lookup", "sleep", "snap"} : Goto(c, l)
      BY Zenon, <1>1 DEF Command
    <2>3. Become(c, "busy", "Working") \/ UNCHANGED <<task, status>>
      BY Zenon, <1>1 DEF Command
    <2> QED  BY <1>1, <2>1, <2>2, <2>3 DEF TypeOK, Command, Become, Goto
  <1>2. CASE Sleep(c)
    BY Zenon, <1>2 DEF TypeOK, Sleep, Goto, workerVars
  <1>3. CASE Snapshot(c)
    BY <1>3 DEF TypeOK, Snapshot, SetOut, Goto
  <1>4. CASE Poll(c)
    <2>1. CASE Return(c, "done") /\ UNCHANGED <<strat, todo, snap>>
      BY <1>4, <2>1, ReturnType DEF TypeOK, Poll
    <2>2. CASE /\ Goto(c, "next") /\ SetOut(c, index)
               /\ strat' = [strat EXCEPT ![c] = "Cleanup"]
               /\ UNCHANGED <<task, status>>
      BY Zenon, <1>4, <2>2 DEF TypeOK, Poll, SetOut, Goto
    <2> QED  BY Zenon, <1>4, <2>1, <2>2 DEF Poll
  <1>5. CASE ForceTimeout(c)
    BY Zenon, <1>5 DEF TypeOK, ForceTimeout, Goto, workerVars
  <1>6. CASE Lookup(c)
    <2>1. CASE Return(c, "failed") /\ UNCHANGED <<todo, snap>>
      BY <1>6, <2>1, ReturnType DEF TypeOK, Lookup
    <2>2. CASE /\ cur[c] \in index /\ Goto(c, "watch")
               /\ SetOut(c, {cur[c]}) /\ UNCHANGED <<task, status>>
      BY ZenonT(60), <1>6, <2>2 DEF TypeOK, Lookup, SetOut, Goto
    <2> QED  BY Zenon, <1>6, <2>1, <2>2 DEF Lookup
  <1>7. CASE Watch(c)
    BY ZenonT(60), <1>7 DEF TypeOK, Watch, Goto
  <1> QED  BY Zenon, <1>1, <1>2, <1>3, <1>4, <1>5, <1>6, <1>7

\* So do the steps of the loop over the workers to be removed.
LEMMA LoopType ==
    ASSUME TypeOK, NEW c \in Caller,
           Pick(c) \/ SendAck(c) \/ DelWorker(c) \/ Finished(c)
    PROVE  TypeOK'
  <1>1. CASE Pick(c)
    <2>1. PICK w \in todo[c] :
            /\ cur' = [cur EXCEPT ![c] = w]
            /\ \/ UNCHANGED <<pc, permit>>
               \/ Goto(c, "write") /\ UNCHANGED permit
               \/ Goto(c, "ack") /\ permit' = permit \cup {w}
            /\ todo' \in {todo, [todo EXCEPT ![c] = @ \ {w}]}
            /\ snap' \in {snap, [snap EXCEPT ![c] = @ \ {w}]}
      BY Zenon, <1>1 DEF Pick
    <2>2. w \in Worker
      BY Zenon, <2>1 DEF TypeOK
    <2> QED  BY <1>1, <2>1, <2>2 DEF TypeOK, Pick, Goto
  <1>2. CASE SendAck(c)
    <2>1. cur[c] \in Worker /\ acked' \subseteq Worker
      BY Zenon, <1>2 DEF TypeOK, SendAck
    <2>2. CASE Return(c, "failed")
      BY <1>2, <2>1, <2>2, ReturnType DEF TypeOK, SendAck
    <2>3. CASE Goto(c, "write") /\ UNCHANGED <<task, status>>
      BY Zenon, <1>2, <2>1, <2>3 DEF TypeOK, SendAck, Goto
    <2> QED  BY Zenon, <1>2, <2>2, <2>3 DEF SendAck
  <1>3. CASE DelWorker(c)
    <2>1. /\ index' \subseteq Worker
          /\ killer' \in [Worker -> Strategy \cup {"Cleanup", "none"}]
          /\ todo' \in [Caller -> SUBSET Worker]
      BY Zenon, <1>3 DEF TypeOK, DelWorker
    <2>2. CASE \E l \in {"done", "failed"} : Return(c, l)
      BY <1>3, <2>1, <2>2, ReturnType DEF TypeOK, DelWorker
    <2>3. CASE Goto(c, "next") /\ UNCHANGED <<task, status>>
      BY Zenon, <1>3, <2>1, <2>3 DEF TypeOK, DelWorker, Goto
    <2> QED  BY Zenon, <1>3, <2>2, <2>3 DEF DelWorker
  <1>4. CASE Finished(c)
    <2>1. Return(c, "done") /\ "done" \in PC
      BY Zenon, <1>4 DEF Finished
    <2> QED  BY <1>4, <2>1, ReturnType DEF TypeOK, Finished
  <1> QED  BY Zenon, <1>1, <1>2, <1>3, <1>4

\* Every reachable state is well typed; in particular a worker that processes
\* a message says so, which shutdown_idle_only and graceful_shutdown rely on.
THEOREM TypeCorrect == Spec => []TypeOK
  <1>1. Init => TypeOK
    <2>1. Init => recv \in BOOLEAN
      BY Zenon DEF Init
    <2> QED  BY <2>1 DEF Init, TypeOK
  <1>2. TypeOK /\ [Next]_vars => TypeOK'
    <2> SUFFICES ASSUME TypeOK, [Next]_vars PROVE TypeOK'
      OBVIOUS
    <2>1. CASE UNCHANGED vars
      BY Zenon, <2>1 DEF TypeOK, vars, workerVars, callVars
    <2>2. CASE RecvStarts
      BY Zenon, <2>2 DEF TypeOK, RecvStarts, workerVars, callVars
    <2>3. CASE \E w \in Worker : Take(w) \/ Finish(w) \/ Stop(w) \/ Cancel(w)
      BY Zenon, <2>3, WorkerType
    <2>4. CASE \E c \in Caller : Command(c) \/ CallerStep(c)
      BY Zenon, <2>4, BeginType, LoopType DEF CallerStep
    <2> QED  BY Zenon, <2>1, <2>2, <2>3, <2>4 DEF Next
  <1> QED  BY <1>1, <1>2, PTL DEF Spec

-----------------------------------------------------------------------------
(* What the strategies guarantee. *)

CInv(c) == CallerInv(c) /\ AckInv(c) /\ CleanupInv(c)

\* A caller's own invariant survives any step that leaves its variables alone,
\* whatever the others delete, acknowledge or complete meanwhile.
LEMMA Untouched ==
    ASSUME NEW c \in Caller, CInv(c),
           pc'[c] = pc[c], strat'[c] = strat[c], todo'[c] = todo[c],
           cur'[c] = cur[c], snap'[c] = snap[c],
           c \in Worker /\ AtWork(c) => task'[c] = task[c],
           index' \subseteq index, acked \subseteq acked',
           complete \subseteq complete'
    PROVE  CInv(c)'
  <1>1. CallerInv(c)'
    BY Zenon DEF CInv, CallerInv, AtWork
  <1>2. AckInv(c)'
    BY Zenon DEF CInv, AckInv, Fatal
  <1>3. CleanupInv(c)'
    BY Zenon DEF CInv, CleanupInv
  <1> QED  BY Zenon, <1>1, <1>2, <1>3 DEF CInv

\* A step of the workers or of the recv task.
LEMMA WorkerStep ==
    ASSUME SafeInv, NEW w \in Worker,
           RecvStarts \/ Take(w) \/ Finish(w) \/ Stop(w) \/ Cancel(w),
           NEW c \in Caller
    PROVE  CInv(c)'
  <1>1. CInv(c)
    BY Zenon DEF SafeInv, CInv
  <1>2. CASE ~ Cancel(w)
    <2>1. /\ UNCHANGED callVars /\ UNCHANGED index
          /\ acked \subseteq acked' /\ complete \subseteq complete'
      BY Zenon, <1>2 DEF RecvStarts, Take, Finish, Stop, workerVars
    <2>2. c \in Worker /\ AtWork(c) => task'[c] = task[c]
      <3>1. c \in Worker /\ AtWork(c) => task[c] = "busy"
        BY Zenon, <1>1 DEF CInv, CallerInv
      <3> QED  BY ZenonT(60), <1>2, <3>1 DEF RecvStarts, Take, Finish, Stop, Become,
                  workerVars, SafeInv, TypeOK
    <2> QED  BY Zenon, <1>1, <2>1, <2>2, Untouched DEF callVars
  <1>3. CASE Cancel(w)
    <2>1. CASE pc'[c] = pc[c] /\ c # w
      BY Zenon, <1>1, <1>3, <2>1, Untouched DEF Cancel, SafeInv, TypeOK
    <2>2. CASE pc'[c] = pc[c] /\ c = w
      <3>1. c \in Worker /\ AtWork(c) => task[c] = "busy"
        BY Zenon, <1>1 DEF CInv, CallerInv
      <3>2. ~ AtWork(c)
        BY Zenon, <1>3, <2>2, <3>1 DEF Cancel, AtWork
      <3> QED  BY Zenon, <1>1, <1>3, <2>2, <3>2, Untouched DEF Cancel
    <2>3. CASE pc'[c] = "dead"
      BY Zenon, <1>1, <1>3, <2>3 DEF CInv, CallerInv, AckInv, CleanupInv,
         AtWork, Cancel, Fatal
    <2> QED  BY Zenon, <1>3, <2>1, <2>2, <2>3 DEF Cancel, SafeInv, TypeOK
  <1> QED  BY Zenon, <1>2, <1>3

\* A caller's step leaves the variables of every other caller alone.
LEMMA OtherCaller ==
    ASSUME SafeInv, NEW d \in Caller, Command(d) \/ CallerStep(d),
           NEW c \in Caller \ {d}
    PROVE  CInv(c)'
  <1>1. CInv(c)
    BY Zenon DEF SafeInv, CInv
  <1>2. /\ pc'[c] = pc[c] /\ strat'[c] = strat[c] /\ todo'[c] = todo[c]
        /\ cur'[c] = cur[c] /\ snap'[c] = snap[c]
    <2>1. CASE Command(d)
      BY ZenonT(60), <2>1 DEF SafeInv, TypeOK, Command, Goto
    <2>2. CASE Sleep(d) \/ Snapshot(d) \/ Poll(d) \/ ForceTimeout(d)
      BY ZenonT(60), <2>2 DEF SafeInv, TypeOK, Sleep, Snapshot, Poll, ForceTimeout,
         SetOut, Goto, Return
    <2>3. CASE Lookup(d) \/ Watch(d) \/ Pick(d)
      BY <2>3 DEF SafeInv, TypeOK, Lookup, Watch, Pick, SetOut, Goto, Return
    <2>4. CASE SendAck(d) \/ DelWorker(d) \/ Finished(d)
      BY ZenonT(60), <2>4 DEF SafeInv, TypeOK, SendAck, DelWorker, Finished,
         Goto, Return
    <2> QED  BY Zenon, <2>1, <2>2, <2>3, <2>4 DEF CallerStep
  <1>3. c \in Worker => task'[c] = task[c]
    <2>1. CASE Command(d) \/ Snapshot(d)
      BY ZenonT(60), <2>1 DEF SafeInv, TypeOK, Command, Snapshot, Become
    <2>2. CASE UNCHANGED task \/ \E l \in PC : Return(d, l)
      BY Zenon, <2>2 DEF SafeInv, TypeOK, Return, Become
    <2> QED  BY Zenon, <2>1, <2>2 DEF CallerStep, Sleep, Poll, ForceTimeout,
                Lookup, Watch, Pick, SendAck, DelWorker, Finished,
                workerVars
  <1>4. /\ index' \subseteq index /\ acked \subseteq acked'
        /\ complete \subseteq complete'
    BY Zenon DEF CallerStep, Command, Sleep, Snapshot, Poll, ForceTimeout,
       Lookup, Watch, Pick, SendAck, DelWorker, Finished, workerVars
  <1> QED  BY Zenon, <1>1, <1>2, <1>3, <1>4, Untouched

\* A caller's own step up to the loop over the workers.
LEMMA OwnBegin ==
    ASSUME SafeInv, NEW c \in Caller,
           Command(c) \/ Sleep(c) \/ Snapshot(c) \/ Poll(c)
             \/ ForceTimeout(c) \/ Lookup(c) \/ Watch(c)
    PROVE  CInv(c)'
  <1> USE DEF CInv, CallerInv, AckInv, CleanupInv, AtWork, Fatal
  <1>1. TypeOK /\ CInv(c)
    BY Zenon DEF SafeInv
  <1>2. CASE Command(c)
    <2>1. PICK s \in Commands : strat' = [strat EXCEPT ![c] = s]
      BY Zenon, <1>2 DEF Command
    <2>2. pc[c] = "rest" /\ UNCHANGED <<index, complete, acked, todo, snap>>
      BY Zenon, <1>2 DEF Command
    <2>3. /\ s = "TwoStage" => Goto(c, "poll")
          /\ s = "Graceful" => Goto(c, "lookup")
          /\ s \notin {"TwoStage", "Graceful"} => Goto(c, "sleep") \/ Goto(c, "snap")
      <3>1. PICK z \in Commands :
              /\ strat' = [strat EXCEPT ![c] = z]
              /\ Goto(c, CASE z = "TwoStage" -> "poll"
                           [] z = "Graceful" -> "lookup"
                           [] z = "Timeout"  -> "sleep"
                           [] OTHER          -> "snap")
        BY Zenon, <1>2 DEF Command
      <3>2. z = s
        BY ZenonT(60), <1>1, <2>1, <3>1 DEF TypeOK
      <3> QED  BY <3>1, <3>2, Zenon
    <2>4. c \in Worker => task'[c] = "busy"
      BY ZenonT(60), <1>1, <1>2 DEF Command, Become, TypeOK
    <2>5. s # "Cleanup"
      BY Zenon, <2>1 DEF Strategy
    <2>6. snap'[c] = {} /\ strat'[c] = s /\ pc'[c] \notin {"write", "done"}
      BY Zenon, <1>1, <2>1, <2>2, <2>3 DEF TypeOK, Goto
    <2>7. CallerInv(c)'
      <3>1. /\ pc'[c] = "poll" => s = "TwoStage"
            /\ pc'[c] \in {"sleep", "snap", "next"} => s # "Graceful"
            /\ pc'[c] = "lookup" => s = "Graceful"
            /\ pc'[c] \in {"poll", "sleep", "snap", "lookup"}
        BY ZenonT(60), <1>1, <2>3 DEF TypeOK, Goto
      <3> QED  BY Zenon, <2>4, <2>5, <2>6, <3>1
    <2> QED  BY Zenon, <2>5, <2>6, <2>7
  <1>3. CASE Sleep(c)
    BY Zenon, <1>1, <1>3 DEF TypeOK, Sleep, Goto, workerVars
  <1>4. CASE Snapshot(c)
    BY <1>1, <1>4 DEF TypeOK, Snapshot, Goto, SetOut
  <1>5. CASE Poll(c)
    <2>1. CASE index = {} /\ Return(c, "done") /\ UNCHANGED <<strat, todo, snap>>
      <3>1. /\ pc'[c] = "done" /\ snap'[c] = {} /\ strat'[c] = strat[c]
            /\ strat[c] = "TwoStage"
        BY Zenon, <1>1, <1>5, <2>1 DEF TypeOK, Poll, Return, Goto
      <3> QED  BY Zenon, <3>1
    <2>2. CASE /\ index # {} /\ Goto(c, "next") /\ SetOut(c, index)
               /\ strat' = [strat EXCEPT ![c] = "Cleanup"]
               /\ UNCHANGED <<task, status>>
      <3>1. /\ pc'[c] = "next" /\ strat'[c] = "Cleanup"
            /\ todo'[c] = index /\ snap'[c] = index
            /\ UNCHANGED <<index, task, complete>> /\ index \subseteq complete
        BY Zenon, <1>1, <1>5, <2>2 DEF TypeOK, Poll, Goto, SetOut, AllDone
      <3>2. c \in Worker => task[c] = "busy"
        BY Zenon, <1>1, <1>5 DEF Poll
      <3> QED  BY Zenon, <3>1, <3>2
    <2> QED  BY Zenon, <1>5, <2>1, <2>2 DEF Poll
  <1>6. CASE ForceTimeout(c)
    BY Zenon, <1>1, <1>6 DEF TypeOK, ForceTimeout, Goto, workerVars
  <1>7. CASE Lookup(c)
    <2>1. CASE Return(c, "failed") /\ UNCHANGED <<todo, snap>>
      <3>1. /\ pc'[c] = "failed" /\ strat'[c] = strat[c]
            /\ strat[c] = "Graceful" /\ snap'[c] = {}
        BY Zenon, <1>1, <1>7, <2>1 DEF TypeOK, Lookup, Return, Goto
      <3> QED  BY Zenon, <3>1
    <2>2. CASE /\ Goto(c, "watch") /\ SetOut(c, {cur[c]})
               /\ UNCHANGED <<task, status>>
      BY Zenon, <1>1, <1>7, <2>2 DEF TypeOK, Lookup, Goto, SetOut
    <2> QED  BY Zenon, <1>7, <2>1, <2>2 DEF Lookup
  <1>8. CASE Watch(c)
    BY Zenon, <1>1, <1>8 DEF TypeOK, Watch, Goto
  <1> QED  BY Zenon, <1>2, <1>3, <1>4, <1>5, <1>6, <1>7, <1>8

\* A caller's own step in that loop.
LEMMA OwnLoop ==
    ASSUME SafeInv, NEW c \in Caller,
           Pick(c) \/ SendAck(c) \/ DelWorker(c) \/ Finished(c)
    PROVE  CInv(c)'
  <1> USE DEF CInv, CallerInv, AckInv, CleanupInv, AtWork, Fatal
  <1>1. TypeOK /\ CInv(c)
    BY Zenon DEF SafeInv
  <1>2. CASE Pick(c)
    <2>1. PICK w \in todo[c] :
            /\ cur' = [cur EXCEPT ![c] = w]
            /\ \/ /\ todo' = [todo EXCEPT ![c] = @ \ {w}]
                  /\ snap' = [snap EXCEPT ![c] = @ \ {w}]
                  /\ strat[c] = "StateBasedIdle" /\ UNCHANGED pc
               \/ /\ strat[c] = "Cleanup"
                  /\ Goto(c, "write") /\ UNCHANGED <<todo, snap>>
               \/ /\ strat[c] # "Cleanup"
                  /\ Goto(c, "ack") /\ UNCHANGED <<todo, snap>>
      BY Zenon, <1>2 DEF Pick
    <2>2. /\ pc[c] = "next" /\ UNCHANGED <<index, task, complete, acked, strat>>
          /\ strat[c] # "Graceful"
      BY Zenon, <1>1, <1>2 DEF Pick
    <2>3. CallerInv(c)'
      BY <1>1, <2>1, <2>2 DEF TypeOK, Goto
    <2>4. AckInv(c)'
      BY Zenon, <1>1, <2>1, <2>2 DEF TypeOK, Goto
    <2>5. CleanupInv(c)'
      BY Zenon, <1>1, <2>1, <2>2 DEF TypeOK, Goto
    <2> QED  BY Zenon, <2>3, <2>4, <2>5
  <1>3. CASE SendAck(c)
    <2>1. pc[c] = "ack" /\ UNCHANGED <<index, complete, strat, todo, cur, snap>>
      BY Zenon, <1>3 DEF SendAck
    <2>2. /\ acked \subseteq acked'
          /\ \/ pc'[c] = "failed"
             \/ /\ pc'[c] = "write" /\ UNCHANGED task
                /\ Fatal(c) => cur[c] \in acked'
      BY Zenon, <1>1, <1>3 DEF TypeOK, SendAck, Return, Goto
    <2>3. CallerInv(c)'
      BY Zenon, <1>1, <2>1, <2>2
    <2>4. AckInv(c)'
      BY Zenon, <1>1, <2>1, <2>2
    <2>5. CleanupInv(c)'
      BY Zenon, <1>1, <2>1, <2>2
    <2> QED  BY Zenon, <2>3, <2>4, <2>5
  <1>4. CASE DelWorker(c)
    <2>1. /\ pc[c] = "write" /\ UNCHANGED <<strat, cur, snap, complete, acked>>
          /\ index' = index \ {cur[c]} /\ todo'[c] = todo[c] \ {cur[c]}
      BY Zenon, <1>1, <1>4 DEF TypeOK, DelWorker, Deletable
    <2>2. \/ strat[c] = "Graceful" /\ pc'[c] \in {"done", "failed"}
          \/ strat[c] # "Graceful" /\ pc'[c] = "next" /\ UNCHANGED task
      BY Zenon, <1>1, <1>4 DEF TypeOK, DelWorker, Return, Goto
    <2>3. CallerInv(c)'
      BY Zenon, <1>1, <2>1, <2>2
    <2>4. AckInv(c)'
      BY Zenon, <1>1, <2>1, <2>2
    <2>5. CleanupInv(c)'
      BY Zenon, <1>1, <2>1, <2>2
    <2> QED  BY Zenon, <2>3, <2>4, <2>5
  <1>5. CASE Finished(c)
    BY Zenon, <1>1, <1>5 DEF TypeOK, Finished, Return, Goto
  <1> QED  BY Zenon, <1>2, <1>3, <1>4, <1>5

\* A worker that completed its shutdown stays done, and the first stage of
\* TwoStage aborts no other.
LEMMA WorkersKept ==
    ASSUME SafeInv, Next, NEW w \in Worker
    PROVE  WorkerInv(w)'
  <1>1. TypeOK /\ WorkerInv(w)
    BY Zenon DEF SafeInv
  <1>2. CASE RecvStarts
    BY Zenon, <1>1, <1>2 DEF RecvStarts, workerVars, WorkerInv
  <1>3. ASSUME NEW v \in Worker, Take(v) \/ Finish(v) \/ Stop(v) \/ Cancel(v)
        PROVE  WorkerInv(w)'
    <2>1. CASE Take(v) \/ Finish(v)
      BY ZenonT(60), <1>1, <2>1 DEF Take, Finish, Become, WorkerInv, TypeOK
    <2>2. CASE Stop(v)
      BY Zenon, <1>1, <2>2 DEF Stop, WorkerInv, TypeOK
    <2>3. CASE Cancel(v)
      BY Zenon, <1>1, <2>3 DEF Cancel, WorkerInv, TypeOK
    <2> QED  BY Zenon, <1>3, <2>1, <2>2, <2>3
  <1>4. ASSUME NEW c \in Caller, Command(c) \/ CallerStep(c)
        PROVE  WorkerInv(w)'
    <2>1. CInv(c)
      BY Zenon DEF SafeInv, CInv
    <2>2. UNCHANGED complete
      BY Zenon, <1>4 DEF CallerStep, Command, Sleep, Snapshot, Poll,
         ForceTimeout, Lookup, Watch, Pick, SendAck, DelWorker, Finished,
         workerVars
    <2>3. task[w] = "done" => task'[w] = "done"
      <3>1. c \in Worker /\ AtWork(c) => task[c] = "busy"
        BY Zenon, <2>1 DEF CInv, CallerInv
      <3>2. c \in Worker => AtWork(c) \/ task[c] = "idle" \/ UNCHANGED task
        BY Zenon, <1>4 DEF AtWork, CallerStep, Command, Sleep, Snapshot, Poll,
           ForceTimeout, Lookup, Watch, Pick, SendAck, DelWorker, Finished
      <3>3. \/ UNCHANGED task
            \/ c \in Worker /\ \E t \in {"idle", "busy", "dead"} :
                                task' = [task EXCEPT ![c] = t]
        BY Zenon, <1>4 DEF CallerStep, Command, Sleep, Snapshot, Poll,
           ForceTimeout, Lookup, Watch, Pick, SendAck, DelWorker, Finished,
           Return, Become, workerVars
      <3> QED  BY Zenon, <1>1, <3>1, <3>2, <3>3 DEF TypeOK
    <2>4. killer'[w] = "Cleanup" => w \in complete
      <3>1. CASE DelWorker(c)
        BY Zenon, <1>1, <2>1, <3>1 DEF DelWorker, TypeOK, CInv, CleanupInv,
           WorkerInv
      <3>2. CASE ~ DelWorker(c)
        BY Zenon, <1>1, <1>4, <3>2 DEF CallerStep, Command, Sleep, Snapshot,
           Poll, ForceTimeout, Lookup, Watch, Pick, SendAck, Finished,
           WorkerInv
      <3> QED  BY Zenon, <3>1, <3>2
    <2> QED  BY Zenon, <1>1, <2>2, <2>3, <2>4 DEF WorkerInv
  <1> QED  BY Zenon, <1>2, <1>3, <1>4 DEF Next

\* SafeInv is inductive.
THEOREM SafeInvariant == Spec => []SafeInv
  <1>1. Init => SafeInv
    <2> SUFFICES ASSUME Init PROVE SafeInv
      OBVIOUS
    <2>1. \A c \in Caller : CallerInv(c) /\ AckInv(c) /\ CleanupInv(c)
      BY Zenon DEF Init, CallerInv, AckInv, CleanupInv, AtWork, Fatal
    <2>2. \A w \in Worker : WorkerInv(w)
      BY Zenon DEF Init, WorkerInv
    <2>3. TypeOK
      <3>1. recv \in BOOLEAN
        BY Zenon DEF Init
      <3> QED  BY Zenon, <3>1 DEF Init, TypeOK
    <2> QED  BY Zenon, <2>1, <2>2, <2>3 DEF SafeInv
  <1>2. SafeInv /\ TypeOK' /\ [Next]_vars => SafeInv'
    <2> SUFFICES ASSUME SafeInv, TypeOK', [Next]_vars PROVE SafeInv'
      OBVIOUS
    <2>1. CASE UNCHANGED vars
      BY ZenonT(60), <2>1 DEF SafeInv, CallerInv, AckInv, CleanupInv, WorkerInv,
         AtWork, Fatal, vars, workerVars, callVars
    <2>2. CASE Next
      <3>1. ASSUME NEW c \in Caller PROVE CInv(c)'
        <4>1. CASE RecvStarts
          <5>1. CInv(c)
            BY Zenon DEF SafeInv, CInv
          <5> QED  BY Zenon, <4>1, <5>1, Untouched DEF RecvStarts, workerVars,
                      callVars
        <4>2. CASE \E w \in Worker :
                     Take(w) \/ Finish(w) \/ Stop(w) \/ Cancel(w)
          BY Zenon, <4>2, WorkerStep
        <4>3. CASE Command(c) \/ CallerStep(c)
          BY Zenon, <4>3, OwnBegin, OwnLoop DEF CallerStep
        <4>4. CASE \E d \in Caller \ {c} : Command(d) \/ CallerStep(d)
          BY Zenon, <4>4, OtherCaller
        <4> QED  BY Zenon, <2>2, <4>1, <4>2, <4>3, <4>4 DEF Next
      <3>2. \A w \in Worker : WorkerInv(w)'
        BY Zenon, <2>2, WorkersKept
      <3> QED  BY Zenon, <3>1, <3>2 DEF SafeInv, CInv
    <2> QED  BY Zenon, <2>1, <2>2
  <1> QED  BY <1>1, <1>2, TypeCorrect, PTL DEF Spec

\* A strategy that returned normally has removed every worker it set out to
\* remove (del_worker at the end of every loop body of methods.rs).
THEOREM StrategiesFinishClean == Spec => []FinishedClean
  <1>1. SafeInv => FinishedClean
    BY Zenon DEF SafeInv, CallerInv, FinishedClean
  <1> QED  BY <1>1, SafeInvariant, PTL

\* TwoStage and Graceful report success only when every worker they removed was
\* acknowledged to the Host (the `?` after Worker::shutdown).
THEOREM AcknowledgedBeforeSuccess == Spec => []AckedBeforeGone
  <1>1. SafeInv => AckedBeforeGone
    BY Zenon DEF SafeInv, AckInv, Fatal, AckedBeforeGone
  <1> QED  BY <1>1, SafeInvariant, PTL

\* The workers TwoStage's first stage aborts had all left their loop
\* (shutdown_complete), so it cuts no message off.
THEOREM CleanupIsHarmless == Spec => []CleanupKillsNothing
  <1>1. SafeInv => CleanupKillsNothing
    BY Zenon DEF SafeInv, WorkerInv, CleanupKillsNothing
  <1> QED  BY <1>1, SafeInvariant, PTL
=============================================================================
