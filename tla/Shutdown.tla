------------------------------ MODULE Shutdown ------------------------------
(***************************************************************************)
(* Stopping the workers of one node: the strategies of                     *)
(* shutdown/methods.rs, the ShutdownHandler that runs them, Worker::start  *)
(* and Worker::shutdown, ConsumerRouter::del_worker, and the router's      *)
(* RwLock.                                                                 *)
(*                                                                         *)
(* A caller runs one strategy.  It is either a worker of _system.shutdown, *)
(* which is in the worker index like every other worker and may meet       *)
(* itself there, or a task of the application (Caller \ Worker).           *)
(*                                                                         *)
(* The lock is tokio's fair RwLock: a queued write() holds back every      *)
(* later read().  All guards are short except the one in which             *)
(* start_system runs recv(), which is never released (recv).               *)
(*                                                                         *)
(* Durations are abstracted: a sleep ends some time, the force timeout may *)
(* expire before any poll.  An abort takes effect when the task next       *)
(* yields, so an aborted task may still take some steps.                   *)
(***************************************************************************)
EXTENDS FiniteSets

CONSTANTS
    Worker,      \* the workers registered at start-up, system workers included
    Caller,      \* the tasks that run a strategy
    Commands,    \* the strategies that may be asked for
    NoWorker

Strategy == {"TwoStage", "Graceful", "Force", "Timeout", "StateBasedIdle",
             "Batched", "BatchedZero"}

ASSUME ShutdownAssumption ==
    /\ Commands \subseteq Strategy
    /\ NoWorker \notin Worker

VARIABLES
    index,       \* worker_index
    task,        \* task[w]: where w's start() loop is
    status,      \* status[w]: what get_status returns
    permit,      \* workers whose Notify holds a permit
    complete,    \* workers with shutdown_complete set
    killer,      \* killer[w]: the stage that aborted w's task, "none" before
    acked,       \* workers a ShutdownAck was published for
    recv,        \* TRUE once the recv task holds its read guard
    pc,          \* pc[c]: where caller c is
    strat,       \* strat[c]: its strategy; "Cleanup" in TwoStage's first stage
    todo,        \* todo[c]: workers of its snapshot still to be handled
    cur,         \* cur[c]: the worker it handles
    snap         \* history: the workers c set out to remove

workerVars == <<task, status, permit, complete>>
callVars   == <<pc, strat, todo, cur, snap>>
vars == <<index, workerVars, killer, acked, recv, callVars>>

Ended == {"done", "failed", "dead"}
PC == {"rest", "sleep", "poll", "snap", "lookup", "watch", "next", "ack",
       "write"} \cup Ended

TypeOK ==
    /\ index \subseteq Worker /\ permit \subseteq Worker
    /\ complete \subseteq Worker /\ acked \subseteq Worker
    /\ task \in [Worker -> {"idle", "busy", "done", "dead"}]
    /\ status \in [Worker -> {"Idle", "Working"}]
    /\ killer \in [Worker -> Strategy \cup {"Cleanup", "none"}]
    /\ recv \in BOOLEAN
    /\ pc \in [Caller -> PC]
    /\ strat \in [Caller -> Strategy \cup {"Cleanup", "none"}]
    /\ todo \in [Caller -> SUBSET Worker]
    /\ cur \in [Caller -> Worker \cup {NoWorker}]
    /\ snap \in [Caller -> SUBSET Worker]
    /\ \A w \in Worker : (task[w] = "busy") => (status[w] = "Working")
    /\ \A c \in Caller : pc[c] \in {"rest"} \cup Ended \/ cur[c] \in Worker

Init ==
    /\ index = Worker /\ permit = {} /\ complete = {} /\ acked = {}
    /\ task = [w \in Worker |-> "idle"]
    /\ status = [w \in Worker |-> "Idle"]
    /\ killer = [w \in Worker |-> "none"]
    /\ recv = FALSE
    /\ pc = [c \in Caller |-> "rest"]
    /\ strat = [c \in Caller |-> "none"]
    /\ todo = [c \in Caller |-> {}]
    /\ cur = [c \in Caller |-> NoWorker]
    /\ snap = [c \in Caller |-> {}]

-----------------------------------------------------------------------------
(* The router lock. *)

\* read() is granted unless a writer is queued; write() when no guard is held.
CanRead == \A c \in Caller : pc[c] # "write"
CanWrite == ~recv

\* The recv task gets its read guard and keeps it: recv() never returns.
RecvStarts ==
    /\ ~recv /\ CanRead
    /\ recv' = TRUE
    /\ UNCHANGED <<index, workerVars, killer, acked, callVars>>

-----------------------------------------------------------------------------
(* The workers. *)

Become(w, t, s) ==
    /\ task' = [task EXCEPT ![w] = t]
    /\ status' = [status EXCEPT ![w] = s]

\* Mutant: the status is not set before the message is processed.
Take_StillIdle(w) ==
    /\ w \notin Caller /\ task[w] = "idle"
    /\ Become(w, "busy", "Idle")
    /\ UNCHANGED <<index, permit, complete, killer, acked, recv, callVars>>

Take(w) ==
    /\ w \notin Caller /\ task[w] = "idle"
    /\ Become(w, "busy", "Working")
    /\ UNCHANGED <<index, permit, complete, killer, acked, recv, callVars>>

Finish(w) ==
    /\ w \notin Caller /\ task[w] = "busy"
    /\ Become(w, "idle", "Idle")
    /\ UNCHANGED <<index, permit, complete, killer, acked, recv, callVars>>

\* The select of start() takes the notification: it runs shutdown() itself,
\* which leaves a fresh permit behind, and ignores a failure to send the ack.
Stop(w) ==
    /\ task[w] = "idle" /\ w \in permit
    /\ acked' \in {acked, acked \cup {w}}
    /\ complete' = complete \cup {w}
    /\ task' = [task EXCEPT ![w] = "done"]
    /\ UNCHANGED <<index, status, permit, killer, recv, callVars>>

\* tokio cancels an aborted task where it yields; a strategy that runs in the
\* task ends there, and leaves the lock's queue if it was waiting.
Cancel(w) ==
    /\ killer[w] # "none" /\ task[w] \in {"idle", "busy"}
    /\ task' = [task EXCEPT ![w] = "dead"]
    /\ pc' = [c \in Caller |->
                IF c = w /\ task[w] = "busy" THEN "dead" ELSE pc[c]]
    /\ UNCHANGED <<index, status, permit, complete, killer, acked, recv, strat,
                   todo, cur, snap>>

-----------------------------------------------------------------------------
(* The strategies. *)

Goto(c, l) == pc' = [pc EXCEPT ![c] = l]

\* A handler's worker returns to its loop; Ack is returned in every case.
Return(c, how) ==
    /\ Goto(c, how)
    /\ IF c \in Worker THEN Become(c, "idle", "Idle")
                       ELSE UNCHANGED <<task, status>>

Command(c) == \E s \in Commands, w \in Worker :
    /\ pc[c] = "rest"
    /\ s # "Graceful" => w = CHOOSE v \in Worker : TRUE
    /\ IF c \in Worker
       THEN task[c] = "idle" /\ Become(c, "busy", "Working")
       ELSE UNCHANGED <<task, status>>
    /\ Goto(c, CASE s = "TwoStage" -> "poll"
                 [] s = "Graceful" -> "lookup"
                 [] s = "Timeout"  -> "sleep"
                 [] OTHER          -> "snap")
    /\ strat' = [strat EXCEPT ![c] = s]
    /\ cur' = [cur EXCEPT ![c] = w]
    /\ UNCHANGED <<index, permit, complete, killer, acked, recv, todo, snap>>

\* shutdown_timeout sleeps and then forces.
Sleep(c) ==
    /\ pc[c] = "sleep"
    /\ Goto(c, "snap")
    /\ UNCHANGED <<index, workerVars, killer, acked, recv, strat, todo, cur,
                   snap>>

SetOut(c, ws) ==
    /\ todo' = [todo EXCEPT ![c] = ws]
    /\ snap' = [snap EXCEPT ![c] = ws]

\* get_all_workers under a read guard, at the head of every strategy; a batch
\* size of zero panics in chunks() and takes the task with it.
Snapshot(c) ==
    /\ pc[c] = "snap" /\ CanRead
    /\ IF strat[c] = "BatchedZero"
       THEN /\ Goto(c, "dead")
            /\ IF c \in Worker THEN task' = [task EXCEPT ![c] = "dead"]
                               ELSE UNCHANGED task
            /\ UNCHANGED <<todo, snap>>
       ELSE Goto(c, "next") /\ SetOut(c, index) /\ UNCHANGED task
    /\ UNCHANGED <<index, status, permit, complete, killer, acked, recv, strat,
                   cur>>

\* Mutant: one finished worker is taken for all of them.
AllDone_Any(ws) == \E w \in ws : w \in complete

AllDone(ws) == \A w \in ws : w \in complete

\* One round of TwoStage's poll loop.  The signal it sends first reaches
\* nobody: no worker subscribes to the broadcast channel.
Poll(c) ==
    /\ pc[c] = "poll" /\ CanRead /\ AllDone(index)
    /\ \/ /\ index = {} /\ Return(c, "done")
          /\ UNCHANGED <<strat, todo, snap>>
       \/ /\ index # {} /\ Goto(c, "next") /\ SetOut(c, index)
          /\ strat' = [strat EXCEPT ![c] = "Cleanup"]
          /\ UNCHANGED <<task, status>>
    /\ UNCHANGED <<index, permit, complete, killer, acked, recv, cur>>

ForceTimeout(c) ==
    /\ pc[c] = "poll"
    /\ Goto(c, "snap")
    /\ UNCHANGED <<index, workerVars, killer, acked, recv, strat, todo, cur,
                   snap>>

\* graceful_shutdown looks the worker up once ...
Lookup(c) ==
    /\ pc[c] = "lookup" /\ CanRead
    /\ \/ /\ cur[c] \in index
          /\ Goto(c, "watch") /\ SetOut(c, {cur[c]})
          /\ UNCHANGED <<task, status>>
       \/ /\ cur[c] \notin index
          /\ Return(c, "failed") /\ UNCHANGED <<todo, snap>>
    /\ UNCHANGED <<index, permit, complete, killer, acked, recv, strat, cur>>

\* ... and then polls its status.
Watch(c) ==
    /\ pc[c] = "watch" /\ status[cur[c]] = "Idle"
    /\ Goto(c, "ack") /\ permit' = permit \cup {cur[c]}
    /\ UNCHANGED <<index, task, status, complete, killer, acked, recv, strat,
                   todo, cur, snap>>

\* The next worker of the snapshot (HashMap order); shutdown_idle_only passes
\* over one that works, TwoStage's first stage deletes without shutdown().
Pick(c) == \E w \in todo[c] :
    /\ pc[c] = "next"
    /\ cur' = [cur EXCEPT ![c] = w]
    /\ \/ /\ strat[c] = "StateBasedIdle" /\ status[w] = "Working"
          /\ todo' = [todo EXCEPT ![c] = @ \ {w}]
          /\ snap' = [snap EXCEPT ![c] = @ \ {w}]
          /\ UNCHANGED <<pc, permit>>
       \/ /\ strat[c] = "Cleanup"
          /\ Goto(c, "write") /\ UNCHANGED <<permit, todo, snap>>
       \/ /\ strat[c] # "Cleanup"
          /\ strat[c] = "StateBasedIdle" => status[w] = "Idle"
          /\ Goto(c, "ack") /\ permit' = permit \cup {w}
          /\ UNCHANGED <<todo, snap>>
    /\ UNCHANGED <<index, task, status, complete, killer, acked, recv, strat>>

\* Mutant: the timeout is not tested in the loop that waits for Idle.
WaitOver_NoTimeout(w, timeout) == status[w] = "Idle"

WaitOver(w, timeout) == status[w] = "Idle" \/ timeout

\* Mutant: TwoStage and Graceful ignore a failed shutdown() like the others.
Fatal_Never(c) == FALSE

\* shutdown(..)? ends TwoStage and Graceful; the others write let _ = ...
Fatal(c) == strat[c] \in {"TwoStage", "Graceful"}

\* The rest of Worker::shutdown: the wait (every strategy passes a timeout of
\* zero) and the ShutdownAck.
SendAck(c) ==
    /\ pc[c] = "ack" /\ WaitOver(cur[c], TRUE)
    /\ \/ /\ acked' = acked \cup {cur[c]}
          /\ Goto(c, "write") /\ UNCHANGED <<task, status>>
       \/ /\ Fatal(c) /\ Return(c, "failed") /\ UNCHANGED acked
       \/ /\ ~Fatal(c) /\ Goto(c, "write") /\ UNCHANGED <<acked, task, status>>
    /\ UNCHANGED <<index, permit, complete, killer, recv, strat, todo, cur,
                   snap>>

\* Mutant: a worker is deleted only if its ack was sent.
Deletable_IfAcked(c) == cur[c] \in index \cap acked

Deletable(c) == cur[c] \in index

\* del_worker under the write guard: WorkerNotFound ends Graceful only.
DelWorker(c) ==
    /\ pc[c] = "write" /\ CanWrite
    /\ IF Deletable(c)
       THEN /\ index' = index \ {cur[c]}
            /\ killer' = [killer EXCEPT ![cur[c]] = strat[c]]
       ELSE UNCHANGED <<index, killer>>
    /\ todo' = [todo EXCEPT ![c] = @ \ {cur[c]}]
    /\ \/ /\ strat[c] = "Graceful"
          /\ Return(c, IF Deletable(c) THEN "done" ELSE "failed")
       \/ /\ strat[c] # "Graceful"
          /\ Goto(c, "next") /\ UNCHANGED <<task, status>>
    /\ UNCHANGED <<permit, complete, acked, recv, strat, cur, snap>>

Finished(c) ==
    /\ pc[c] = "next" /\ todo[c] = {}
    /\ Return(c, "done")
    /\ UNCHANGED <<index, permit, complete, killer, acked, recv, strat, todo,
                   cur, snap>>

-----------------------------------------------------------------------------
CallerStep(c) ==
    \/ Sleep(c) \/ Snapshot(c) \/ Poll(c) \/ ForceTimeout(c) \/ Lookup(c)
    \/ Watch(c) \/ Pick(c) \/ SendAck(c) \/ DelWorker(c) \/ Finished(c)

Next ==
    \/ RecvStarts
    \/ \E w \in Worker : Take(w) \/ Finish(w) \/ Stop(w) \/ Cancel(w)
    \/ \E c \in Caller : Command(c) \/ CallerStep(c)

Spec == Init /\ [][Next]_vars

\* tokio polls every task that can go on; nothing forces messages, commands or
\* the end of a handler.
Fairness == \A c \in Caller : WF_vars(CallerStep(c))
FairSpec == Spec /\ Fairness

-----------------------------------------------------------------------------
(* Properties. *)

\* A strategy that returns normally has removed every worker it set out to
\* remove (methods.rs: each loop body ends in del_worker), also when acks fail
\* and another caller deletes the same workers meanwhile.
FinishedClean ==
    \A c \in Caller : pc[c] = "done" => snap[c] \cap index = {}

\* TwoStage and Graceful report success only if the Host was told of every
\* worker they shut down; the other strategies ignore a failed ShutdownAck.
AckedBeforeGone ==
    \A c \in Caller :
        pc[c] = "done" /\ strat[c] \in {"TwoStage", "Graceful"}
            => snap[c] \subseteq acked

\* TwoStage's first stage deletes workers without asking them, which is safe
\* because all of them had left their loop: it never kills a message.
CleanupKillsNothing ==
    \A w \in Worker :
        killer[w] = "Cleanup" => task[w] = "done"

\* As long as the recv task does not hold its guard, every strategy but
\* Graceful comes to an end whatever the workers do, although it may run in a
\* worker that it shuts down itself and handlers may never return.
StrategyEnds ==
    \A c \in Caller :
        (pc[c] \notin Ended \cup {"rest"} /\ strat[c] # "Graceful")
            ~> (recv \/ pc[c] \in Ended)

\* methods.rs: shutdown_force "Immediately and forcefully shuts down all
\* workers": once called it ends (or its own task is cancelled).
ForceStopsWorkers ==
    \A c \in Caller :
        (pc[c] = "snap" /\ strat[c] = "Force") ~> pc[c] \in Ended
=============================================================================
