--------------------------- MODULE CheckpointWorker ---------------------------
(***************************************************************************)
(* The Store's background WAL maintenance (mewu-core checkpoint_worker.rs  *)
(* and the part of store.rs that starts, notifies and drains it).          *)
(*                                                                         *)
(* While a maintenance thread serves the Store, the writer's own           *)
(* checkpointing is relaxed: the thread copies the log back instead.  The  *)
(* Store wakes it after each commit through a channel of one message and   *)
(* never waits for it.  When the thread has died, the next commit restores *)
(* the writer's default policy.  Pausing hands the thread to a drain that  *)
(* waits for it elsewhere, while the Store may already start another one.  *)
(***************************************************************************)
EXTENDS Naturals

CONSTANTS
  MaxWorkers,   \* bound of the model: maintenance threads started, one after another
  MaxCommits    \* bound of the model: commits observed

ASSUME CheckpointAssumption == MaxWorkers \in Nat /\ MaxCommits \in Nat

Workers == 1..MaxWorkers
NoWorker == 0

VARIABLES
  logged,    \* commits appended to the log
  behind,    \* some of them are not copied back to the database file yet
  policy,    \* the writer's wal_autocheckpoint: "default" (1000), "relaxed" (8192)
  slot,      \* Store.checkpoint_maintenance
  step,      \* where the committing thread is: "idle", "check", "send"
  orphaned,  \* the last commit was made when the slot's thread was already gone
  worker     \* per worker: its thread, its channel, and its flags

storeVars == <<policy, slot, step, orphaned>>
vars == <<logged, behind, storeVars, worker>>

Threads == {"none", "waiting", "observing", "copying", "closing", "closed", "joined"}

Worker == [thread: Threads, queued: 0..1, connected: BOOLEAN, stopping: BOOLEAN,
           healthy: BOOLEAN, deferred: BOOLEAN, force: BOOLEAN,
           last: BOOLEAN, failed: BOOLEAN, saw: Nat, pausedAt: Nat]

Unborn == [thread |-> "none", queued |-> 0, connected |-> FALSE, stopping |-> FALSE,
           healthy |-> FALSE, deferred |-> FALSE, force |-> FALSE,
           last |-> FALSE, failed |-> FALSE, saw |-> 0, pausedAt |-> 0]

Gone(w) == worker[w].thread \in {"closing", "closed", "joined"}
Healthy(w) == worker[w].healthy /\ ~worker[w].stopping

-----------------------------------------------------------------------------
(* The Store.                                                              *)

\* A durable COMMIT; the writer may then checkpoint by its own policy.
Commit ==
  /\ step = "idle" /\ logged < MaxCommits
  /\ logged' = logged + 1
  /\ behind' \in BOOLEAN
  /\ orphaned' = (slot # NoWorker /\ Gone(slot))
  /\ step' = IF slot = NoWorker THEN "idle" ELSE "check"
  /\ UNCHANGED <<policy, slot, worker>>

\* notify(), first half: is_healthy() is read ...
CheckHealth ==
  /\ step = "check"
  /\ IF Healthy(slot)
     THEN step' = "send" /\ policy' = policy
     ELSE step' = "idle" /\ policy' = "default"
  /\ UNCHANGED <<logged, behind, slot, orphaned, worker>>

\* A queued message is not queued twice; one to a closed channel is not sent.
TrySend(chan) == 1

\* ... and second half: the thread may have died since.
Send ==
  /\ step = "send"
  /\ step' = "idle"
  /\ IF worker[slot].thread = "closed"
     THEN /\ policy' = "default"
          /\ worker' = [worker EXCEPT ![slot].healthy = FALSE]
     ELSE /\ policy' = policy
          /\ worker' = [worker EXCEPT ![slot].queued = TrySend(@)]
  /\ UNCHANGED <<logged, behind, slot, orphaned>>

\* pause_checkpoint_maintenance: the worker leaves the Store, asked to stop; the
\* drain it is handed to may wait for it while the Store goes on.
Pause ==
  /\ step = "idle" /\ slot # NoWorker
  /\ policy' = "default" /\ slot' = NoWorker /\ orphaned' = FALSE
  /\ worker' = [worker EXCEPT ![slot].stopping = TRUE, ![slot].pausedAt = logged]
  /\ UNCHANGED <<logged, behind, step>>

\* resume_checkpoint_maintenance; a start that fails changes nothing.
Resume(w) ==
  /\ step = "idle" /\ slot = NoWorker
  /\ worker[w].thread = "none" /\ \A v \in 1..(w - 1) : worker[v].thread # "none"
  /\ policy' = "relaxed" /\ slot' = w
  /\ worker' = [worker EXCEPT ![w] =
       [Unborn EXCEPT !.thread = "waiting", !.connected = TRUE, !.healthy = TRUE,
                      !.queued = 1]]
  /\ UNCHANGED <<logged, behind, step, orphaned>>

\* shutdown() of a paused worker, first half: the only sender is dropped ...
MayDisconnect_AfterJoin(w) == worker[w].thread = "joined"
MayDisconnect(w) == worker[w].connected

Disconnect(w) ==
  /\ worker[w].stopping
  /\ MayDisconnect(w)
  /\ worker' = [worker EXCEPT ![w].connected = FALSE]
  /\ UNCHANGED <<logged, behind, storeVars>>

\* ... and second half: join returns when the thread is over.
Join(w) ==
  /\ worker[w].thread = "closed" /\ worker[w].stopping
  /\ worker' = [worker EXCEPT ![w].thread = "joined"]
  /\ UNCHANGED <<logged, behind, storeVars>>

-----------------------------------------------------------------------------
(* The maintenance thread.                                                 *)

ThreadStep(w, next) ==
  /\ worker' = [worker EXCEPT ![w] = next]
  /\ UNCHANGED <<logged, storeVars>>

\* The thread's return: MarkClosed tells the Store before the channel closes.
Returning_Silently(me) == [me EXCEPT !.thread = "closing"]
Returning(me) == [me EXCEPT !.thread = "closing", !.healthy = FALSE]

\* The loop is left for one last attempt, whatever is still queued.
Leaving_AtOnce(me) == Returning(me)
Leaving(me) == [me EXCEPT !.thread = "observing", !.force = TRUE, !.last = TRUE]

\* An attempt is over: the thread waits again, or returns after its last one.
Rest_ClearingQueue(me, deferred) ==
  IF me.last THEN Returning(me)
  ELSE [me EXCEPT !.thread = "waiting", !.deferred = deferred, !.force = FALSE,
                !.queued = 0]
Rest(me, deferred) ==
  IF me.last THEN Returning(me)
  ELSE [me EXCEPT !.thread = "waiting", !.deferred = deferred, !.force = FALSE]

Receive(w) ==
  LET me == [worker[w] EXCEPT !.queued = 0] IN
  /\ me.thread = "waiting" /\ worker[w].queued = 1
  /\ ThreadStep(w, IF me.stopping THEN Leaving(me)
                   ELSE [me EXCEPT !.thread = "observing", !.force = FALSE])
  /\ UNCHANGED behind

\* recv_timeout: only a deferred backlog has a timer.
Timeout(w) ==
  LET me == worker[w] IN
  /\ me.thread = "waiting" /\ me.deferred
  /\ me.queued = 0 /\ me.connected
  /\ ThreadStep(w, [me EXCEPT !.thread = "observing", !.force = TRUE])
  /\ UNCHANGED behind

Disconnected(w) ==
  LET me == worker[w] IN
  /\ me.thread = "waiting" /\ me.queued = 0 /\ ~me.connected
  /\ ThreadStep(w, Leaving(me))
  /\ UNCHANGED behind

\* scheduled(), up to the decision: a NOOP checkpoint reads the backlog.  Less than
\* 512 frames and fewer than 16 notifications may wait for the timer, so unless
\* the attempt is forced both outcomes are possible.
Observe(w) ==
  LET me == [worker[w] EXCEPT !.saw = logged] IN
  /\ me.thread = "observing"
  /\ \/ ~behind /\ ThreadStep(w, Rest(me, FALSE))
     \/ behind /\ ~me.force /\ ThreadStep(w, Rest(me, TRUE))
     \/ behind /\ ThreadStep(w, [me EXCEPT !.thread = "copying"])
  /\ UNCHANGED behind

\* passive(): copies back as far as the snapshots still being read allow.
Copy(w) ==
  LET me == worker[w] IN
  /\ me.thread = "copying"
  /\ ThreadStep(w, Rest(me, FALSE))
  /\ behind' \in BOOLEAN

\* SQLITE_BUSY or SQLITE_LOCKED: no copy now, and no timer either.
Busy(w) ==
  LET me == worker[w] IN
  /\ me.thread \in {"observing", "copying"}
  /\ ThreadStep(w, Rest([me EXCEPT !.saw = logged], FALSE))
  /\ UNCHANGED behind

\* Any other error, or a panic, ends the thread.
Fail(w) ==
  LET me == worker[w] IN
  /\ me.thread \in {"observing", "copying"}
  /\ ThreadStep(w, Returning([me EXCEPT !.failed = TRUE]))
  /\ UNCHANGED behind

\* The receiver, and with it whatever was still queued, and the thread's own
\* variables are gone.
Close(w) ==
  /\ worker[w].thread = "closing"
  /\ ThreadStep(w, [worker[w] EXCEPT !.thread = "closed", !.queued = 0,
                                     !.deferred = FALSE, !.force = FALSE,
                                     !.last = FALSE])
  /\ UNCHANGED behind

-----------------------------------------------------------------------------
(* The specification.                                                      *)

Init ==
  /\ logged = 0 /\ behind = FALSE
  /\ policy = "default" /\ slot = NoWorker /\ step = "idle" /\ orphaned = FALSE
  /\ worker = [w \in Workers |-> Unborn]

Run(w) ==
  \/ Receive(w) \/ Timeout(w) \/ Disconnected(w)
  \/ Observe(w) \/ Copy(w) \/ Busy(w) \/ Fail(w) \/ Close(w)

Notify == CheckHealth \/ Send

Next ==
  \/ Commit \/ Notify \/ Pause
  \/ \E w \in Workers : Resume(w) \/ Disconnect(w) \/ Join(w) \/ Run(w)

\* A thread that can run does; a commit finishes; a drain, once handed out, is
\* waited for (CheckpointDrain and Store drop the sender before they join).
Fairness ==
  /\ WF_vars(Notify)
  /\ \A w \in Workers : WF_vars(Run(w)) /\ WF_vars(Disconnect(w)) /\ WF_vars(Join(w))

Spec == Init /\ [][Next]_vars /\ Fairness

-----------------------------------------------------------------------------
(* Properties.                                                             *)

TypeOK ==
  /\ logged \in 0..MaxCommits /\ behind \in BOOLEAN
  /\ policy \in {"default", "relaxed"} /\ slot \in Workers \cup {NoWorker}
  /\ step \in {"idle", "check", "send"} /\ orphaned \in BOOLEAN
  /\ worker \in [Workers -> Worker]

\* The writer's checkpointing is relaxed only while a thread stands in for it:
\* a commit made after the thread's death never returns with the relaxed policy,
\* however the thread's end and the notification interleaved.
RelaxedOnlyWhenMaintained ==
  step = "idle" /\ policy = "relaxed" => slot # NoWorker /\ ~orphaned

\* When a drain returns and no attempt failed, the thread has looked at every
\* commit made before the pause, also those whose wakeups were still queued.
DrainCovers ==
  \A w \in Workers :
    worker[w].thread = "joined" /\ ~worker[w].failed => worker[w].saw >= worker[w].pausedAt

\* No wakeup is lost: after every commit the thread looks at the log again, or
\* the writer's own policy is in force, or the thread has died.
Attended ==
  \A n \in 1..MaxCommits :
    logged >= n ~> \/ policy = "default"
                   \/ \E w \in Workers : worker[w].saw >= n \/ worker[w].failed

\* Waiting for a paused worker always ends.
DrainReturns ==
  \A w \in Workers : worker[w].stopping ~> worker[w].thread = "joined"

=============================================================================
