----------------------------- MODULE AgentLoop -----------------------------
(***************************************************************************)
(* The life of an agent run in the host: the send that starts it, the task *)
(* that asks the model and executes its calls, the worker thread of a      *)
(* local file call, and those who may end the run meanwhile: the user,     *)
(* another change of its scene, a change of the Agent plugin, the          *)
(* revocation of an extension's lease.                                     *)
(*                                                                         *)
(* The Engine mutex serialises all of them: an action is what one holder   *)
(* does with it, or a step that needs no lock.  What a task learned under  *)
(* the lock is old as soon as it leaves it, and that is what this module   *)
(* is about.  The journal's receipts are those of RunJournal, reduced to   *)
(* the phase of each call.                                                 *)
(***************************************************************************)
EXTENDS Naturals, FiniteSets

CONSTANTS Runs,          \* runs, one for each send
          Scenes,
          MaxRounds,     \* model requests of a run (agent_loop.rs:15)
          MaxCalls,      \* calls of a run (agent_loop.rs:16)
          MaxTurn,       \* calls the model proposes in one turn
          MaxEditions,   \* changes of the Agent plugin
          MaxFailures,   \* writes of the Store that fail
          MaxForeign,    \* changes of the file by others
          Nobody

ASSUME AgentLoopAssumption ==
  /\ IsFiniteSet(Runs) /\ Nobody \notin Runs \cup Scenes
  /\ MaxRounds \in Nat \ {0} /\ MaxCalls \in Nat /\ MaxTurn \in Nat
  /\ MaxEditions \in Nat \ {0} /\ MaxFailures \in Nat /\ MaxForeign \in Nat

\* The plugin store, behind the plugins mutex
VARIABLES catalog,       \* the enabled Agent grant: its revision, or 0
          edition,       \* the last revision given out
          settling       \* a change is committed, its holder goes on to the Engine

\* The Engine, behind its mutex
VARIABLES optional,      \* engine.optional.agent, as catalog
          registered,    \* the keys of engine.runs
          granted,       \* the keys of engine.agent_runs
          status,        \* Store: the status of a run
          sceneOf,       \* Store: the scene of a run
          rev,           \* Store: how often a scene changed
          call,          \* Store: the phases of a run's calls
          failures

\* The tasks
VARIABLES pc, kind, held, seen,
          fired,         \* runs whose cancellation channel is ready
          result, round

\* The workers of local calls, and the file they edit
VARIABLES worker, job, stopped, base,
          mutex,         \* holder of MUTATIONS
          file,          \* version of the file
          foreign        \* changes made by others

\* The leases of extensions
VARIABLES canceled

\* History, read by no guard
VARIABLES lost,          \* runs that were ended or lost their grant
          changed,       \* calls that changed something outside
          agentFile      \* the last version a run wrote

pluginVars == <<catalog, edition, settling>>
storeVars  == <<status, sceneOf, rev, call, failures>>
taskVars   == <<pc, kind, held, seen, fired, result, round>>
workVars   == <<worker, job, stopped, base, mutex, file, foreign, agentFile>>
vars == <<pluginVars, optional, registered, granted, storeVars, taskVars, workVars,
          canceled, lost, changed>>

Editions == 0..MaxEditions
Slots == 1..(MaxCalls + MaxTurn)
Statuses == {"none", "running", "completed", "failed", "canceled"}
Phases == {"absent", "prepared", "dispatched", "committed", "refused", "replied",
           "notsent", "unknown"}

\* The loop, which RUN_TIMEOUT bounds; all the select! over the work covers; and
\* all states of a task that was spawned and has not returned.
InLoop  == {"top", "send", "answer", "turn", "calls", "mark", "local", "remote",
            "wire"}
InWork  == InLoop \cup {"attach", "context", "retain", "extension"}
InTask  == InWork \cup {"closing", "aborting"}
PCs     == InTask \cup {"idle", "preflight", "done"}

Working == {"started", "locked", "loaded", "staged", "checked", "compared"}
Stages  == Working \cup {"none", "saved", "refused"}
----------------------------------------------------------------------------
\* What the Engine knows

Running(r) == status[r] = "running"

IsCurrent(r) == IF kind[r] = "core" THEN optional = held[r] ELSE r \notin canceled

Authorized(r) == /\ r \in registered
                 /\ Running(r)
                 /\ r \in granted /\ IsCurrent(r)

\* journal.active(): the plugin store is asked first.
Active(r) == catalog # 0 /\ Authorized(r)

Unregister(R) == registered' = registered \ R /\ granted' = granted \ R

\* Removing an entry of engine.runs and sending on its channel
Signal(R) == Unregister(R) /\ fired' = fired \cup (R \cap registered)

----------------------------------------------------------------------------
\* What the Store commits

Used(r) == Cardinality({i \in Slots : call[r][i] # "absent"})
IsNext(r, i) == /\ call[r][i] = "prepared"
                /\ \A j \in 1..(i - 1) : call[r][j] # "prepared"

SettledCalls_AllNotSent(phases) ==
  [i \in Slots |-> IF phases[i] \in {"prepared", "dispatched"} THEN "notsent" ELSE phases[i]]
SettledCalls(phases) ==
  [i \in Slots |-> CASE phases[i] = "prepared" -> "notsent"
                     [] phases[i] = "dispatched" -> "unknown"
                     [] OTHER -> phases[i]]

\* Runs R leave "running", in the transaction that settles their receipts.
EndRuns(R, end) ==
  /\ status' = [r \in Runs |-> IF r \in R THEN end ELSE status[r]]
  /\ call' = [r \in Runs |-> IF r \in R THEN SettledCalls(call[r]) ELSE call[r]]
  /\ rev' = [s \in Scenes |-> IF \E r \in R : sceneOf[r] = s THEN rev[s] + 1 ELSE rev[s]]
  /\ lost' = lost \cup R
  /\ UNCHANGED <<sceneOf, failures>>

NoWrite == UNCHANGED <<status, sceneOf, rev, call, lost>>
WriteFails == /\ failures < MaxFailures
              /\ failures' = failures + 1
              /\ NoWrite

Free(s) == \A r \in Runs : sceneOf[r] = s => ~Running(r)
----------------------------------------------------------------------------
\* A send

\* preflight_run, or the selection of an extension and its lease; credentials and
\* attachments are then prepared without a lock.
Preflight(r, s, k) ==
  /\ pc[r] = "idle"
  /\ k = "core" => ~settling /\ catalog # 0 /\ optional # 0
  /\ kind' = [kind EXCEPT ![r] = k]
  /\ held' = [held EXCEPT ![r] = IF k = "core" THEN optional ELSE 0]
  /\ seen' = [seen EXCEPT ![r] = rev[s]]
  /\ sceneOf' = [sceneOf EXCEPT ![r] = s]
  /\ pc' = [pc EXCEPT ![r] = "preflight"]
  /\ UNCHANGED <<pluginVars, optional, registered, granted, status, rev, call, failures,
                 fired, result, round, workVars, canceled, lost, changed>>

\* Nothing the preparation relied on has changed.
Unchanged(r) ==
  /\ rev[sceneOf[r]] = seen[r] /\ Free(sceneOf[r])
  /\ kind[r] = "core" => ~settling
  /\ IsCurrent(r)

\* The run begins, is registered with its grant, and its task is spawned.
Start(r) ==
  /\ pc[r] = "preflight" /\ Unchanged(r)
  /\ status' = [status EXCEPT ![r] = "running"]
  /\ rev' = [rev EXCEPT ![sceneOf[r]] = @ + 1]
  /\ registered' = registered \cup {r} /\ granted' = granted \cup {r}
  /\ pc' = [pc EXCEPT ![r] = "attach"]
  /\ UNCHANGED <<pluginVars, optional, sceneOf, call, failures, kind, held, seen, fired,
                 result, round, workVars, canceled, lost, changed>>

\* The setup of a core run fails after begin_run: the run is failed in the same hold
\* of the lock, or stays behind if that cannot be saved.
SetupFails(r) ==
  /\ pc[r] = "preflight" /\ kind[r] = "core" /\ Unchanged(r)
  /\ pc' = [pc EXCEPT ![r] = "done"]
  /\ \/ /\ status' = [status EXCEPT ![r] = "failed"]
        /\ lost' = lost \cup {r}
        /\ UNCHANGED failures
     \/ /\ failures < MaxFailures
        /\ failures' = failures + 1
        /\ status' = [status EXCEPT ![r] = "running"]
        /\ UNCHANGED lost
  /\ rev' = [rev EXCEPT ![sceneOf[r]] = @ + 1]
  /\ UNCHANGED <<pluginVars, optional, registered, granted, sceneOf, call, kind, held, seen,
                 fired, result, round, workVars, canceled, changed>>

\* Something changed, or begin_run fails; nothing was begun.
Refuse(r) ==
  /\ pc[r] = "preflight"
  /\ kind[r] = "core" => ~settling
  /\ pc' = [pc EXCEPT ![r] = "done"]
  /\ UNCHANGED <<pluginVars, optional, registered, granted, storeVars, kind, held, seen,
                 fired, result, round, workVars, canceled, lost, changed>>

----------------------------------------------------------------------------
\* The task

\* What a step of a task leaves alone
NotMine == UNCHANGED <<pluginVars, optional, kind, held, seen, fired, canceled>>
Quiet   == UNCHANGED <<registered, granted>> /\ NotMine
NoWork  == UNCHANGED workVars

Goto(r, at) == pc' = [pc EXCEPT ![r] = at] /\ UNCHANGED <<result, round>>
Finish(r, with) == /\ pc' = [pc EXCEPT ![r] = "closing"]
                   /\ result' = [result EXCEPT ![r] = with]
                   /\ UNCHANGED round

\* A call is recorded in the receipts.
Receipt(r, i, phase) == /\ call' = [call EXCEPT ![r][i] = phase]
                        /\ UNCHANGED <<status, sceneOf, rev, failures, lost>>

\* Inputs are attached to the run, under a check of its authority.
Attach(r) ==
  /\ pc[r] = "attach"
  /\ IF Authorized(r)
       THEN Goto(r, IF kind[r] = "core" THEN "context" ELSE "extension") /\ NoWrite
       ELSE Finish(r, "error") /\ NoWrite
  /\ UNCHANGED <<failures, changed>> /\ NoWork /\ Quiet

\* The context is projected, recalled and summarised: an await that ends.
Prepare(r) ==
  /\ pc[r] = "context"
  /\ Goto(r, "top") \/ Finish(r, "error")
  /\ NoWrite /\ UNCHANGED <<failures, changed>> /\ NoWork /\ Quiet

\* The head of the loop: active() before the context of the turn is prepared.
Top(r) ==
  /\ pc[r] = "top" /\ ~settling
  /\ IF Active(r) /\ round[r] < MaxRounds THEN Goto(r, "send") ELSE Finish(r, "error")
  /\ NoWrite /\ UNCHANGED <<failures, changed>> /\ NoWork /\ Quiet

\* begin_model, just before the request leaves
MaySend_Active(r) == catalog # 0
MaySend(r) == Active(r)
Send(r) ==
  /\ pc[r] = "send" /\ ~settling
  /\ IF MaySend(r) THEN Goto(r, "answer") ELSE Finish(r, "error")
  /\ NoWrite /\ UNCHANGED <<failures, changed>> /\ NoWork /\ Quiet

\* The answer and the calls it proposes are committed, late or not: a run that has
\* ended keeps the evidence and sends nothing.
Answer(r, n) ==
  /\ pc[r] = "answer"
  /\ call' = [call EXCEPT ![r] = [i \in Slots |->
       IF i \in (Used(r) + 1)..(Used(r) + n)
         THEN IF Running(r) THEN "prepared" ELSE "notsent"
         ELSE @[i]]]
  /\ Goto(r, "turn")
  /\ UNCHANGED <<status, sceneOf, rev, failures, lost, changed>> /\ NoWork /\ Quiet

\* The request failed; that is recorded and the run fails.
AnswerFails(r) ==
  /\ pc[r] = "answer" /\ Finish(r, "error")
  /\ NoWrite /\ UNCHANGED <<failures, changed>> /\ NoWork /\ Quiet

\* Calls of this turn: those that are prepared.
Proposed(r) == {i \in Slots : call[r][i] = "prepared"}

WithinBudget(r) == Used(r) <= MaxCalls /\ round[r] + 1 < MaxRounds

\* active() again, then the turn as a whole: a repeated call id, too long an answer or an
\* exhausted budget refuses every call, no call at all is the final answer.
Admit(r) ==
  /\ pc[r] = "turn" /\ ~settling
  /\ \/ ~Active(r) /\ Finish(r, "error") /\ UNCHANGED call
     \/ /\ Active(r) /\ Finish(r, "error")
        /\ call' = [call EXCEPT ![r] = [i \in Slots |->
             IF i \in Proposed(r) THEN "notsent" ELSE @[i]]]
     \/ /\ Active(r) /\ Proposed(r) = {}
        /\ Goto(r, "retain") /\ UNCHANGED call
     \/ /\ Active(r) /\ Proposed(r) # {}
        /\ WithinBudget(r)
        /\ Goto(r, "calls") /\ UNCHANGED call
  /\ UNCHANGED <<status, sceneOf, rev, failures, lost, changed>> /\ NoWork /\ Quiet

\* The next call of the turn, behind active(): a name that was not advertised is
\* refused, a local call asks once more and a remote one prepares its session.
NextCall(r, i) ==
  /\ pc[r] = "calls" /\ ~settling /\ IsNext(r, i)
  /\ IF Active(r)
       THEN \/ Receipt(r, i, "notsent") /\ Goto(r, "calls")
            \/ NoWrite /\ UNCHANGED failures /\ Goto(r, "mark")
            \/ NoWrite /\ UNCHANGED failures /\ Goto(r, "remote")
       ELSE Finish(r, "error") /\ NoWrite /\ UNCHANGED failures
  /\ UNCHANGED changed /\ NoWork /\ Quiet

\* Every call of the turn has its result: the next round.
TurnEnds(r) ==
  /\ pc[r] = "calls" /\ Proposed(r) = {}
  /\ pc' = [pc EXCEPT ![r] = "top"]
  /\ round' = [round EXCEPT ![r] = @ + 1]
  /\ UNCHANGED <<result, failures, changed>> /\ NoWrite /\ NoWork /\ Quiet

\* The local call is marked as dispatched and its worker is spawned.
Mark(r, i) ==
  /\ pc[r] = "mark" /\ IsNext(r, i)
  /\ Receipt(r, i, "dispatched") /\ Goto(r, "local")
  /\ worker' = [worker EXCEPT ![r] = "started"]
  /\ job' = [job EXCEPT ![r] = i]
  /\ UNCHANGED <<stopped, base, mutex, file, foreign, agentFile, changed>> /\ Quiet

\* The run is no longer authorised, or ended after that was checked: the Store has no
\* call to mark any more.
MarkFails(r) ==
  /\ pc[r] = "mark" /\ (~Authorized(r) \/ Proposed(r) = {})
  /\ Finish(r, "error")
  /\ NoWrite /\ UNCHANGED <<failures, changed>> /\ NoWork /\ Quiet

\* Dropping the future of a local call tells its worker to stop.
Stop(r) == stopped' = stopped \cup {r}

\* The poll of a local call finds the run unauthorised.
Poll(r) ==
  /\ pc[r] = "local" /\ ~Authorized(r)
  /\ Finish(r, "error") /\ Stop(r)
  /\ NoWrite
  /\ UNCHANGED <<failures, worker, job, base, mutex, file, foreign, agentFile, changed>> /\ Quiet

\* The worker's result is recorded first, then the authority is asked.
LocalReply(r) == IF worker[r] = "saved" THEN "committed" ELSE "refused"
Collect(r) ==
  /\ pc[r] = "local" /\ worker[r] \in {"saved", "refused"}
  /\ Receipt(r, job[r], LocalReply(r))
  /\ worker' = [worker EXCEPT ![r] = "none"]
  /\ IF Authorized(r) THEN Goto(r, "calls") ELSE Finish(r, "error")
  /\ UNCHANGED <<job, stopped, base, mutex, file, foreign, agentFile, changed>> /\ Quiet

\* A remote call: the gate just before it is sent asks for the authority and marks it
\* in one hold of the lock.
Dispatch(r, i) ==
  /\ pc[r] = "remote" /\ IsNext(r, i) /\ Authorized(r)
  /\ Receipt(r, i, "dispatched") /\ Goto(r, "wire")
  /\ job' = [job EXCEPT ![r] = i]
  /\ changed' = changed \cup {<<r, i>>}
  /\ UNCHANGED <<worker, stopped, base, mutex, file, foreign, agentFile>> /\ Quiet

\* It was never sent: the session, its catalog or the authority failed before the gate.
\* The model is told, unless the authority is gone.
NotSent(r, i) ==
  /\ pc[r] = "remote" /\ IsNext(r, i)
  /\ Receipt(r, i, "notsent")
  /\ Finish(r, "error") \/ (Authorized(r) /\ Goto(r, "calls"))
  /\ UNCHANGED changed /\ NoWork /\ Quiet

\* It was answered, or its outcome is unknown; only an answer lets the run go on.
GoesOn_Always(r, phase) == Authorized(r)
GoesOn(r, phase) == Authorized(r) /\ phase = "replied"
Reply(r, phase) ==
  /\ pc[r] = "wire"
  /\ Receipt(r, job[r], phase)
  /\ IF GoesOn(r, phase) THEN Goto(r, "calls") ELSE Finish(r, "error")
  /\ UNCHANGED changed /\ NoWork /\ Quiet

\* The run ended before its call was sent.
RemoteEnds(r) ==
  /\ pc[r] = "remote" /\ Proposed(r) = {}
  /\ Finish(r, "error")
  /\ NoWrite /\ UNCHANGED <<failures, changed>> /\ NoWork /\ Quiet

\* The last await of the work: the answer is offered to a memory service.
Retain(r) ==
  /\ pc[r] = "retain" /\ Finish(r, "answer")
  /\ NoWrite /\ UNCHANGED <<failures, changed>> /\ NoWork /\ Quiet

\* The extension that serves the run returns.
ExtensionReturns(r, with) ==
  /\ pc[r] = "extension" /\ Finish(r, with)
  /\ NoWrite /\ UNCHANGED <<failures, changed>> /\ NoWork /\ Quiet

\* A step of the task that leaves its future behind.
Leave(r) == /\ IF pc[r] = "local" THEN Stop(r) ELSE UNCHANGED stopped
            /\ UNCHANGED <<worker, job, base, mutex, file, foreign, agentFile, changed>>

\* The time of the loop is over.
Timeout(r) ==
  /\ pc[r] \in InLoop /\ Finish(r, "error") /\ Leave(r)
  /\ NoWrite /\ UNCHANGED failures /\ Quiet

\* The Store cannot save what the loop records: the run fails.
JournalFails(r) ==
  /\ pc[r] \in {"attach", "send", "answer", "turn", "calls", "mark", "local", "remote", "wire"}
  /\ pc[r] = "local" => worker[r] \in {"saved", "refused"}
  /\ WriteFails /\ Finish(r, "error") /\ Leave(r) /\ Quiet

\* select!: the cancellation arrives before the work is done.
Interrupt(r) ==
  /\ pc[r] \in InWork /\ r \in fired
  /\ Goto(r, "aborting") /\ Leave(r)
  /\ NoWrite /\ UNCHANGED failures /\ Quiet

\* A run that was sent from a chat region watches its own authority.
Notice(r) ==
  /\ pc[r] \in InWork /\ r \notin fired /\ ~Authorized(r)
  /\ fired' = fired \cup {r}
  /\ UNCHANGED <<pluginVars, optional, registered, granted, storeVars, pc, kind, held, seen,
                 result, round, workVars, canceled, lost, changed>>

\* The interrupted task cancels its run if that still runs in its scene.
CancelsItsRun_Never(r) == FALSE
CancelsItsRun(r) == Running(r)
Abort(r) ==
  /\ pc[r] = "aborting"
  /\ Unregister({r}) /\ Goto(r, "done")
  /\ \/ CancelsItsRun(r) /\ EndRuns({r}, "canceled")
     \/ CancelsItsRun(r) /\ WriteFails
     \/ ~CancelsItsRun(r) /\ NoWrite /\ UNCHANGED failures
  /\ UNCHANGED changed /\ NoWork /\ NotMine

\* The task has a result: it finishes or fails a run that is still authorised.  If it is
\* not, the task of a core run returns, the task of an extension's run cancels it.
MaySettle(r) == Authorized(r)
CancelsUnauthorized_Never(r) == FALSE
CancelsUnauthorized(r) == kind[r] = "external" /\ Running(r)
Settle(r) ==
  /\ pc[r] = "closing"
  /\ Unregister({r}) /\ Goto(r, "done")
  /\ \/ /\ MaySettle(r)
        /\ \/ result[r] = "answer" /\ EndRuns({r}, "completed")
           \/ EndRuns({r}, "failed")
           \/ WriteFails
     \/ /\ ~MaySettle(r) /\ CancelsUnauthorized(r)
        /\ EndRuns({r}, "canceled") \/ WriteFails
     \/ ~MaySettle(r) /\ ~CancelsUnauthorized(r) /\ NoWrite /\ UNCHANGED failures
  /\ UNCHANGED changed /\ NoWork /\ NotMine
----------------------------------------------------------------------------
\* The worker of a local edit

\* Between its steps the worker asks whether to go on.
Check(r) == r \notin stopped /\ Authorized(r)

WorkOnly == UNCHANGED <<pluginVars, optional, registered, granted, storeVars, taskVars,
                        job, stopped, foreign, canceled, lost>>
At(r, from, to) == worker[r] = from /\ worker' = [worker EXCEPT ![r] = to]
NothingSaved == UNCHANGED <<file, agentFile, changed>>

\* The queue of mutations, polled with try_lock
QueueFree_Always == TRUE
QueueFree == mutex = Nobody
TakeQueue(r) ==
  /\ At(r, "started", "locked") /\ Check(r) /\ QueueFree
  /\ mutex' = r
  /\ UNCHANGED base /\ NothingSaved /\ WorkOnly

Load(r) ==
  /\ At(r, "locked", "loaded")
  /\ base' = [base EXCEPT ![r] = file]
  /\ UNCHANGED mutex /\ NothingSaved /\ WorkOnly

\* The new contents go to a temporary file beside it.
Stage(r) ==
  /\ At(r, "loaded", "staged") /\ Check(r)
  /\ UNCHANGED <<base, mutex>> /\ NothingSaved /\ WorkOnly

CheckAgain(r) ==
  /\ At(r, "staged", "checked") /\ Check(r)
  /\ UNCHANGED <<base, mutex>> /\ NothingSaved /\ WorkOnly

Compare(r) ==
  /\ At(r, "checked", "compared") /\ file = base[r]
  /\ UNCHANGED <<base, mutex>> /\ NothingSaved /\ WorkOnly

Persist(r) ==
  /\ At(r, "compared", "saved")
  /\ file' = file + 1 /\ agentFile' = file + 1
  /\ changed' = changed \cup {<<r, job[r]>>}
  /\ mutex' = Nobody
  /\ UNCHANGED base /\ WorkOnly

\* A check fails, the file is not what was read, or the file system refuses.
GiveUp(r) ==
  /\ \E from \in Working : At(r, from, "refused")
  /\ mutex' = IF mutex = r THEN Nobody ELSE mutex
  /\ UNCHANGED base /\ NothingSaved /\ WorkOnly
----------------------------------------------------------------------------
\* The others

\* The user cancels the run it names, or another command ends it; a cancellation that
\* cannot be saved changes nothing.
Cancel(r) ==
  /\ Running(r)
  /\ EndRuns({r}, "canceled") /\ Signal({r})
  /\ UNCHANGED <<pluginVars, optional, pc, kind, held, seen, result, round, canceled, changed>>
  /\ NoWork

\* The Agent plugin is enabled anew or disabled: committed behind the plugins mutex,
\* which is kept until the Engine has settled.
ChangePlugins(enable) ==
  /\ ~settling /\ edition < MaxEditions
  /\ edition' = edition + 1 /\ settling' = TRUE
  /\ catalog' = IF enable THEN edition + 1 ELSE 0
  /\ UNCHANGED <<optional, registered, granted, storeVars, taskVars, workVars, canceled,
                 lost, changed>>

\* settle_engine: the new grants are taken over, and every run without a current one is
\* unregistered, told, and canceled in the Store, which may fail for runs F.  A catalog
\* that cannot be read settles as an empty one.
Outdated(now) == {r \in granted : IF kind[r] = "core" THEN now # held[r] ELSE r \in canceled}
SettlePlugins(now, F) ==
  /\ settling /\ now \in {catalog, 0}
  /\ settling' = FALSE /\ optional' = now
  /\ Signal(Outdated(now))
  /\ LET ended == {r \in Outdated(now) : Running(r)} IN
       /\ F \subseteq ended /\ failures + Cardinality(F) <= MaxFailures
       /\ failures' = failures + Cardinality(F)
       /\ status' = [r \in Runs |-> IF r \in ended \ F THEN "canceled" ELSE status[r]]
       /\ call' = [r \in Runs |-> IF r \in ended \ F THEN SettledCalls(call[r]) ELSE call[r]]
       /\ rev' = [s \in Scenes |->
                   IF \E r \in ended \ F : sceneOf[r] = s THEN rev[s] + 1 ELSE rev[s]]
       /\ lost' = lost \cup ended
  /\ UNCHANGED <<catalog, edition, sceneOf, pc, kind, held, seen, result, round, canceled, changed>>
  /\ NoWork

\* The extension of a run is disabled, or its agent bound to another one: the lease is
\* revoked without the Engine's mutex.
RevokeLease(r) ==
  /\ kind[r] = "external" /\ r \notin canceled /\ pc[r] \notin {"idle", "done"}
  /\ canceled' = canceled \cup {r}
  /\ lost' = IF Running(r) THEN lost \cup {r} ELSE lost
  /\ UNCHANGED <<pluginVars, optional, registered, granted, storeVars, taskVars, workVars, changed>>

\* Another program changes the file.
Foreign ==
  /\ foreign < MaxForeign
  /\ foreign' = foreign + 1 /\ file' = file + 1
  /\ UNCHANGED <<pluginVars, optional, registered, granted, storeVars, taskVars, worker, job,
                 stopped, base, mutex, agentFile, canceled, lost, changed>>
----------------------------------------------------------------------------
Init ==
  /\ catalog \in {0, 1} /\ edition = 1 /\ settling = FALSE
  /\ optional = catalog
  /\ registered = {} /\ granted = {}
  /\ status = [r \in Runs |-> "none"]
  /\ sceneOf = [r \in Runs |-> Nobody]
  /\ rev = [s \in Scenes |-> 0]
  /\ call = [r \in Runs |-> [i \in Slots |-> "absent"]]
  /\ failures = 0
  /\ pc = [r \in Runs |-> "idle"]
  /\ kind = [r \in Runs |-> "core"]
  /\ held = [r \in Runs |-> 0] /\ seen = [r \in Runs |-> 0]
  /\ fired = {}
  /\ result = [r \in Runs |-> "none"]
  /\ round = [r \in Runs |-> 0]
  /\ worker = [r \in Runs |-> "none"] /\ job = [r \in Runs |-> 0]
  /\ stopped = {} /\ base = [r \in Runs |-> 0]
  /\ mutex = Nobody /\ file = 0 /\ foreign = 0
  /\ canceled = {}
  /\ lost = {} /\ changed = {} /\ agentFile = 0

Call(r) == \E i \in Slots : NextCall(r, i) \/ Mark(r, i) \/ Dispatch(r, i) \/ NotSent(r, i)

\* What a task that is not interrupted does
Step(r) ==
  \/ Attach(r) \/ Prepare(r) \/ Top(r) \/ Send(r)
  \/ \E n \in 0..MaxTurn : Answer(r, n)
  \/ AnswerFails(r) \/ Admit(r) \/ Call(r) \/ TurnEnds(r) \/ MarkFails(r)
  \/ Poll(r) \/ Collect(r) \/ RemoteEnds(r)
  \/ \E phase \in {"replied", "unknown"} : Reply(r, phase)
  \/ Retain(r) \/ \E with \in {"answer", "error"} : ExtensionReturns(r, with)
  \/ Abort(r) \/ Settle(r)

Work(r) == \/ TakeQueue(r) \/ Load(r) \/ Stage(r) \/ CheckAgain(r) \/ Compare(r)
           \/ Persist(r) \/ GiveUp(r)

Begin(r) == \/ \E s \in Scenes, k \in {"core", "external"} : Preflight(r, s, k)
            \/ Start(r) \/ SetupFails(r) \/ Refuse(r)

Others == \/ \E r \in Runs : Cancel(r) \/ RevokeLease(r)
          \/ \E enable \in BOOLEAN : ChangePlugins(enable)
          \/ Foreign

SettleAny == \E now \in Editions, F \in SUBSET Runs : SettlePlugins(now, F)

Next ==
  \/ \E r \in Runs : \/ Begin(r) \/ Step(r) \/ Work(r) \/ Timeout(r) \/ Interrupt(r)
                     \/ Notice(r) \/ JournalFails(r)
  \/ SettleAny \/ Others

Spec == Init /\ [][Next]_vars

\* Awaits come to an end, timers fire, threads run, and who holds the plugins mutex
\* leaves it.  Nobody is obliged to send, to cancel, or to change a plugin.
Fairness ==
  /\ \A r \in Runs : WF_vars(Step(r) \/ Timeout(r)) /\ WF_vars(Work(r))
  /\ WF_vars(SettleAny)

FairSpec == Spec /\ Fairness
----------------------------------------------------------------------------
TypeOK ==
  /\ catalog \in Editions /\ edition \in Editions /\ settling \in BOOLEAN
  /\ optional \in Editions
  /\ registered \subseteq Runs /\ granted \subseteq Runs
  /\ status \in [Runs -> Statuses]
  /\ sceneOf \in [Runs -> Scenes \cup {Nobody}]
  /\ \A r \in Runs : pc[r] # "idle" => sceneOf[r] \in Scenes
  /\ rev \in [Scenes -> Nat]
  /\ call \in [Runs -> [Slots -> Phases]]
  /\ failures \in 0..MaxFailures
  /\ pc \in [Runs -> PCs] /\ kind \in [Runs -> {"core", "external"}]
  /\ held \in [Runs -> Editions] /\ seen \in [Runs -> Nat]
  /\ fired \subseteq Runs
  /\ result \in [Runs -> {"none", "answer", "error"}]
  /\ round \in [Runs -> 0..(MaxRounds - 1)]
  /\ worker \in [Runs -> Stages] /\ job \in [Runs -> {0} \cup Slots]
  /\ stopped \subseteq Runs /\ base \in [Runs -> Nat]
  /\ mutex \in Runs \cup {Nobody}
  /\ file \in Nat /\ foreign \in 0..MaxForeign /\ agentFile \in Nat
  /\ canceled \subseteq Runs /\ lost \subseteq Runs
  /\ changed \subseteq Runs \X Slots

\* Revocation and cancellation are effective at once, whatever the Store could save
\* (main.rs:296): a run that ended or lost its grant records no request to the model,
\* sends no remote call, and its worker passes no further check.  Only what had passed
\* its last check may still be saved.
QuietAfterLoss ==
  [][\A r \in lost :
       /\ pc[r] # "answer" => pc'[r] # "answer"
       /\ \A i \in Slots : pc[r] = "remote" /\ call[r][i] = "prepared" => call'[r][i] # "dispatched"
       /\ worker[r] \in {"started", "loaded", "staged"} =>
            worker'[r] \in {worker[r], "refused", "none"}]_vars

\* A receipt tells the truth about the world outside: what is said to be refused or not
\* sent changed nothing, what is said to be committed did.  And a run that completed
\* knows the outcome of each of its calls.
ReceiptsTrue ==
  \A r \in Runs, i \in Slots :
    /\ call[r][i] \in {"prepared", "notsent", "refused"} => <<r, i>> \notin changed
    /\ call[r][i] \in {"committed", "replied"} => <<r, i>> \in changed
    /\ status[r] = "completed" =>
         call[r][i] \in {"absent", "notsent", "refused", "committed", "replied"}

\* The calls of a run implement the abstract ledger of requests: a worker may still make
\* its call until it saved or gave up, also after its run has ended and its receipt was
\* settled; a remote call is granted and made in one hold of the lock.
SaysOf(phase) ==
  CASE phase = "absent"                               -> "nothing"
    [] phase = "prepared"                             -> "open"
    [] phase = "notsent"                              -> "never"
    [] phase \in {"dispatched", "unknown"}            -> "sent"
    [] phase \in {"committed", "refused", "replied"}  -> "answered"

MayMake(r, i) == worker[r] \in Working /\ job[r] = i
Made(r, i)    == IF <<r, i>> \in changed THEN 1 ELSE 0

EntryOf(r, i) == [says |-> SaysOf(call[r][i]), may |-> MayMake(r, i), done |-> Made(r, i)]
LedgerOf == [c \in Runs \X Slots |-> EntryOf(c[1], c[2])]

Ledger == INSTANCE CallLedger WITH Requests <- Runs \X Slots, ledger <- LedgerOf
ImplementsLedger == Ledger!Spec

\* What one run saved with an edit, no other run's edit overwrites unseen, not even the
\* worker of a run that ended long ago.
NoLostEdit ==
  \A r \in Runs : worker[r] \in {"loaded", "staged", "checked", "compared"} => agentFile <= base[r]

\* A run that runs has a task that will end it, unless the Store failed to save its end.
\* Nobody but the user ends a run without a task.
Tended == \A r \in Runs : Running(r) /\ failures = 0 => pc[r] \in InTask

\* And it does.
RunsEnd == \A r \in Runs : Running(r) ~> ~Running(r) \/ failures > 0
=============================================================================
