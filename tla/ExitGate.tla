------------------------------- MODULE ExitGate -------------------------------
(***************************************************************************)
(* Leaving the application (apps/desktop: lifecycle.rs, the admission      *)
(* barrier of mcp_runtime.rs, session_title.rs, and the renderer's         *)
(* exit-preparation.ts).                                                   *)
(*                                                                         *)
(* An exit is a reversible preparation followed by irreversible cleanup.   *)
(* One attempt at a time reserves the gate; the renderer saves its drafts  *)
(* and acknowledges that very attempt; runs are then cancelled, background *)
(* work is stopped and waited for, and only then is the exit irrevocable.  *)
(* Until that point every failure and every timeout aborts the attempt and *)
(* reopens what it closed.  Requests, late acknowledgements and new work   *)
(* interleave with all of it.                                              *)
(***************************************************************************)
EXTENDS Naturals

CONSTANTS
  MaxRequests,  \* bound of the model: exit requests, each of them made once
  Conns,        \* the callers that may want an MCP process
  TitleJobs     \* the session titles that may be generated

ASSUME ExitAssumption == MaxRequests \in Nat

Requests == 1..MaxRequests
None == 0

VARIABLES
  phase,      \* ExitState.phase
  reserved,   \* ExitState.reserved
  attempt,    \* ExitState.attempt: whose it is, whether its reply was sent, its ticket
  task,       \* per request: start_shutdown and the task it spawns
  preflight,  \* HOOK_PREFLIGHT: the request that holds it
  hooks,      \* the hook runtime is "open" or "paused"
  memory,     \* the memory task registry is "open" or "stopped"
  titles,     \* the session title jobs under way
  mcp,        \* the MCP registry: whose ticket it quiesces for, and whether for good
  conn,       \* per caller: its connection, and whether its epoch is still the registry's
  engine,     \* the Engine lock: "free", or held while "starting" a run or "ending" one
  run,        \* a run is live in the Store
  intent,     \* a durable relocation request exists
  renderer,   \* ExitPreparation
  dirty,      \* the renderer has edits the Store does not
  events,     \* events on their way to the renderer
  calls       \* commands on their way to the host

gate == <<phase, reserved, attempt>>
work == <<memory, titles, mcp, conn, engine, run>>
ui == <<renderer, dirty, events, calls>>
vars == <<gate, task, preflight, hooks, work, intent, ui>>

Phases == {"running", "preparing", "draining", "ready"}

Ends == {"refused", "aborted", "stuck", "exited"}

Stages == {"none", "asking", "hooks", "begun", "waiting", "expired", "settling",
           "draining", "titles", "mcp", "closing", "final", "closed",
           "aborting"} \cup Ends

Task == [at: Stages, reply: {"none", "ok", "error"}, relocates: BOOLEAN, failed: BOOLEAN]

NoAttempt == [id |-> None, replied |-> FALSE, ticket |-> FALSE]

RendererStages == {"idle", "authoring", "beginning", "flushing", "finishing", "failing",
                   "locked"}

Events == [kind: {"prepare", "canceled"}, id: Requests]

Calls == [op: {"begin", "finish"}, id: Requests, ok: BOOLEAN]

Goto(i, stage) == task' = [task EXCEPT ![i].at = stage]

\* accepts_new_operations and ensure_background.
AcceptsNew == phase = "running" /\ ~reserved
AllowsBackground == phase \in {"running", "preparing"}

-----------------------------------------------------------------------------
(* The MCP registry: an epoch that begin and resume both advance, so that a *)
(* connection queued before a barrier is never admitted after it.          *)

Admits_AnyEpoch(c) == ~mcp.permanent /\ mcp.quiescing = None
Admits(c) == ~mcp.permanent /\ mcp.quiescing = None /\ conn[c].current

NextEpoch == [c \in Conns |-> [conn[c] EXCEPT !.current = FALSE]]

\* begin_quiesce kills every registered child.
Killed == [c \in Conns |->
  [at |-> IF conn[c].at = "live" THEN "dying" ELSE conn[c].at, current |-> FALSE]]

HoldsSlot(c) == conn[c].at \in {"holding", "live", "dying"}
SlotsIdle == \A c \in Conns : ~HoldsSlot(c)

TicketCurrent(i) == ~mcp.permanent /\ mcp.quiescing = i

McpStep(c, at, current) ==
  /\ conn' = [conn EXCEPT ![c] = [at |-> at, current |-> current]]
  /\ UNCHANGED <<gate, task, preflight, hooks, memory, titles, mcp, engine, run, intent, ui>>

\* start_process_pipes: the epoch is read, a slot awaited, the epoch checked again.
Enqueue(c) ==
  /\ conn[c].at = "idle" /\ ~mcp.permanent /\ mcp.quiescing = None
  /\ McpStep(c, "queued", TRUE)

Acquire(c) ==
  /\ conn[c].at = "queued"
  /\ IF mcp.permanent THEN McpStep(c, "idle", FALSE) ELSE McpStep(c, "holding", conn[c].current)

Spawn(c) ==
  /\ conn[c].at = "holding"
  /\ McpStep(c, IF Admits(c) THEN "live" ELSE "dying", conn[c].current)

CloseSession(c) == conn[c].at = "live" /\ McpStep(c, "dying", conn[c].current)

\* The reaper returns the slot once the process and its pipe threads are gone.
Reap(c) == conn[c].at = "dying" /\ McpStep(c, "idle", FALSE)

-----------------------------------------------------------------------------
(* Runs and session titles.                                                *)

EngineFree_Ignored == TRUE
EngineFree == engine = "free"

RunStep(holder, live, jobs) ==
  /\ engine' = holder /\ run' = live /\ titles' = jobs
  /\ UNCHANGED <<gate, task, preflight, hooks, memory, mcp, conn, intent, ui>>

\* begin_run checks the gate under the Engine lock it commits under.
CheckRun == EngineFree /\ AcceptsNew /\ ~run /\ RunStep("starting", FALSE, titles)
BeginRun == engine = "starting" /\ RunStep("free", TRUE, titles)

\* A finished run may want a title; schedule checks the gate under the same lock.
EndRun ==
  /\ EngineFree /\ run
  /\ \/ RunStep("free", FALSE, titles)
     \/ AcceptsNew /\ RunStep("ending", FALSE, titles)

Schedule ==
  /\ engine = "ending"
  /\ \E t \in TitleJobs \ titles : RunStep("free", FALSE, titles \cup {t})

\* claim_session_title or the registry's limit turns the job down.
DontSchedule == engine = "ending" /\ RunStep("free", FALSE, titles)

\* The lease is dropped.
TitleOver(t) == t \in titles /\ RunStep(engine, run, titles \ {t})

-----------------------------------------------------------------------------
(* The exit request and the task it spawns.                                *)

\* abort_with_error, under the attempt's mutex: everything closed is reopened.
Restored_WithoutHooks(was) == was
Restored(was) == "open"

Abort(i) ==
  IF phase = "ready" \/ attempt.id # i \/ (attempt.ticket /\ ~TicketCurrent(i))
  THEN Goto(i, "stuck") /\ UNCHANGED <<gate, hooks, memory, mcp, conn>>
  ELSE /\ Goto(i, "aborting")
       /\ attempt' = NoAttempt /\ phase' = "running" /\ reserved' = FALSE
       /\ hooks' = Restored(hooks)
       /\ memory' = "open"
       /\ mcp' = IF attempt.ticket THEN [mcp EXCEPT !.quiescing = None] ELSE mcp
       /\ conn' = IF attempt.ticket THEN NextEpoch ELSE conn

\* start_shutdown: with hooks enabled the gate is read now and reserved later.
Request(i, relocates, enabled) ==
  /\ task[i].at = "none" /\ \A j \in 1..(i - 1) : task[j].at # "none"
  /\ task' = [task EXCEPT ![i].relocates = relocates,
                          ![i].at = IF ~enabled THEN "hooks"
                                    ELSE IF AcceptsNew THEN "asking" ELSE "refused"]
  /\ UNCHANGED <<gate, preflight, hooks, work, intent, ui>>

\* HOOK_PREFLIGHT.swap, then before_quit pauses the hooks.
Preflight(i) ==
  /\ task[i].at = "asking"
  /\ IF preflight # None
     THEN Goto(i, "refused") /\ UNCHANGED <<preflight, hooks>>
     ELSE Goto(i, "hooks") /\ preflight' = i /\ hooks' = "paused"
  /\ UNCHANGED <<gate, work, intent, ui>>

\* begin_with_completion.
Begin(i) ==
  /\ task[i].at = "hooks"
  /\ IF phase = "running" /\ attempt.id = None
     THEN /\ Goto(i, "begun")
          /\ attempt' = [NoAttempt EXCEPT !.id = i] /\ reserved' = TRUE
     ELSE task' = [task EXCEPT ![i].at = "refused", ![i].failed = TRUE]
          /\ UNCHANGED <<attempt, reserved>>
  /\ UNCHANGED <<phase, preflight, hooks, work, intent, ui>>

\* hooks::pause, begin_quiesce, set_mcp and the prepare-exit event.  The registry is
\* neither quiescing nor closed here, so begin_quiesce and set_mcp cannot refuse.
Announce(i) ==
  /\ task[i].at = "begun"
  /\ mcp.quiescing = None /\ ~mcp.permanent
  /\ hooks' = "paused"
  /\ mcp' = [mcp EXCEPT !.quiescing = i] /\ conn' = Killed
  /\ attempt' = [attempt EXCEPT !.ticket = TRUE]
  /\ events' = events \cup {[kind |-> "prepare", id |-> i]}
  /\ Goto(i, "waiting")
  /\ UNCHANGED <<phase, reserved, preflight, memory, titles, engine, run, intent,
                 renderer, dirty, calls>>

\* The event cannot be emitted: what was just closed is reopened at once.
AnnounceFails(i) ==
  /\ task[i].at = "begun"
  /\ task' = [task EXCEPT ![i].at = "aborting", ![i].failed = TRUE]
  /\ attempt' = NoAttempt /\ reserved' = FALSE
  /\ hooks' = Restored("paused") /\ conn' = Killed
  /\ UNCHANGED <<phase, preflight, memory, titles, mcp, engine, run, intent, ui>>

\* start_shutdown is over: it releases the preflight, and undoes its own pause
\* when no attempt came of it.
PreflightOver ==
  /\ preflight # None /\ task[preflight].at \notin {"hooks", "begun"}
  /\ preflight' = None
  /\ hooks' = IF task[preflight].failed THEN "open" ELSE hooks
  /\ UNCHANGED <<gate, task, work, intent, ui>>

\* The ten seconds are over; the reply may still arrive before the abort.
TimesOut_WithoutATimer(i) == FALSE
TimesOut(i) == task[i].at = "waiting" /\ task[i].reply = "none"

Expire(i) ==
  /\ TimesOut(i)
  /\ Goto(i, "expired")
  /\ UNCHANGED <<gate, preflight, hooks, work, intent, ui>>

\* Any failure of the task before the final shutdown aborts the attempt.
Fail(i) ==
  /\ \/ task[i].at = "expired"
     \/ task[i].at = "waiting" /\ task[i].reply = "error"
     \/ task[i].at = "settling" /\ EngineFree /\ run
     \/ task[i].at \in {"draining", "titles", "mcp", "closing"}
  /\ Abort(i)
  /\ UNCHANGED <<preflight, titles, engine, run, intent, ui>>

\* advance(DRAINING).
Proceed(i) ==
  /\ task[i].at = "waiting" /\ task[i].reply = "ok"
  /\ IF attempt.id = i /\ phase = "preparing"
     THEN Goto(i, "settling") /\ phase' = "draining"
     ELSE Goto(i, "stuck") /\ phase' = phase
  /\ UNCHANGED <<reserved, attempt, preflight, hooks, work, intent, ui>>

\* settle: under the Engine lock every live run is cancelled durably.
Settle(i) ==
  /\ task[i].at = "settling" /\ EngineFree
  /\ run' = FALSE
  /\ Goto(i, "draining")
  /\ UNCHANGED <<gate, preflight, hooks, memory, titles, mcp, conn, engine, intent, ui>>

\* hooks::drain and memory.drain stop what they then wait for (the hook and memory
\* jobs are not modelled).
StopWork(i) ==
  /\ task[i].at = "draining"
  /\ hooks' = "paused" /\ memory' = "stopped"
  /\ Goto(i, "titles")
  /\ UNCHANGED <<gate, preflight, titles, mcp, conn, engine, run, intent, ui>>

DrainTitles(i) ==
  /\ task[i].at = "titles" /\ titles = {}
  /\ Goto(i, "mcp")
  /\ UNCHANGED <<gate, preflight, hooks, work, intent, ui>>

DrainMcp(i) ==
  /\ task[i].at = "mcp" /\ SlotsIdle /\ TicketCurrent(i)
  /\ Goto(i, "closing")
  /\ UNCHANGED <<gate, preflight, hooks, work, intent, ui>>

\* MigrationTask::prepare, when the exit is for a relocation.
Prepare(i) ==
  /\ task[i].at = "closing"
  /\ intent' = (intent \/ task[i].relocates)
  /\ Goto(i, "final")
  /\ UNCHANGED <<gate, preflight, hooks, work, ui>>

FinalShutdown(i) ==
  /\ task[i].at = "final" /\ TicketCurrent(i) /\ SlotsIdle
  /\ mcp' = [mcp EXCEPT !.permanent = TRUE]
  /\ Goto(i, "closed")
  /\ UNCHANGED <<gate, preflight, hooks, memory, titles, conn, engine, run, intent, ui>>

\* final_shutdown refused: the relocation request is withdrawn before the abort;
\* if that fails the application stays closed and says so.
Withdrawn_Kept(was) == was
Withdrawn(was) == FALSE

FinalShutdownFails(i) ==
  /\ task[i].at = "final" /\ ~(TicketCurrent(i) /\ SlotsIdle)
  /\ \/ Abort(i) /\ intent' = Withdrawn(intent)
     \/ /\ intent /\ Goto(i, "stuck")
        /\ UNCHANGED <<gate, hooks, memory, mcp, conn, intent>>
  /\ UNCHANGED <<preflight, titles, engine, run, ui>>

\* advance(READY), and the process ends.
Leave(i) ==
  /\ task[i].at = "closed"
  /\ attempt.id = i /\ phase = "draining"
  /\ phase' = "ready"
  /\ Goto(i, "exited")
  /\ UNCHANGED <<reserved, attempt, preflight, hooks, work, intent, ui>>

\* After an abort has released the mutex the renderer is told.
EmitCanceled_Never(i) == events
EmitCanceled(i) == events \cup {[kind |-> "canceled", id |-> i]}

TellAborted(i) ==
  /\ task[i].at = "aborting"
  /\ events' = EmitCanceled(i)
  /\ Goto(i, "aborted")
  /\ UNCHANGED <<gate, preflight, hooks, work, intent, renderer, dirty, calls>>

-----------------------------------------------------------------------------
(* The renderer (exit-preparation.ts): one thread, whose commands to the   *)
(* host are awaited while others run.                                      *)

\* The command the renderer is waiting for, at each stage.
Awaited ==
  CASE renderer.at = "beginning" -> {[op |-> "begin", id |-> renderer.current, ok |-> TRUE]}
    [] renderer.at = "finishing" -> {[op |-> "finish", id |-> renderer.current, ok |-> TRUE]}
    [] renderer.at = "failing" -> {[op |-> "finish", id |-> renderer.current, ok |-> FALSE]}
    [] OTHER -> {}

RendererStep(next) ==
  /\ renderer' = next
  /\ UNCHANGED <<gate, task, preflight, hooks, work, intent>>

Unlocked == [renderer EXCEPT !.current = None, !.at = "idle"]

\* Sends a command and waits for its answer.
Ask(stage, op, ok) ==
  /\ RendererStep([renderer EXCEPT !.at = stage])
  /\ calls' = calls \cup {[op |-> op, id |-> renderer.current, ok |-> ok]}

Edit ==
  /\ renderer.at \in {"idle", "authoring", "beginning", "flushing"} /\ ~dirty
  /\ dirty' = TRUE
  /\ RendererStep(renderer) /\ UNCHANGED <<events, calls>>

\* A draft command; ensure_scene_command accepts it up to PREPARING.
Save ==
  /\ renderer.at \in {"idle", "flushing"} /\ dirty /\ AllowsBackground
  /\ dirty' = FALSE
  /\ RendererStep(renderer) /\ UNCHANGED <<events, calls>>

\* prepare(): a second attempt is turned down while another one is being prepared.
HearPrepare(id) ==
  LET event == [kind |-> "prepare", id |-> id] IN
  /\ event \in events /\ events' = events \ {event}
  /\ IF id \in renderer.canceled \/ renderer.current = id
     THEN RendererStep(renderer) /\ calls' = calls
     ELSE IF renderer.current # None
     THEN /\ RendererStep(renderer)
          /\ calls' = calls \cup {[op |-> "finish", id |-> id, ok |-> FALSE]}
     ELSE /\ RendererStep([renderer EXCEPT !.current = id, !.at = "authoring"])
          /\ calls' = calls
  /\ UNCHANGED dirty

\* cancel().
HearCanceled(id) ==
  LET event == [kind |-> "canceled", id |-> id]
      told == [renderer EXCEPT !.canceled = @ \cup {id}]
  IN
  /\ event \in events /\ events' = events \ {event}
  /\ RendererStep(IF renderer.current = id
                  THEN [told EXCEPT !.current = None, !.at = "idle"] ELSE told)
  /\ UNCHANGED <<dirty, calls>>

\* beforePrepare is over: manual authoring is drained.
Authored ==
  /\ renderer.at = "authoring"
  /\ Ask("beginning", "begin", TRUE)
  /\ UNCHANGED <<dirty, events>>

\* flush is over: it found nothing left to save.
Flushed ==
  /\ renderer.at = "flushing" /\ ~dirty
  /\ Ask("finishing", "finish", TRUE)
  /\ UNCHANGED <<dirty, events>>

\* Authoring or a save failed.
GiveUp ==
  /\ renderer.at \in {"authoring", "flushing"}
  /\ Ask("failing", "finish", FALSE)
  /\ UNCHANGED <<dirty, events>>

\* What the host's answer to a command makes of the renderer and of the commands
\* under way; an answer nobody waits for is dropped.
Answered(call, ok) ==
  LET left == calls \ {call}
      giveUp == [op |-> "finish", id |-> call.id, ok |-> FALSE]
  IN
  IF call \notin Awaited
  THEN renderer' = renderer /\ calls' = left
  ELSE IF renderer.at = "failing"
  THEN renderer' = Unlocked /\ calls' = left
  ELSE IF ok
  THEN /\ renderer' = [renderer EXCEPT !.at = IF @ = "beginning" THEN "flushing" ELSE "locked"]
       /\ calls' = left
  ELSE renderer' = [renderer EXCEPT !.at = "failing"] /\ calls' = left \cup {giveUp}

\* begin_exit_preparation: prepare_with.
HandleBegin(id) ==
  LET call == [op |-> "begin", id |-> id, ok |-> TRUE]
      accepted == /\ attempt.id = id
                  /\ phase = "preparing" \/ (phase = "running" /\ ~attempt.replied)
  IN
  /\ call \in calls
  /\ phase' = IF accepted THEN "preparing" ELSE phase
  /\ Answered(call, accepted)
  /\ UNCHANGED <<reserved, attempt, task, preflight, hooks, work, intent, dirty, events>>

\* finish_exit_preparation: acknowledge accepts only the current attempt's nonce.
Acknowledges_AnyNonce(id, ok) ==
  /\ attempt.id # None
  /\ phase = "preparing" \/ (~ok /\ phase = "running")
Acknowledges(id, ok) ==
  /\ attempt.id = id
  /\ phase = "preparing" \/ (~ok /\ phase = "running")

HandleFinish(id, ok) ==
  LET call == [op |-> "finish", id |-> id, ok |-> ok]
      accepted == Acknowledges(id, ok)
  IN
  /\ call \in calls
  /\ attempt' = IF accepted THEN [attempt EXCEPT !.replied = TRUE] ELSE attempt
  /\ task' = IF accepted /\ ~attempt.replied
             THEN [task EXCEPT ![attempt.id].reply = IF ok THEN "ok" ELSE "error"]
             ELSE task
  /\ Answered(call, accepted)
  /\ UNCHANGED <<phase, reserved, preflight, hooks, work, intent, dirty, events>>

-----------------------------------------------------------------------------
(* The specification.                                                      *)

Init ==
  /\ phase = "running" /\ reserved = FALSE /\ attempt = NoAttempt
  /\ task = [i \in Requests |-> [at |-> "none", reply |-> "none",
                                 relocates |-> FALSE, failed |-> FALSE]]
  /\ preflight = None /\ hooks = "open"
  /\ memory = "open" /\ titles = {}
  /\ mcp = [quiescing |-> None, permanent |-> FALSE]
  /\ conn = [c \in Conns |-> [at |-> "idle", current |-> FALSE]]
  /\ engine = "free" /\ run = FALSE /\ intent = FALSE
  /\ renderer = [current |-> None, at |-> "idle", canceled |-> {}]
  /\ dirty = FALSE /\ events = {} /\ calls = {}

ExitTask(i) ==
  \/ Preflight(i) \/ Begin(i) \/ Announce(i) \/ AnnounceFails(i)
  \/ Expire(i) \/ Fail(i) \/ Proceed(i) \/ Settle(i)
  \/ StopWork(i) \/ DrainTitles(i) \/ DrainMcp(i) \/ Prepare(i)
  \/ FinalShutdown(i) \/ FinalShutdownFails(i) \/ Leave(i) \/ TellAborted(i)

Hear(id) == HearPrepare(id) \/ HearCanceled(id)

Handle(id) == HandleBegin(id) \/ \E ok \in BOOLEAN : HandleFinish(id, ok)

Next ==
  \/ \E i \in Requests :
       \/ \E relocates, enabled \in BOOLEAN : Request(i, relocates, enabled)
       \/ ExitTask(i) \/ Hear(i) \/ Handle(i)
  \/ PreflightOver
  \/ \E c \in Conns : Enqueue(c) \/ Acquire(c) \/ Spawn(c) \/ CloseSession(c) \/ Reap(c)
  \/ CheckRun \/ BeginRun \/ EndRun \/ Schedule \/ DontSchedule
  \/ \E t \in TitleJobs : TitleOver(t)
  \/ Edit \/ Save \/ Authored \/ Flushed \/ GiveUp

EngineLeft == BeginRun \/ Schedule \/ DontSchedule

\* Every step of a task is timed or taken at once, events and commands arrive, and
\* the Engine lock is released.  Each request takes finitely many steps, so fairness to
\* all of them together is enough.  Users, runs, title jobs and processes need
\* never move.
Progress == PreflightOver \/ \E i \in Requests : ExitTask(i) \/ Hear(i) \/ Handle(i)

Fairness == WF_vars(Progress) /\ WF_vars(EngineLeft)

Spec == Init /\ [][Next]_vars /\ Fairness

-----------------------------------------------------------------------------
(* Properties.                                                             *)

TypeOK ==
  /\ phase \in Phases /\ reserved \in BOOLEAN
  /\ attempt \in [id: Requests \cup {None}, replied: BOOLEAN, ticket: BOOLEAN]
  /\ task \in [Requests -> Task]
  /\ preflight \in Requests \cup {None} /\ hooks \in {"open", "paused"}
  /\ memory \in {"open", "stopped"} /\ titles \subseteq TitleJobs
  /\ mcp \in [quiescing: Requests \cup {None}, permanent: BOOLEAN]
  /\ conn \in [Conns -> [at: {"idle", "queued", "holding", "live", "dying"},
                         current: BOOLEAN]]
  /\ engine \in {"free", "starting", "ending"} /\ run \in BOOLEAN /\ intent \in BOOLEAN
  /\ renderer \in [current: Requests \cup {None}, at: RendererStages,
                   canceled: SUBSET Requests]
  /\ dirty \in BOOLEAN /\ events \subseteq Events /\ calls \subseteq Calls

\* Once the host drains, the renderer has no edit that is not in the Store: only the
\* attempt whose drafts were saved can proceed, and no acknowledgement of an earlier
\* attempt, however late, is taken for it.
NothingUnsaved == phase \in {"draining", "ready"} => ~dirty

\* What the exit has stopped and waited for stays stopped until it is aborted: no run
\* after the settlement, no title job after its drain, no process at the end.
QuietOnceDrained ==
  \A i \in Requests :
    /\ task[i].at \in {"draining", "titles", "mcp", "closing", "final", "closed",
                       "exited"} => ~run
    /\ task[i].at \in {"mcp", "closing", "final", "closed", "exited"} => titles = {}
    /\ task[i].at \in {"closed", "exited"} => \A c \in Conns : conn[c].at # "live"

\* No MCP process of an older epoch: a connection that queued before a barrier is
\* neither started behind it nor revived when the barrier is lifted.
LiveIsAdmitted ==
  \A c \in Conns : conn[c].at = "live" => conn[c].current /\ mcp.quiescing = None

\* With no attempt and no preflight under way, everything an exit closes is open.
GatesRestored ==
  attempt.id = None /\ preflight = None =>
    /\ phase = "running" /\ ~reserved
    /\ hooks = "open" /\ memory = "open" /\ mcp.quiescing = None

\* A relocation request outlives only an exit that is final, or one that told its
\* user to restart: the application never runs on with it.
IntentOnlyAtExit == intent => phase \in {"draining", "ready"}

\* The exit implements the abstract departure.  Hooks are not among its kinds of work: a
\* second request that fails may resume them, until the drain pauses them again.
Kinds == {"run", "title", "process", "memory"}

DepartureStage == IF phase = "ready" THEN "gone"
                  ELSE IF phase = "draining" THEN "draining"
                  ELSE IF reserved THEN "closing" ELSE "open"

Reached(stages) == \E i \in Requests : attempt.id = i /\ task[i].at \in stages

Busy(kind) == \/ kind = "run" /\ run
              \/ kind = "title" /\ titles # {}
              \/ kind = "process" /\ \E c \in Conns : conn[c].at = "live"

Barred(kind) ==
  \/ kind = "run" /\ Reached({"draining", "titles", "mcp", "closing", "final", "closed",
                              "exited", "stuck"})
  \/ kind = "title" /\ Reached({"mcp", "closing", "final", "closed", "exited", "stuck"})
  \/ kind = "process" /\ (mcp.quiescing # None \/ mcp.permanent)
  \/ kind = "memory" /\ memory = "stopped"

BusyKinds == {k \in Kinds : Busy(k)}
BarredKinds == {k \in Kinds : Barred(k)}

Departing == INSTANCE Departure WITH
  stage <- DepartureStage, unsaved <- dirty, busy <- BusyKinds, barred <- BarredKinds
ImplementsDeparture == Departing!Spec

\* Every exit request comes to an end.
ExitConcludes == \A i \in Requests : task[i].at # "none" ~> task[i].at \in Ends

\* The renderer is not left locked by an attempt that was given up.
Released ==
  \A i \in Requests :
    renderer.current = i ~> renderer.current # i \/ task[i].at \in {"exited", "stuck"}

=============================================================================
