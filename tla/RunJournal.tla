----------------------------- MODULE RunJournal -----------------------------
(***************************************************************************)
(* The durable execution journal of an agent run (mewu-core journal.rs,    *)
(* journal_store.rs, and the run lifecycle of store.rs).                   *)
(*                                                                         *)
(* A scene holds at most one live run.  Every request the host makes on    *)
(* behalf of a run, to the model or to a tool, has a receipt (an "event")  *)
(* in the run's record.  A receipt is committed BEFORE the request may     *)
(* leave the process, so that after a cancellation or a crash the journal  *)
(* still knows which requests were never sent and which ones may have had  *)
(* an effect nobody observed.  One action is one committed transaction of  *)
(* the Store.  The host is the most general client the API admits: it may  *)
(* call any operation with any lease it holds, at any time.                *)
(***************************************************************************)
EXTENDS Integers, FiniteSets, Sequences

CONSTANTS
  Scenes,             \* scenes (conversations) under observation
  Elsewhere,          \* stands for every other scene that may be the active one
  Agents,             \* agent profiles
  AgentOf,            \* the agent each scene belongs to
  Runs,               \* run identifiers, fresh ones included
  NoRun,              \* "no run": an empty Option<Run>, or no provenance
  Bindings,           \* what a proposed tool call may be bound to
  MaxEvents,          \* receipts per run (64 in the code)
  MaxRounds,          \* model rounds per run (12 in the code)
  MaxCalls,           \* tool calls per model turn (8 in the code)
  ToolBudget,         \* dispatched tool calls per run (32 in the code)
  StartKinds,         \* kinds of run the user starts
  Endings,            \* how the host ends a run it still owns
  Replies,            \* what a tool may answer: [answer, selectable]
  MaxServerRevision   \* bound of the model: revisions of the MCP server

AllBindings == {"local", "mcp", "extension", "rejected"}

ASSUME ConstantsAssumption ==
  /\ MaxEvents \in Nat \ {0} /\ MaxRounds \in Nat \ {0}
  /\ MaxCalls \in Nat /\ ToolBudget \in Nat /\ MaxServerRevision \in Nat \ {0}
  /\ Bindings \subseteq AllBindings
  /\ StartKinds \subseteq {"chat", "workflow", "external"}
  /\ Endings \subseteq {"completed", "canceled", "failed"}
  /\ Replies \subseteq [answer: {"ok", "error", "intermediate"}, selectable: BOOLEAN]
  /\ AgentOf \in [Scenes -> Agents]
  /\ NoRun \notin Runs /\ Elsewhere \notin Scenes
  /\ IsFiniteSet(Runs)

VARIABLES
  up,        \* the process is running with the Store open
  held,      \* runs whose dispatch leases this process still has in memory
  permit,    \* <<run, slot>> whose dispatch was granted but not yet performed
  effects,   \* how often the request behind a receipt left or took effect
  active,    \* active_scene_id
  scenes,    \* per scene: its live or last run, the run's status, closed flag
  liveSteps, \* per scene: Run.steps, the trace of scene.run shown to the user
  toolSteps, \* per run: Message.tool_steps, the trace archived with the question
  record,    \* per run: its agent_run_records row
  event,     \* per run: its agent_run_events rows, by sequence number
  server     \* the MCP server's registration

hostVars == <<up, held, permit, effects>>
traceVars == <<liveSteps, toolSteps>>
vars == <<up, held, permit, effects, active, scenes, liveSteps, toolSteps,
          record, event, server>>

-----------------------------------------------------------------------------
(* Receipts.                                                               *)

Slots == 1..MaxEvents
Rounds == 0..(MaxRounds - 1)

\* ReceiptPhase; "absent" is a sequence number without a row.
Phases == {"absent", "prepared", "dispatched", "responded", "unknown", "notsent"}

\* What a tool answered, as far as the user's trace tells answers apart:
\* Complete/LocalRead/LocalCommit without and with an error, and the
\* intermediate replies Task and InputRequired.
Answers == {"ok", "error", "intermediate"}

Event == [kind: {"none", "model", "tool"}, phase: Phases, round: Rounds,
          binding: AllBindings \cup {"none"}, serverRev: Nat,
          answer: Answers \cup {"none"}, selectable: BOOLEAN]

NoEvent == [kind |-> "none", phase |-> "absent", round |-> 0, binding |-> "none",
            serverRev |-> 0, answer |-> "none", selectable |-> FALSE]

ModelEvent(n) == [NoEvent EXCEPT !.kind = "model", !.phase = "dispatched",
                                 !.round = n]

ToolEvent(n, phase, call) ==
  [NoEvent EXCEPT !.kind = "tool", !.phase = phase, !.round = n,
                  !.binding = call.binding, !.serverRev = call.serverRev]

Pending(e) == e.phase \in {"prepared", "dispatched"}
Settled(e) == e.phase \in {"responded", "unknown", "notsent"}

\* The checkpoint, as the set of the sequence numbers it covers: the receipts
\* before the first pending one.  (The code keeps its largest member.)
SettledPrefix(evs) == {i \in Slots : \A j \in 1..i : Settled(evs[j])}

\* The last sequence number in use: MAX(sequence) of the run's rows.
IsLast(evs, n) == \A i \in Slots : (i <= n) <=> (evs[i].phase # "absent")

\* A tool call counts against the budget once it may have been sent.
Charged(e) == e.kind = "tool" /\ e.phase \in {"dispatched", "responded", "unknown"}
ChargedCalls(evs) == Cardinality({i \in Slots : Charged(evs[i])})
InBudget_OffByOne(evs) == ChargedCalls(evs) <= ToolBudget
InBudget(evs) == ChargedCalls(evs) < ToolBudget

\* A receipt may be marked dispatched, or answered by the Store, once.
Unsent(e) == e.kind = "tool" /\ e.phase = "prepared"

\* An answer is still awaited: also after the wait was given up.
Answerable_OrAnswered(e) == e.phase \in {"dispatched", "unknown", "responded"}
Answerable(e) == e.phase \in {"dispatched", "unknown"}

\* What the end of its run does to a receipt: work that never left is known not
\* to have been sent, work that left without an answer has an unknown outcome.
SettleAtEnd_AllNotSent(e) ==
  IF Pending(e) THEN [e EXCEPT !.phase = "notsent"] ELSE e
SettleAtEnd(e) ==
  CASE e.phase = "prepared"   -> [e EXCEPT !.phase = "notsent"]
    [] e.phase = "dispatched" -> [e EXCEPT !.phase = "unknown"]
    [] OTHER                  -> e

-----------------------------------------------------------------------------
(* The user-visible trace.                                                 *)

StepStatus == {"none", "running", "completed", "failed", "unknown"}
NoSteps == [i \in Slots |-> "none"]

StatusOf(e) ==
  CASE Pending(e)                                        -> "running"
    [] e.phase = "unknown"                               -> "unknown"
    [] e.phase = "responded" /\ e.answer = "ok"          -> "completed"
    [] e.phase = "responded" /\ e.answer = "error"       -> "failed"
    [] e.phase = "responded" /\ e.answer = "intermediate" -> "unknown"
    [] OTHER                                             -> "failed"

\* sync_step for the receipts in `which`; model receipts have no step.
Sync(steps, evs, which) ==
  [i \in Slots |-> IF i \in which /\ evs[i].kind = "tool" THEN StatusOf(evs[i])
                                                          ELSE steps[i]]

\* settle_steps: a step still running when its run ends is first marked failed.
SettleSteps(steps) ==
  [i \in Slots |-> IF steps[i] = "running" THEN "failed" ELSE steps[i]]

-----------------------------------------------------------------------------
(* Runs and scenes.                                                        *)

Kinds == {"chat", "workflow", "external", "continuation"}
EndStatus == {"completed", "canceled", "failed", "interrupted"}

SceneState == [run: Runs \cup {NoRun}, status: {"none", "running"} \cup EndStatus,
               closed: BOOLEAN, since: SUBSET Runs]

Record == [status: {"absent", "running"} \cup EndStatus,
           scene: Scenes \cup {Elsewhere}, kind: Kinds, rev: Nat,
           checkpoint: SUBSET Slots, source: Runs \cup {NoRun}, sourceRev: Nat,
           sourceCheckpoint: SUBSET Slots, selected: SUBSET Slots]

NoRecord == [status |-> "absent", scene |-> Elsewhere, kind |-> "chat", rev |-> 0,
             checkpoint |-> {}, source |-> NoRun, sourceRev |-> 0,
             sourceCheckpoint |-> {}, selected |-> {}]

NewRecord(s, k) == [NoRecord EXCEPT !.status = "running", !.scene = s, !.kind = k,
                                    !.rev = 1]

Running(s) == scenes[s].status = "running"

\* A scene with its next run, and a scene whose conversation was cleared.
Occupied(scn, r) ==
  [scn EXCEPT !.run = r, !.status = "running", !.since = @ \cup {r}]
Emptied(scn) == [scn EXCEPT !.run = NoRun, !.status = "none", !.since = {}]

\* live(): the run is its open scene's running run and its record is running.
Live(r) ==
  /\ record[r].status = "running"
  /\ LET s == record[r].scene IN
       /\ ~scenes[s].closed
       /\ scenes[s].run = r
       /\ Running(s)

\* A lease names a receipt and carries its nonce; only the process that created
\* the receipt knows it.
Leased(r, i) == r \in held /\ event[r][i].phase # "absent"

-----------------------------------------------------------------------------
(* What every transaction ends with.                                       *)

\* bump(): every transaction that rewrites receipts moves the revision.
Bump_CheckpointOnly(rec, evs) == [rec EXCEPT !.checkpoint = SettledPrefix(evs)]
Bump(rec, evs) == [rec EXCEPT !.rev = @ + 1, !.checkpoint = SettledPrefix(evs)]

\* Once the run ended, its trace is archived with the question and late receipts
\* are corrected there.
Archived_Never(r) == FALSE
Archived(r) == record[r].status # "running"

\* A transaction that rewrote receipts of run r: the rows are saved, the trace
\* of each rewritten tool receipt follows it, and bump() moves the revision and
\* the checkpoint.
Write(r, evs) ==
  LET s == record[r].scene
      changed == {i \in Slots : evs[i] # event[r][i]}
  IN /\ event' = [event EXCEPT ![r] = evs]
     /\ record' = [record EXCEPT ![r] = Bump(@, evs)]
     /\ liveSteps' = IF scenes[s].run = r
                     THEN [liveSteps EXCEPT ![s] = Sync(@, evs, changed)]
                     ELSE liveSteps
     /\ toolSteps' = IF Archived(r)
                     THEN [toolSteps EXCEPT ![r] = Sync(@, evs, changed)]
                     ELSE toolSteps
     /\ UNCHANGED <<up, held, active, scenes, server>>

\* A transaction that ends the runs of the scenes in S with `status`, starting
\* from the scenes scs, records recs and receipts evs the operation itself
\* wrote: settle_steps and archive_steps by the operation, then
\* on_snapshot_change settles every pending receipt, corrects the trace, and
\* bumps the record.
EndRuns(S, status, scs, recs, evs) ==
  LET ended == {r \in Runs : recs[r].status = "running" /\ \E s \in S : scs[s].run = r}
      final == [r \in Runs |-> IF r \in ended
                               THEN [i \in Slots |-> SettleAtEnd(evs[r][i])]
                               ELSE evs[r]]
      steps(s) == Sync(SettleSteps(liveSteps[s]), final[scs[s].run], Slots)
  IN /\ scenes' = [s \in Scenes |-> IF s \in S THEN [scs[s] EXCEPT !.status = status]
                                               ELSE scs[s]]
     /\ event' = final
     /\ record' = [r \in Runs |->
                     IF r \in ended
                     THEN [Bump(recs[r], final[r]) EXCEPT !.status = status]
                     ELSE recs[r]]
     /\ liveSteps' = [s \in Scenes |-> IF s \in S THEN steps(s) ELSE liveSteps[s]]
     /\ toolSteps' = [r \in Runs |-> IF r \in ended THEN steps(recs[r].scene)
                                                    ELSE toolSteps[r]]

-----------------------------------------------------------------------------
(* Starting and ending runs (store.rs).                                    *)

\* begin_run, begin_workflow, begin_external_run: the question is appended, the
\* scene's previous run is replaced and on_snapshot_change opens a record.
BeginRun(s, r, k) ==
  /\ up
  /\ ~scenes[s].closed /\ ~Running(s)
  /\ record[r].status = "absent"
  /\ scenes' = [scenes EXCEPT ![s] = Occupied(@, r)]
  /\ record' = [record EXCEPT ![r] = NewRecord(s, k)]
  /\ liveSteps' = [liveSteps EXCEPT ![s] = NoSteps]
  /\ held' = held \cup {r}
  /\ UNCHANGED <<up, permit, effects, active, toolSteps, event, server>>

\* finish_run, fail_run and cancel_run settle one running scene.
EndRun(s, status) ==
  /\ up
  /\ Running(s)
  /\ status = "canceled" \/ ~scenes[s].closed
  /\ EndRuns({s}, status, scenes, record, event)
  /\ UNCHANGED <<hostVars, active, server>>

\* Changing a connection, a memory provider, binding or policy, or switching an
\* agent's memory off cancels every run that depends on it in the same commit.
RevokeRuns(S) ==
  /\ up
  /\ S # {} /\ \A s \in S : Running(s)
  /\ EndRuns(S, "canceled", scenes, record, event)
  /\ UNCHANGED <<hostVars, active, server>>

\* CloseScene cancels the scene's own run first.
RunsOf_None(s) == {}
RunsOf(s) == IF Running(s) THEN {s} ELSE {}

CloseScene(s) ==
  /\ up
  /\ ~scenes[s].closed
  /\ EndRuns(RunsOf(s), "canceled",
             [scenes EXCEPT ![s].closed = TRUE], record, event)
  /\ active' = IF active = s THEN Elsewhere ELSE active
  /\ UNCHANGED <<hostVars, server>>

ActivateScene(s) ==
  /\ up
  /\ active # s
  /\ scenes' = [scenes EXCEPT ![s].closed = FALSE]
  /\ active' = s
  /\ UNCHANGED <<hostVars, traceVars, record, event, server>>

\* NewScene, or FreezeScene on the active one: another scene becomes active.
LeaveScene ==
  /\ up
  /\ active # Elsewhere
  /\ active' = Elsewhere
  /\ UNCHANGED <<hostVars, traceVars, scenes, record, event, server>>

NewConversation(s) ==
  /\ up
  /\ active = s
  /\ ~scenes[s].closed /\ ~Running(s)
  /\ scenes[s].run # NoRun
  /\ scenes' = [scenes EXCEPT ![s] = Emptied(@)]
  /\ liveSteps' = [liveSteps EXCEPT ![s] = NoSteps]
  /\ UNCHANGED <<hostVars, active, toolSteps, record, event, server>>

-----------------------------------------------------------------------------
(* Receipts of model requests and tool calls (journal_store.rs).           *)

BeginModelRequest(r, n) ==
  /\ up /\ r \in held /\ Live(r)
  /\ \A i \in Slots : ~(event[r][i].kind = "model" /\ event[r][i].round = n)
  /\ \E last \in 0..(MaxEvents - 1) :
       /\ IsLast(event[r], last)
       /\ Write(r, [event[r] EXCEPT ![last + 1] = ModelEvent(n)])
       /\ permit' = permit \cup {<<r, last + 1>>}
  /\ UNCHANGED effects

\* A proposed call that arrives after its run ended is recorded as never sent.
ProposedPhase_Always(r) == "prepared"
ProposedPhase(r) == IF record[r].status = "running" THEN "prepared" ELSE "notsent"

\* The answer to request i, followed by a receipt for each call it proposes.
WithTurn(r, i, last, calls, selectable) ==
  [j \in Slots |->
     IF j = i THEN [event[r][i] EXCEPT !.phase = "responded", !.selectable = selectable]
     ELSE IF j \in (last + 1)..(last + Len(calls))
     THEN ToolEvent(event[r][i].round, ProposedPhase(r), calls[j - last])
     ELSE event[r][j]]

\* record_model_turn accepts an answer to a request that is still open or whose
\* outcome had been given up, even after the run ended, and records the calls
\* the model proposed, each with the server revision its binding was built from.
\* The turn was observed, so the request has left.
RecordModelTurn(r, i, calls, selectable) ==
  /\ up /\ Leased(r, i)
  /\ event[r][i].kind = "model" /\ Answerable(event[r][i])
  /\ <<r, i>> \notin permit
  /\ Len(calls) <= MaxCalls
  /\ \E last \in 0..(MaxEvents - Len(calls)) :
       /\ IsLast(event[r], last)
       /\ Write(r, WithTurn(r, i, last, calls, selectable))
  /\ UNCHANGED <<permit, effects>>

\* The MCP server still is the one, at the revision, the call was bound to, and
\* still grants the tool to the run's agent.
Granted(r, e) ==
  /\ server.present /\ server.enabled
  /\ server.rev = e.serverRev
  /\ AgentOf[record[r].scene] \in server.grants

\* A continuation may propose calls, but never makes one.
MayAct_AnyKind(r) == TRUE
MayAct(r) == record[r].kind # "continuation"

\* mark_tool_dispatched, and mark_extension_tool_dispatched for the calls bound
\* to an extension: from here on the host may perform the call.
MarkToolDispatched(r, i) ==
  /\ up /\ Leased(r, i) /\ Live(r)
  /\ Unsent(event[r][i]) /\ InBudget(event[r]) /\ MayAct(r)
  /\ event[r][i].binding # "rejected"
  /\ event[r][i].binding = "mcp" => Granted(r, event[r][i])
  /\ Write(r, [event[r] EXCEPT ![i].phase = "dispatched"])
  /\ permit' = permit \cup {<<r, i>>}
  /\ UNCHANGED effects

\* The host performs a request it was granted: it leaves the process once.
Perform(r, i) ==
  /\ up /\ <<r, i>> \in permit
  /\ permit' = permit \ {<<r, i>>}
  /\ effects' = [effects EXCEPT ![r][i] = @ + 1]
  /\ UNCHANGED <<up, held, active, scenes, traceVars, record, event, server>>

RecordToolNotSent(r, i) ==
  /\ up /\ Leased(r, i)
  /\ Unsent(event[r][i])
  /\ Write(r, [event[r] EXCEPT ![i].phase = "notsent"])
  /\ UNCHANGED <<permit, effects>>

\* The host gave up waiting, or the answer was incomplete.
RecordRequestUnknown(r, i) ==
  /\ up /\ Leased(r, i)
  /\ event[r][i].phase = "dispatched"
  /\ Write(r, [event[r] EXCEPT ![i].phase = "unknown"])
  /\ permit' = permit \ {<<r, i>>}
  /\ UNCHANGED effects

Answered(e, reply) ==
  [e EXCEPT !.phase = "responded", !.answer = reply.answer,
            !.selectable = reply.selectable]
LocalResult == [answer |-> "ok", selectable |-> TRUE]

\* record_tool_response, also for an answer that arrives after the run ended.
RecordToolResponse(r, i, reply) ==
  /\ up /\ Leased(r, i)
  /\ event[r][i].kind = "tool" /\ Answerable(event[r][i])
  /\ Write(r, [event[r] EXCEPT ![i] = Answered(@, reply)])
  /\ permit' = permit \ {<<r, i>>}
  /\ UNCHANGED effects

\* A mutation of the Store itself commits together with its receipt:
\* apply_local_memory, queue_external_quote and the annotation batches.  Only
\* chats and workflows carry the authority such a mutation needs.
LocalCommit(r, i) ==
  /\ up /\ Leased(r, i) /\ Live(r)
  /\ Unsent(event[r][i])
  /\ event[r][i].binding = "local"
  /\ record[r].kind \in {"chat", "workflow"}
  /\ InBudget(event[r])
  /\ Write(r, [event[r] EXCEPT ![i] = Answered(@, LocalResult)])
  /\ effects' = [effects EXCEPT ![r][i] = @ + 1]
  /\ UNCHANGED permit

\* forget_external_evidence_with_receipt cancels every run that uses the memory
\* binding, its own included, and still records its own receipt: the answer is
\* written and bumped first, then the outer transaction settles the rest.
ForgetWithReceipt(r, i, S) ==
  /\ up /\ Leased(r, i) /\ Live(r)
  /\ Unsent(event[r][i])
  /\ event[r][i].binding = "local"
  /\ record[r].kind = "chat"
  /\ InBudget(event[r])
  /\ record[r].scene \in S /\ \A s \in S : Running(s)
  /\ LET evs == [event[r] EXCEPT ![i] = Answered(@, LocalResult)]
     IN EndRuns(S, "canceled", scenes, [record EXCEPT ![r] = Bump(@, evs)],
                [event EXCEPT ![r] = evs])
  /\ effects' = [effects EXCEPT ![r][i] = @ + 1]
  /\ UNCHANGED <<up, held, permit, active, server>>

-----------------------------------------------------------------------------
(* Continuing from a record.                                               *)

\* blocked() and projection_plan(): the source is settled and is a question of
\* the scene's current conversation, and the selected evidence is its own.
Continuable(r) ==
  LET s == record[r].scene IN
  /\ record[r].status \in EndStatus
  /\ ~Running(s) /\ ~scenes[s].closed /\ active = s
  /\ r \in scenes[s].since
  /\ record[r].kind # "external"

Selectable(evs) == {i \in Slots : evs[i].selectable}

\* canonical(): continuing a continuation continues its original source.
Canonical(r) == IF record[r].source = NoRun THEN r ELSE record[r].source

BeginContinuation(from, new, selected) ==
  LET src == Canonical(from)
      s == record[src].scene
  IN /\ up
     /\ record[from].status # "absent" /\ record[new].status = "absent"
     /\ Continuable(src)
     /\ selected # {} /\ selected \subseteq Selectable(event[src])
     /\ scenes' = [scenes EXCEPT ![s] = Occupied(@, new)]
     /\ record' = [record EXCEPT ![new] =
                     [NewRecord(s, "continuation") EXCEPT
                        !.source = src, !.sourceRev = record[src].rev,
                        !.sourceCheckpoint = record[src].checkpoint,
                        !.selected = selected]]
     /\ liveSteps' = [liveSteps EXCEPT ![s] = NoSteps]
     /\ held' = held \cup {new}
     /\ UNCHANGED <<up, permit, effects, active, toolSteps, event, server>>

-----------------------------------------------------------------------------
(* The MCP server's registration (store.rs).                               *)

\* Every change of a registration takes a new revision and cancels the runs of
\* every agent that was granted any of its tools.
Relying_AfterTheChange(changed) ==
  {s \in Scenes : Running(s) /\ AgentOf[s] \in changed.grants}
Relying(changed) == {s \in Scenes : Running(s) /\ AgentOf[s] \in server.grants}

ChangeServer(changed) ==
  /\ up /\ server.present
  /\ server' = changed
  /\ EndRuns(Relying(changed), "canceled", scenes, record, event)
  /\ UNCHANGED <<hostVars, active>>

\* upsert_mcp_server: rediscovery revokes every grant.
RediscoverServer ==
  /\ server.rev < MaxServerRevision
  /\ ChangeServer([server EXCEPT !.rev = @ + 1, !.grants = {}])

SetMcpGrants(a, granted) ==
  /\ (a \in server.grants) # granted
  /\ server.rev < MaxServerRevision
  /\ ChangeServer([server EXCEPT !.rev = @ + 1,
                                 !.grants = IF granted THEN @ \cup {a} ELSE @ \ {a}])

SetMcpEnabled(enabled) ==
  /\ server.enabled # enabled
  /\ server.rev < MaxServerRevision
  /\ ChangeServer([server EXCEPT !.rev = @ + 1, !.enabled = enabled])

RemoveMcpServer ==
  ChangeServer([server EXCEPT !.present = FALSE])

-----------------------------------------------------------------------------
(* The process.                                                            *)

\* The process ends, at any point: leases and grants are only in its memory.
Crash ==
  /\ up
  /\ up' = FALSE /\ held' = {} /\ permit' = {}
  /\ UNCHANGED <<effects, active, scenes, traceVars, record, event, server>>

\* Store::open fails the runs that were live and lets on_snapshot_change settle
\* their receipts, before anything else can read the Store.
Open ==
  /\ ~up
  /\ up' = TRUE
  /\ EndRuns({s \in Scenes : Running(s)}, "interrupted", scenes, record, event)
  /\ UNCHANGED <<held, permit, effects, active, server>>

-----------------------------------------------------------------------------
(* The specification.                                                      *)

\* The calls a model may propose: their binding and, for a tool of the server,
\* the revision of the registration the host advertised it from.
Calls == {c \in [binding: Bindings, serverRev: 0..MaxServerRevision] :
            IF c.binding = "mcp" THEN c.serverRev \in 1..server.rev
                                 ELSE c.serverRev = 0}

Init ==
  /\ up = TRUE /\ held = {} /\ permit = {}
  /\ effects = [r \in Runs |-> [i \in Slots |-> 0]]
  /\ active \in Scenes
  /\ scenes = [s \in Scenes |-> [run |-> NoRun, status |-> "none",
                                 closed |-> FALSE, since |-> {}]]
  /\ liveSteps = [s \in Scenes |-> NoSteps]
  /\ toolSteps = [r \in Runs |-> NoSteps]
  /\ record = [r \in Runs |-> NoRecord]
  /\ event = [r \in Runs |-> [i \in Slots |-> NoEvent]]
  /\ server = [present |-> TRUE, enabled |-> TRUE, rev |-> 1, grants |-> Agents]

SceneAction ==
  \/ \E s \in Scenes, r \in Runs, k \in StartKinds : BeginRun(s, r, k)
  \/ \E s \in Scenes, status \in Endings : EndRun(s, status)
  \/ \E S \in SUBSET Scenes : RevokeRuns(S)
  \/ \E s \in Scenes : CloseScene(s)
  \/ \E s \in Scenes : ActivateScene(s)
  \/ LeaveScene
  \/ \E s \in Scenes : NewConversation(s)
  \/ \E from, new \in Runs, selected \in SUBSET Slots : BeginContinuation(from, new, selected)

ReceiptAction ==
  \/ \E r \in Runs, n \in Rounds : BeginModelRequest(r, n)
  \/ \E r \in Runs, i \in Slots, n \in 0..MaxCalls, selectable \in BOOLEAN :
       \E calls \in [1..n -> Calls] : RecordModelTurn(r, i, calls, selectable)
  \/ \E r \in Runs, i \in Slots : MarkToolDispatched(r, i)
  \/ \E r \in Runs, i \in Slots : Perform(r, i)
  \/ \E r \in Runs, i \in Slots : RecordToolNotSent(r, i)
  \/ \E r \in Runs, i \in Slots : RecordRequestUnknown(r, i)
  \/ \E r \in Runs, i \in Slots, reply \in Replies : RecordToolResponse(r, i, reply)
  \/ \E r \in Runs, i \in Slots : LocalCommit(r, i)
  \/ \E r \in Runs, i \in Slots, S \in SUBSET Scenes : ForgetWithReceipt(r, i, S)

ServerAction ==
  \/ RediscoverServer
  \/ \E a \in Agents, granted \in BOOLEAN : SetMcpGrants(a, granted)
  \/ \E enabled \in BOOLEAN : SetMcpEnabled(enabled)
  \/ RemoveMcpServer

Next == SceneAction \/ ReceiptAction \/ ServerAction \/ Crash \/ Open

Spec == Init /\ [][Next]_vars

-----------------------------------------------------------------------------
(* Properties.                                                             *)

TypeOK ==
  /\ up \in BOOLEAN
  /\ held \subseteq Runs
  /\ permit \subseteq Runs \X Slots
  /\ effects \in [Runs -> [Slots -> Nat]]
  /\ active \in Scenes \cup {Elsewhere}
  /\ scenes \in [Scenes -> SceneState]
  /\ liveSteps \in [Scenes -> [Slots -> StepStatus]]
  /\ toolSteps \in [Runs -> [Slots -> StepStatus]]
  /\ record \in [Runs -> Record]
  /\ event \in [Runs -> [Slots -> Event]]
  /\ server \in [present: BOOLEAN, enabled: BOOLEAN, rev: Nat, grants: SUBSET Agents]

\* The two places that say a run is running, the scene's run and the journal's
\* record, never disagree, and a closed scene has no running run.
RunningAgrees ==
  /\ \A s \in Scenes : Running(s) => /\ ~scenes[s].closed
                                     /\ scenes[s].run \in Runs
                                     /\ record[scenes[s].run].scene = s
                                     /\ record[scenes[s].run].status = "running"
  /\ \A r \in Runs : record[r].status = "running" => Live(r)

\* A receipt is open only while its run is (what journal.rs validate() demands
\* of every database it opens), and the stored checkpoint is always exactly the
\* settled prefix of the receipts.
JournalValid ==
  \A r \in Runs :
    /\ \A i \in Slots : Pending(event[r][i]) => record[r].status = "running"
    /\ record[r].checkpoint = SettledPrefix(event[r])

\* A call the journal says was never sent had no effect, and never will: not
\* after a cancellation between the grant and the request, not after a crash.
NotSentIsTrue ==
  \A r \in Runs, i \in Slots :
    event[r][i].phase \in {"absent", "prepared", "notsent"} =>
      effects[r][i] = 0 /\ <<r, i>> \notin permit

\* No request leaves twice, whatever is retried, answered late or recovered.
AtMostOnce ==
  \A r \in Runs, i \in Slots :
    effects[r][i] + (IF <<r, i>> \in permit THEN 1 ELSE 0) <= 1

\* A continuation answers from evidence: none of its calls is ever dispatched.
ContinuationNeverActs ==
  \A r \in Runs, i \in Slots :
    record[r].kind = "continuation" /\ event[r][i].kind = "tool" =>
      event[r][i].phase \in {"prepared", "notsent"}

\* While a call to the MCP server is in flight for a live run, the registration
\* it was granted under is still in force: every change of the registration
\* canceled the runs that relied on it.
NoCallUnderOldGrant ==
  \A r \in Runs, i \in Slots :
    record[r].status = "running" /\ event[r][i].phase = "dispatched"
      /\ event[r][i].binding = "mcp" => Granted(r, event[r][i])

\* At most the budget of calls may have been sent, and one request per round.
WithinBudget ==
  \A r \in Runs :
    /\ Cardinality({i \in Slots : Charged(event[r][i])}) <= ToolBudget
    /\ \A i, j \in Slots :
         event[r][i].kind = "model" /\ event[r][j].kind = "model"
           /\ event[r][i].round = event[r][j].round => i = j

\* The trace shown to the user never disagrees with the receipts: neither the
\* live one nor, once the run ended, the one archived with the question, which
\* late answers still correct after the next run replaced the scene's run.
TraceAgrees ==
  \A r \in Runs, i \in Slots :
    event[r][i].kind = "tool" =>
      /\ scenes[record[r].scene].run = r =>
           liveSteps[record[r].scene][i] = StatusOf(event[r][i])
      /\ record[r].status \in EndStatus => toolSteps[r][i] = StatusOf(event[r][i])

\* What a continuation was built from stays true of its source, whatever late
\* answers the source still receives (the checks validate() makes on opening).
ProvenanceValid ==
  \A r \in Runs :
    record[r].kind = "continuation" =>
      LET src == record[r].source IN
      /\ src \in Runs /\ record[src].kind # "continuation"
      /\ record[src].scene = record[r].scene
      /\ record[r].sourceRev <= record[src].rev
      /\ record[r].sourceCheckpoint \subseteq record[src].checkpoint
      /\ record[r].selected \subseteq Selectable(event[src])

\* Rewriting a run's receipts always moves its revision, so that a reader who
\* saw revision n and continues from it is refused if anything has changed; a
\* checkpoint never loses what it covered, and a final receipt is never touched.
JournalMonotone ==
  [][\A r \in Runs :
       /\ event'[r] # event[r] => record'[r].rev > record[r].rev
       /\ record[r].checkpoint \subseteq record'[r].checkpoint
       /\ \A i \in Slots : event[r][i].phase \in {"responded", "notsent"} =>
            event'[r][i] = event[r][i]]_vars

\* The journal implements the abstract ledger of requests: whatever the host, a
\* cancellation or a crash does, each receipt only moves as CallLedger allows.
SaysOf(e) ==
  CASE e.phase = "absent"                     -> "nothing"
    [] e.phase = "prepared"                   -> "open"
    [] e.phase = "notsent"                    -> "never"
    [] e.phase \in {"dispatched", "unknown"}  -> "sent"
    [] e.phase = "responded"                  -> "answered"

EntryOf(r, i) == [says |-> SaysOf(event[r][i]), may |-> <<r, i>> \in permit,
                  done |-> effects[r][i]]
LedgerOf == [c \in Runs \X Slots |-> EntryOf(c[1], c[2])]

Ledger == INSTANCE CallLedger WITH Requests <- Runs \X Slots, ledger <- LedgerOf
ImplementsLedger == Ledger!Spec

=============================================================================
