----------------------------- MODULE HookQueue -----------------------------
(***************************************************************************)
(* The hooks engine: rules that the user saved run their actions when an   *)
(* event arrives.  A worker takes events from a bounded queue, a test run  *)
(* starts on a click, and an exit runs the app.beforeQuit rules before it  *)
(* drains the engine.  Each of them goes through execute, which waits for  *)
(* a slot, claims a run in the rule store, registers the job and then asks *)
(* before every action whether it still may.                               *)
(*                                                                         *)
(* Meanwhile the user edits rules, stops jobs and disables the plugin, and *)
(* an exit pauses, drains and resumes or ends the engine.  None of these   *)
(* waits for the jobs: they leave flags that the jobs must notice, and the *)
(* job that is not registered yet sees no flag at all.                     *)
(*                                                                         *)
(* Time is not modelled: whatever has a deadline may give up at any step   *)
(* at which it waits.                                                      *)
(***************************************************************************)
EXTENDS Naturals, Sequences, FiniteSets

CONSTANTS Rules,
          Trigger,         \* of a rule: "key" (a shortcut or a schedule), "event"
                           \* or "quit" (app.beforeQuit)
          Tests,           \* test runs from the settings window
          Worker, Quit,    \* event_worker, and the task of before_quit
          Slots,           \* permits for jobs (mod.rs:193)
          Capacity,        \* of the event queue (mod.rs:174)
          MaxActions,      \* actions of a rule
          MaxInputs,       \* events from outside, changes of the rules and of the
                           \* plugin's grant, and requests to exit, together
          None

ASSUME HookQueueAssumption ==
  /\ Trigger \in [Rules -> {"key", "event", "quit"}]
  /\ Worker # Quit /\ {Worker, Quit} \cap Tests = {}
  /\ None \notin Rules \cup (Rules \X Nat)
  /\ Slots \in Nat \ {0} /\ Capacity \in Nat \ {0}
  /\ MaxActions \in Nat /\ MaxInputs \in Nat

\* Shared
VARIABLES enabled, generation, quitting, stop,
          queue, pending,  \* events that wait, and the keys among them and in hand
          reconciling      \* what a change of the grant has still to do

\* The rule store
VARIABLES rules,
          editing          \* a rule saved or removed whose jobs are not cancelled yet

\* Those who execute a rule, and an action that outlived the future that began it
VARIABLES task, loose

\* The exit, as the engine sees it
VARIABLES exit

\* Bound
VARIABLE inputs

engineVars == <<enabled, generation, quitting, stop, reconciling>>
queueVars  == <<queue, pending>>
storeVars  == <<rules, editing>>
vars == <<engineVars, queueVars, storeVars, task, loose, exit, inputs>>

Input == inputs < MaxInputs /\ inputs' = inputs + 1
OnlyTask == UNCHANGED <<engineVars, queueVars, storeVars, loose, exit, inputs>>

Tasks == Tests \cup {Worker, Quit}

Acting     == {"act", "emit"}                       \* past the fence
Registered == Acting \cup {"run", "fence"}          \* in the jobs map
Claimed    == Registered \cup {"insert"}            \* its row says running
Holding    == Claimed \cup {"claim"}                \* has a permit
States     == Holding \cup {"idle", "next", "slot", "done"}

Keys == (Rules \X Nat) \cup {None}
Jobs == [at : States, rule : Rules \cup {None}, rev : Nat, gen : Nat, from : SUBSET Rules,
         key : Keys, todo : SUBSET (Rules \X Nat), cancel : BOOLEAN,
         acts : Nat, dead : BOOLEAN]
Orphans == [at : {"fence", "act"}, rule : Rules, rev : Nat, gen : Nat, cancel : BOOLEAN,
            input : BOOLEAN]

\* Between two rules, with a list of rules to run and the event they run for
List(at, gen, from, key, todo) ==
  [at |-> at, rule |-> None, rev |-> 0, gen |-> gen, from |-> from, key |-> key,
   todo |-> todo, cancel |-> FALSE, acts |-> 0, dead |-> FALSE]
Idle == List("idle", 0, {}, None, {})
----------------------------------------------------------------------------
\* What a job must ask

Reserved == exit # "open"

Open_DespiteExit == enabled /\ ~stop

\* require
Open == enabled /\ ~stop /\ ~Reserved

\* check_admission
Admitted(j) == Open /\ j.gen = generation /\ (quitting => Trigger[j.rule] = "quit")

Current(j) == rules[j.rule] = [rev |-> j.rev, on |-> TRUE]

MayRun_AnyRevision(j) == Admitted(j) /\ ~j.cancel

\* Execution::check and Fence::check, whose deadline is left to the actions
MayRun(j) == Admitted(j) /\ ~j.cancel /\ Current(j)

Running(r)  == \E t \in Tasks : task[t].rule = r /\ task[t].at \in Claimed
FreeSlot    == Cardinality({t \in Tasks : task[t].at \in Holding}) < Slots

\* The flag of the registered jobs of some rules, and the jobs that these calls end
CancelJobs(R) ==
  [t \in Tasks |-> IF task[t].at \in Registered /\ task[t].rule \in R
                   THEN [task[t] EXCEPT !.cancel = TRUE] ELSE task[t]]
Dead(j, stopped) == IF j.rule # None /\ stopped THEN [j EXCEPT !.dead = TRUE] ELSE j
----------------------------------------------------------------------------
\* Events

Offer_Waiting(item) ==
  /\ Len(queue) < Capacity
  /\ queue' = Append(queue, item)
  /\ pending' = pending \cup ({item.key} \ {None})

\* emit: try_send, which drops the event when the queue is full
Offer(item) ==
  IF Len(queue) < Capacity
  THEN /\ queue' = Append(queue, item)
       /\ pending' = pending \cup ({item.key} \ {None})
  ELSE UNCHANGED <<queue, pending>>

Item(key, from) == [key |-> key, gen |-> generation, from |-> from]

Emits == Open /\ ~quitting

\* A shortcut or a schedule: one event at a time for a revision of a rule
Press(r) ==
  /\ Emits /\ Trigger[r] = "key" /\ rules[r].on
  /\ <<r, rules[r].rev>> \notin pending
  /\ Offer(Item(<<r, rules[r].rev>>, {}))
  /\ Input
  /\ UNCHANGED <<engineVars, storeVars, task, loose, exit>>

\* Any other event of the program: lifecycle, run_finished, plugin_event, tool_settled
Notice ==
  /\ Emits
  /\ Offer(Item(None, {}))
  /\ Input
  /\ UNCHANGED <<engineVars, storeVars, task, loose, exit>>

\* Rule::matches, over the rules as the caller reads them
Matching(kind, item) ==
  {<<r, rules[r].rev>> : r \in {q \in Rules : /\ rules[q].on /\ q \notin item.from
                                              /\ Trigger[q] = kind
                                              /\ kind = "key" => item.key = <<q, rules[q].rev>>}}

KindOf(item) == IF item.key = None THEN "event" ELSE "key"

Take ==
  /\ task[Worker].at = "idle" /\ ~stop /\ queue # <<>>
  /\ LET item == Head(queue) IN
       IF Open /\ item.gen = generation
       THEN /\ task' = [task EXCEPT ![Worker] =
                 List("next", item.gen, item.from, item.key, Matching(KindOf(item), item))]
            /\ UNCHANGED pending
       ELSE pending' = pending \ {item.key} /\ UNCHANGED task
  /\ queue' = Tail(queue)
  /\ UNCHANGED <<engineVars, storeVars, loose, exit, inputs>>

\* The job of the next rule of a list.  dead is history: the call that stopped this job,
\* or changed its rule or the grant before the list was read, has returned.
Job(l, p) ==
  [l EXCEPT !.at = "slot", !.rule = p[1], !.rev = p[2], !.todo = @ \ {p},
            !.dead = \/ reconciling = "no" /\ l.gen # generation
                     \/ editing # p[1] /\ rules[p[1]] # [rev |-> p[2], on |-> TRUE]]

Start(t) ==
  /\ task[t].at = "next"
  /\ \E p \in task[t].todo :
       /\ Admitted(Job(task[t], p))
       /\ task' = [task EXCEPT ![t] = Job(task[t], p)]
  /\ OnlyTask

\* The worker leaves the list when it is done or no longer admitted, and frees the key.
Settle ==
  /\ task[Worker].at = "next"
  /\ \A p \in task[Worker].todo : ~Admitted(Job(task[Worker], p))
  /\ task' = [task EXCEPT ![Worker] = Idle]
  /\ pending' = pending \ {task[Worker].key}
  /\ UNCHANGED <<queue, engineVars, storeVars, loose, exit, inputs>>

\* run_hook: a test run of the revision that the window shows
Test(t, r) ==
  /\ task[t].at = "idle" /\ rules[r].on
  /\ LET j == Job(List("next", generation, {}, None, {}), <<r, rules[r].rev>>)
     IN Admitted(j) /\ task' = [task EXCEPT ![t] = j]
  /\ OnlyTask
----------------------------------------------------------------------------
\* execute

\* The caller goes on after one rule.
Returned(t) ==
  IF t \in Tests THEN List("done", 0, {}, None, {})
  ELSE List("next", task[t].gen, task[t].from, task[t].key, task[t].todo)

Goto(t, at) == [task EXCEPT ![t].at = at]
Return(t)   == [task EXCEPT ![t] = Returned(t)]

Acquire(t) ==
  /\ task[t].at = "slot" /\ FreeSlot
  /\ task' = IF Admitted(task[t]) THEN Goto(t, "claim") ELSE Return(t)
  /\ OnlyTask

SlotTimeout(t) ==
  /\ task[t].at = "slot"
  /\ task' = Return(t)
  /\ OnlyTask

\* Store::claim refuses an old revision, a rule that is running and, but for a test, one
\* that is cooling down.
Claimable(t) == Current(task[t]) /\ ~Running(task[t].rule)
Claim(t) ==
  /\ task[t].at = "claim"
  /\ \/ Claimable(t) /\ task' = Goto(t, "insert")
     \/ (Claimable(t) => t \notin Tests) /\ task' = Return(t)
  /\ OnlyTask

Insert(t) ==
  /\ task[t].at = "insert"
  /\ task' = Goto(t, "run")
  /\ OnlyTask

\* The check before an action, which then prepares its effect.
Dispatch(t) ==
  /\ task[t].at = "run" /\ task[t].acts < MaxActions
  /\ MayRun(task[t])
  /\ task' = Goto(t, "fence")
  /\ OnlyTask

\* The fence is asked again where the effect begins.  Whoever has read its flags may
\* still wait for the rule store (actions.rs:38) or for the Engine (actions.rs:107):
\* "act" is that wait and the effect.
Begin(t) ==
  /\ task[t].at = "fence"
  /\ MayRun(task[t])
  /\ \E at \in Acting : task' = Goto(t, at)
  /\ OnlyTask

Performed(t) == [task EXCEPT ![t].at = "run", ![t].acts = @ + 1]

\* The fence refuses, the deadline is over, or the action cannot be prepared.
Refuse(t) ==
  /\ task[t].at = "fence"
  /\ task' = Performed(t)
  /\ OnlyTask

Perform(t) ==
  /\ task[t].at = "act"
  /\ task' = Performed(t)
  /\ OnlyTask

\* An action that emits an event hands down its rule as an ancestor.
Emit(t) ==
  /\ task[t].at = "emit"
  /\ IF Emits THEN Offer(Item(None, task[t].from \cup {task[t].rule}))
              ELSE UNCHANGED queueVars
  /\ task' = Performed(t)
  /\ UNCHANGED <<engineVars, storeVars, loose, exit, inputs>>

\* The condition says no, a check fails, the deadline is over, an action failed, or all
\* are done: the row is finished, the permit returned and the job removed.
Finish(t) ==
  /\ task[t].at = "run"
  /\ task' = Return(t)
  /\ OnlyTask

\* The guard of a dropped future raises the flag, which a blocking thread shares.
Orphan(j, input) ==
  [at |-> j.at, rule |-> j.rule, rev |-> j.rev, gen |-> j.gen, cancel |-> TRUE,
   input |-> input]

\* before_quit drops the rule it waits for when its three seconds are over, and the
\* rest of its list.  What runs in a blocking thread goes on: input, or opening an
\* address or a program.
GiveUp ==
  /\ task[Quit].at \in {"slot", "run", "fence", "act"}
  /\ task' = [task EXCEPT ![Quit] = List("next", task[Quit].gen, {}, None, {})]
  /\ \/ UNCHANGED loose
     \/ /\ task[Quit].at \in {"fence", "act"} /\ loose = None     \* one is enough
        /\ \E input \in BOOLEAN : loose' = Orphan(task[Quit], input)
  /\ UNCHANGED <<engineVars, queueVars, storeVars, exit, inputs>>

\* Its fence is asked where the effect begins, and it ends by itself.
LooseBegins ==
  /\ loose # None /\ loose.at = "fence"
  /\ loose' = IF MayRun(loose) THEN [loose EXCEPT !.at = "act"] ELSE None
  /\ UNCHANGED <<engineVars, queueVars, storeVars, task, exit, inputs>>

LooseEnds ==
  /\ loose # None /\ loose.at = "act"
  /\ loose' = None
  /\ UNCHANGED <<engineVars, queueVars, storeVars, task, exit, inputs>>
----------------------------------------------------------------------------
\* The user: rules, jobs and the plugin

\* save and remove hold one lock until they have cancelled the rule's jobs.  A removed
\* rule is one that is disabled: its id is never given to another.
Save(r) ==
  /\ editing = None /\ Open
  /\ \E on \in BOOLEAN : rules' = [rules EXCEPT ![r] = [rev |-> @.rev + 1, on |-> on]]
  /\ editing' = r /\ Input
  /\ UNCHANGED <<engineVars, queueVars, task, loose, exit>>

CancelRule ==
  /\ editing # None
  /\ task' = [t \in Tasks |-> Dead(CancelJobs({editing})[t],
                                   task[t].rule = editing /\ ~Current(task[t]))]
  /\ editing' = None
  /\ UNCHANGED <<engineVars, queueVars, rules, loose, exit, inputs>>

\* cancel_hook
Cancel(t) ==
  /\ Open /\ task[t].at \in Registered
  /\ task' = [task EXCEPT ![t].cancel = TRUE, ![t].dead = TRUE]
  /\ OnlyTask

\* reconcile: a grant that is new, gone or another one
Regrant(on) ==
  /\ reconciling = "no" /\ ~stop /\ (enabled \/ on)
  /\ Input
  /\ generation' = generation + 1
  /\ reconciling' = IF on THEN "on" ELSE "off"
  /\ UNCHANGED <<enabled, quitting, stop, queueVars, storeVars, task, loose, exit>>

Switch ==
  /\ reconciling \in {"on", "off"}
  /\ enabled' = (reconciling = "on")
  /\ reconciling' = "cancel"
  /\ UNCHANGED <<generation, quitting, stop, queueVars, storeVars, task, loose, exit,
                 inputs>>

CancelAll == [t \in Tasks |-> Dead(CancelJobs(Rules)[t], task[t].gen # generation)]

Reconciled ==
  /\ reconciling = "cancel"
  /\ reconciling' = "no"
  /\ task' = CancelAll
  /\ UNCHANGED <<enabled, generation, quitting, stop, queueVars, storeVars, loose, exit,
                 inputs>>
----------------------------------------------------------------------------
\* The exit

\* pause, also the first step of drain
Pause == quitting' = TRUE
Paused == CancelJobs(Rules)

\* start_shutdown and before_quit: the rules are read once.
Ask ==
  /\ task[Quit].at = "idle"
  /\ enabled /\ ~stop /\ ~Reserved
  /\ Pause
  /\ task' = [Paused EXCEPT ![Quit] =
       List("next", generation, {}, None, Matching("quit", Item(None, {})))]
  /\ Input
  /\ UNCHANGED <<enabled, generation, stop, reconciling, queueVars, storeVars, loose, exit>>

Asked ==
  /\ task[Quit].at = "next"
  /\ \A p \in task[Quit].todo : ~Admitted(Job(task[Quit], p))

\* before_quit is over and cancels all jobs; start_shutdown_after_hooks reserves the exit
\* and pauses, or is refused and resumes.
Reserve ==
  /\ Asked /\ ~Reserved
  /\ exit' = "reserved" /\ Pause
  /\ task' = [Paused EXCEPT ![Quit] = Idle]
  /\ UNCHANGED <<enabled, generation, stop, reconciling, queueVars, storeVars, loose, inputs>>

Refused ==
  /\ Asked
  /\ quitting' = FALSE
  /\ task' = [Paused EXCEPT ![Quit] = Idle]
  /\ UNCHANGED <<enabled, generation, stop, reconciling, queueVars, storeVars, loose, exit,
                 inputs>>

\* A request that finds the hooks disabled reserves at once.
ReserveDirectly ==
  /\ ~enabled /\ ~stop /\ ~Reserved
  /\ Input /\ exit' = "reserved"
  /\ Pause /\ task' = Paused
  /\ UNCHANGED <<enabled, generation, stop, reconciling, queueVars, storeVars, loose>>

Drain ==
  /\ exit = "reserved"
  /\ exit' = "draining"
  /\ Pause /\ task' = Paused
  /\ UNCHANGED <<enabled, generation, stop, reconciling, queueVars, storeVars, loose, inputs>>

Drained ==
  /\ exit = "draining"
  /\ \A t \in Tasks : task[t].at \notin Registered
  /\ loose # None => ~loose.input
  /\ exit' = "drained"
  /\ UNCHANGED <<engineVars, queueVars, storeVars, task, loose, inputs>>

\* The drain's own timeout or a failure before or after it: abort resumes.
Abort ==
  /\ Reserved /\ ~stop
  /\ exit' = "open" /\ quitting' = FALSE
  /\ UNCHANGED <<enabled, generation, stop, reconciling, queueVars, storeVars, task, loose,
                 inputs>>

Shutdown ==
  /\ exit = "drained" /\ ~stop
  /\ stop' = TRUE /\ enabled' = FALSE /\ generation' = generation + 1
  /\ task' = [t \in Tasks |-> Dead(Paused[t], TRUE)]
  /\ UNCHANGED <<quitting, reconciling, queueVars, storeVars, loose, exit, inputs>>
----------------------------------------------------------------------------
Execute(t) ==
  \/ Acquire(t) \/ SlotTimeout(t) \/ Claim(t) \/ Insert(t) \/ Dispatch(t) \/ Begin(t)
  \/ Refuse(t) \/ Perform(t) \/ Emit(t) \/ Finish(t)

Init ==
  /\ enabled = TRUE /\ generation = 1 /\ quitting = FALSE /\ stop = FALSE
  /\ reconciling = "no"
  /\ queue = <<>> /\ pending = {} /\ inputs = 0
  /\ rules \in [Rules -> {[rev |-> 1, on |-> TRUE]}] /\ editing = None
  /\ task = [t \in Tasks |-> Idle] /\ loose = None
  /\ exit = "open"

Next ==
  \/ \E r \in Rules : Press(r) \/ Save(r)
  \/ Notice \/ Take \/ Settle
  \/ \E t \in {Worker, Quit} : Start(t)
  \/ \E t \in Tests, r \in Rules : Test(t, r)
  \/ \E t \in Tasks : Execute(t) \/ Cancel(t)
  \/ LooseBegins \/ LooseEnds \/ GiveUp \/ CancelRule
  \/ \E on \in BOOLEAN : Regrant(on)
  \/ Switch \/ Reconciled
  \/ Ask \/ Reserve \/ Refused \/ ReserveDirectly
  \/ Drain \/ Drained \/ Abort \/ Shutdown

Spec == Init /\ [][Next]_vars

\* The tasks and threads go on.  Nobody need press, save, test, cancel, exit or abort.
Fairness ==
  /\ \A t \in Tasks : WF_vars(Execute(t))
  /\ WF_vars(LooseBegins) /\ WF_vars(LooseEnds)
  /\ WF_vars(Take) /\ WF_vars(Settle) /\ WF_vars(Start(Worker))
  /\ WF_vars(Start(Quit)) /\ WF_vars(Reserve \/ Refused)

FairSpec == Spec /\ Fairness
----------------------------------------------------------------------------
TypeOK ==
  /\ {enabled, quitting, stop} \subseteq BOOLEAN
  /\ generation \in Nat \ {0}
  /\ reconciling \in {"no", "on", "off", "cancel"}
  /\ rules \in [Rules -> [rev : Nat, on : BOOLEAN]]
  /\ editing \in Rules \cup {None}
  /\ queue \in Seq([key : Keys, gen : Nat, from : SUBSET Rules])
  /\ pending \in SUBSET (Rules \X Nat)
  /\ task \in [Tasks -> Jobs] /\ loose \in Orphans \cup {None}
  /\ exit \in {"open", "reserved", "draining", "drained"}
  /\ inputs \in 0..MaxInputs

\* Once the call that edits or removes a rule, stops a job or withdraws the grant has
\* returned, the jobs it is about pass no further check: not the ones that wait for a
\* slot, not the one between its claim and its registration, which no flag reaches, and
\* not a blocking thread whose caller gave up (mod.rs:933, actions.rs:32).  An action
\* that had passed its last check by then may take effect afterwards.
StopsHold ==
  [][/\ \A t \in Tasks : task[t].at = "fence" /\ task'[t].at \in Acting => ~task[t].dead
     /\ loose # None /\ loose' # None => loose'.at = loose.at]_vars

\* A job that was admitted before the pause may be registered behind the drain, but it
\* does nothing there, app.beforeQuit or not; only what had begun in a blocking thread,
\* other than input, may still be under way (mod.rs:476).
QuietBehindDrain ==
  exit = "drained" => /\ \A t \in Tasks : task[t].at \notin Acting
                      /\ loose # None /\ loose.at = "act" => ~loose.input

\* If no more events come the engine comes to rest: every queued event is taken, every
\* key freed, every job ended and its row finished, whatever the rules emit themselves.
\* The worker that runs a rule is the one that empties the queue the rule emits into.
HooksSettle ==
  <>[](\/ stop
       \/ /\ queue = <<>> /\ pending = {}
          /\ \A t \in Tasks : task[t].at \in {"idle", "done"}
          /\ loose = None)
=============================================================================
