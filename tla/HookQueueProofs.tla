--------------------------- MODULE HookQueueProofs ---------------------------
(***************************************************************************)
(* Proofs about HookQueue, for every set of rules and test runs, every     *)
(* number of slots, actions and inputs and every length of the queue.      *)
(***************************************************************************)
EXTENDS HookQueue, TLAPS

USE DEF Input, OnlyTask, Goto, Return, Pause, Paused, engineVars, queueVars, storeVars

Items == [key : Keys, gen : Nat, from : SUBSET Rules]

\* Who executes a rule has one.
AtRest == {"idle", "next", "done"}
HasRule == \A t \in Tasks : task[t].rule = None <=> task[t].at \in AtRest

\* What keeps a stopped job from its next action
Doomed(j) == j.cancel \/ stop \/ j.gen # generation \/ (j.rule # None /\ ~Current(j))

\* What a job knows is as old as the rules and the grant, or older.
Aged(j) ==
  /\ j.gen <= generation
  /\ j.rule # None => j.rev <= rules[j.rule].rev
  /\ \A p \in j.todo : p[2] <= rules[p[1]].rev

Sound == \A t \in Tasks : Aged(task[t]) /\ (task[t].dead => Doomed(task[t]))
QuietTasks == exit = "drained" => \A t \in Tasks : task[t].at \notin Acting

TasksOK == task \in [Tasks -> Jobs] /\ HasRule /\ Sound /\ QuietTasks

LooseOK ==
  /\ loose \in Orphans \cup {None}
  /\ loose # None => loose.cancel
  /\ exit = "drained" /\ loose # None /\ loose.at = "act" => ~loose.input

IInv == TypeOK /\ TasksOK /\ LooseOK

\* The two halves of StopsHold
TasksHeld ==
  \A t \in Tasks : task[t].at = "fence" /\ task'[t].at \in Acting => ~task[t].dead
LooseHeld == loose # None /\ loose' # None => loose'.at = loose.at

LEMMA ListTyped ==
  ASSUME NEW at \in AtRest, NEW gen \in Nat, NEW from \in SUBSET Rules, NEW key \in Keys,
         NEW todo \in SUBSET (Rules \X Nat)
  PROVE  /\ List(at, gen, from, key, todo) \in Jobs
         /\ List(at, gen, from, key, todo).rule = None
         /\ List(at, gen, from, key, todo).at = at
         /\ List(at, gen, from, key, todo).gen = gen
         /\ List(at, gen, from, key, todo).todo = todo
         /\ ~List(at, gen, from, key, todo).dead
BY DEF List, Jobs, States, AtRest

LEMMA IdleTyped ==
  Idle \in Jobs /\ Idle.rule = None /\ Idle.at = "idle" /\ Idle.gen = 0 /\ Idle.todo = {} /\ ~Idle.dead
<1>1. "idle" \in AtRest /\ 0 \in Nat /\ {} \in SUBSET Rules /\ None \in Keys
      /\ {} \in SUBSET (Rules \X Nat)
  BY DEF AtRest, Keys
<1> QED
  BY <1>1, ListTyped DEF Idle

LEMMA JobTyped ==
  ASSUME NEW l \in Jobs, NEW p \in Rules \X Nat
  PROVE  /\ Job(l, p) \in Jobs /\ Job(l, p).at = "slot"
         /\ Job(l, p).rule = p[1] /\ Job(l, p).rev = p[2] /\ Job(l, p).gen = l.gen
         /\ Job(l, p).todo = l.todo \ {p}
         /\ Job(l, p).dead <=> \/ reconciling = "no" /\ l.gen # generation
                               \/ editing # p[1] /\ rules[p[1]] # [rev |-> p[2], on |-> TRUE]
<1> DEFINE d == \/ reconciling = "no" /\ l.gen # generation
                \/ editing # p[1] /\ rules[p[1]] # [rev |-> p[2], on |-> TRUE]
           l1 == [l EXCEPT !.at = "slot"]
           l2 == [l1 EXCEPT !.rule = p[1]]
           l3 == [l2 EXCEPT !.rev = p[2]]
           l4 == [l3 EXCEPT !.todo = @ \ {p}]
           l5 == [l4 EXCEPT !.dead = d]
<1>0. p[1] \in Rules /\ p[2] \in Nat /\ d \in BOOLEAN
  OBVIOUS
<1>1. Job(l, p) = l5
  BY DEF Job
<1> HIDE DEF d
<1>2. l1 \in Jobs /\ l1.at = "slot" /\ l1.gen = l.gen /\ l1.todo = l.todo
  BY DEF Jobs, States, Holding
<1>3. l2 \in Jobs /\ l2.at = "slot" /\ l2.gen = l.gen /\ l2.todo = l.todo /\ l2.rule = p[1]
  <2> HIDE DEF l1
  <2> QED
    BY <1>0, <1>2 DEF Jobs
<1>4. /\ l3 \in Jobs /\ l3.at = "slot" /\ l3.gen = l.gen /\ l3.todo = l.todo /\ l3.rule = p[1]
      /\ l3.rev = p[2]
  <2> HIDE DEF l2
  <2> QED
    BY <1>0, <1>3 DEF Jobs
<1>5. /\ l4 \in Jobs /\ l4.at = "slot" /\ l4.gen = l.gen /\ l4.todo = l.todo \ {p} /\ l4.rule = p[1]
      /\ l4.rev = p[2]
  <2> HIDE DEF l3
  <2> QED
    BY <1>0, <1>4 DEF Jobs
<1>6. /\ l5 \in Jobs /\ l5.at = "slot" /\ l5.gen = l.gen /\ l5.todo = l.todo \ {p} /\ l5.rule = p[1]
      /\ l5.rev = p[2] /\ l5.dead = d
  <2> HIDE DEF l4
  <2> QED
    BY <1>0, <1>5 DEF Jobs
<1> QED
  BY <1>1, <1>6 DEF d

LEMMA CancelTyped ==
  ASSUME task \in [Tasks -> Jobs], NEW R
  PROVE  /\ CancelJobs(R) \in [Tasks -> Jobs]
         /\ \A t \in Tasks : CancelJobs(R)[t].at = task[t].at /\ CancelJobs(R)[t].rule = task[t].rule
BY ZenonT(60) DEF CancelJobs, Jobs

LEMMA DeadTyped ==
  ASSUME NEW j \in Jobs, NEW stopped \in BOOLEAN
  PROVE  Dead(j, stopped) \in Jobs /\ Dead(j, stopped).at = j.at /\ Dead(j, stopped).rule = j.rule
BY DEF Dead, Jobs

LEMMA MatchingTyped ==
  ASSUME TypeOK, NEW kind, NEW item
  PROVE  Matching(kind, item) \in SUBSET (Rules \X Nat)
BY DEF Matching, TypeOK

LEMMA ReturnedTyped ==
  ASSUME TypeOK, NEW t \in Tasks
  PROVE  /\ Returned(t) \in Jobs /\ Returned(t).rule = None /\ Returned(t).at \in {"next", "done"}
         /\ ~Returned(t).dead
         /\ Returned(t).gen \in {0, task[t].gen} /\ Returned(t).todo \subseteq task[t].todo
<1>1. task[t] \in Jobs /\ "next" \in AtRest /\ "done" \in AtRest
  BY DEF TypeOK, AtRest
<1>2. CASE t \in Tests
  <2>1. Returned(t) = List("done", 0, {}, None, {})
    BY <1>2 DEF Returned
  <2>2. 0 \in Nat /\ {} \in SUBSET Rules /\ None \in Keys /\ {} \in SUBSET (Rules \X Nat)
    BY DEF Keys
  <2> QED
    BY <1>1, <2>1, <2>2, ListTyped
<1>3. CASE t \notin Tests
  <2>1. /\ task[t].gen \in Nat /\ task[t].from \in SUBSET Rules
        /\ task[t].key \in Keys /\ task[t].todo \in SUBSET (Rules \X Nat)
    BY <1>1 DEF Jobs
  <2>2. Returned(t) = List("next", task[t].gen, task[t].from, task[t].key, task[t].todo)
    BY <1>3 DEF Returned
  <2> QED
    BY <1>1, <2>1, <2>2, ListTyped
<1> QED
  BY <1>2, <1>3

LEMMA OfferTyped ==
  ASSUME TypeOK, NEW item \in Items, Offer(item)
  PROVE  queue' \in Seq(Items) /\ pending' \in SUBSET (Rules \X Nat)
<1>1. queue \in Seq(Items) /\ pending \in SUBSET (Rules \X Nat)
  BY DEF TypeOK, Items
<1>2. item.key \in Keys
  BY DEF Items
<1>3. CASE Len(queue) < Capacity
  <2>1. queue' = Append(queue, item) /\ pending' = pending \cup ({item.key} \ {None})
    BY <1>3 DEF Offer
  <2>2. queue' \in Seq(Items)
    BY <1>1, <2>1
  <2>3. pending' \in SUBSET (Rules \X Nat)
    BY <1>1, <1>2, <2>1 DEF Keys
  <2> QED
    BY <2>2, <2>3
<1>4. CASE ~(Len(queue) < Capacity)
  BY <1>1, <1>4 DEF Offer
<1> QED
  BY <1>3, <1>4
----------------------------------------------------------------------------
(* How a step may change the jobs: one goes on, or flags are raised.       *)

OnlyFlag(u) ==
  /\ task'[u].at = task[u].at /\ task'[u].rule = task[u].rule
  /\ task'[u].rev = task[u].rev /\ task'[u].gen = task[u].gen
  /\ task'[u].todo = task[u].todo
  /\ task[u].cancel => task'[u].cancel
  /\ task'[u].dead => task[u].dead \/ Doomed(task[u])'

Flagged == task' \in [Tasks -> Jobs] /\ \A u \in Tasks : OnlyFlag(u)

Alone(t, j) ==
  /\ task' \in [Tasks -> Jobs] /\ task'[t] = j
  /\ \A u \in Tasks \ {t} : OnlyFlag(u)

GoesOn(t, j) ==
  /\ Alone(t, j)
  /\ j \in Jobs /\ (j.rule = None <=> j.at \in AtRest)
  /\ Aged(j) /\ (j.dead => Doomed(j))
  /\ j.at \in Acting => /\ exit # "drained" /\ task[t].at = "fence" /\ ~task[t].dead

NoneDrained == exit' = "drained" => exit = "drained"

LEMMA Alone1 ==
  ASSUME TasksOK, NEW t \in Tasks, NEW j \in Jobs, task' = [task EXCEPT ![t] = j]
  PROVE  Alone(t, j)
BY DEF Alone, OnlyFlag, TasksOK

LEMMA FlagKeeps ==
  ASSUME TypeOK, TasksOK, NEW u \in Tasks, OnlyFlag(u), UNCHANGED rules,
         generation' \in Nat, generation <= generation', stop => stop'
  PROVE  Aged(task[u])' /\ (task'[u].dead => Doomed(task[u])')
<1>1. Aged(task[u]) /\ (task[u].dead => Doomed(task[u])) /\ task[u] \in Jobs
  BY DEF TasksOK, Sound
<1>2. task[u].gen \in Nat /\ generation \in Nat
  BY <1>1 DEF Jobs, TypeOK
<1>3. Aged(task[u])'
  BY <1>1, <1>2 DEF OnlyFlag, Aged
<1>4. Doomed(task[u]) => Doomed(task[u])'
  <2>1. task[u].gen # generation => task'[u].gen # generation'
    BY <1>1, <1>2 DEF OnlyFlag, Aged
  <2>2. task[u].cancel => task'[u].cancel
    BY DEF OnlyFlag
  <2>3. task[u].rule # None /\ ~Current(task[u]) => task'[u].rule # None /\ ~Current(task[u])'
    BY DEF OnlyFlag, Current
  <2> QED
    BY <2>1, <2>2, <2>3 DEF Doomed
<1> QED
  BY <1>1, <1>3, <1>4 DEF OnlyFlag

LEMMA FlaggedKeeps ==
  ASSUME TypeOK, TasksOK, Flagged, UNCHANGED rules, NoneDrained,
         generation' \in Nat, generation <= generation', stop => stop'
  PROVE  TasksOK' /\ TasksHeld
<1>1. HasRule' /\ QuietTasks' /\ TasksHeld
  BY DEF Flagged, OnlyFlag, TasksOK, HasRule, QuietTasks, NoneDrained, TasksHeld, Acting
<1>2. Sound'
  BY FlagKeeps DEF Flagged, Sound
<1> QED
  BY <1>1, <1>2 DEF TasksOK, Flagged

LEMMA GoesOnKeeps ==
  ASSUME TypeOK, TasksOK, NEW t \in Tasks, NEW j, GoesOn(t, j),
         UNCHANGED <<rules, generation, stop>>, NoneDrained
  PROVE  TasksOK' /\ TasksHeld
<1>1. /\ task' \in [Tasks -> Jobs] /\ task'[t] = j
      /\ \A u \in Tasks : u # t => OnlyFlag(u)
  BY DEF GoesOn, Alone
<1>2. \A u \in Tasks : u # t => task'[u].at = task[u].at /\ task'[u].rule = task[u].rule
  BY <1>1 DEF OnlyFlag
<1>3. HasRule'
  BY <1>1, <1>2 DEF GoesOn, TasksOK, HasRule
<1>4. Sound'
  <2> SUFFICES ASSUME NEW u \in Tasks
               PROVE  Aged(task[u])' /\ (task'[u].dead => Doomed(task[u])')
    BY DEF Sound
  <2>1. CASE u = t
    BY <1>1, <2>1 DEF GoesOn, Aged, Doomed, Current
  <2>2. CASE u # t
    BY <1>1, <2>2, FlagKeeps DEF TypeOK
  <2> QED
    BY <2>1, <2>2
<1>5. QuietTasks'
  BY <1>1, <1>2 DEF GoesOn, TasksOK, QuietTasks, NoneDrained
<1>6. TasksHeld
  BY <1>1, <1>2 DEF GoesOn, TasksHeld, Acting
<1> QED
  BY <1>1, <1>3, <1>4, <1>5, <1>6 DEF TasksOK
----------------------------------------------------------------------------
(* What each operation makes of the job that goes on.                      *)

LEMMA GotoFits ==
  ASSUME TypeOK, TasksOK, NEW t \in Tasks, NEW at \in States \ AtRest,
         task[t].at \notin AtRest, task' = Goto(t, at),
         at \in Acting => exit # "drained" /\ task[t].at = "fence" /\ ~task[t].dead
  PROVE  \E j : GoesOn(t, j)
<1> DEFINE j == [task[t] EXCEPT !.at = at]
<1>1. task[t] \in Jobs /\ Aged(task[t]) /\ (task[t].dead => Doomed(task[t])) /\ task[t].rule # None
  BY DEF TasksOK, Sound, HasRule
<1>2. /\ j \in Jobs /\ j.at = at /\ j.rule = task[t].rule /\ j.rev = task[t].rev
      /\ j.gen = task[t].gen /\ j.todo = task[t].todo /\ j.cancel = task[t].cancel
      /\ j.dead = task[t].dead
  BY <1>1 DEF Jobs
<1>3. task' = [task EXCEPT ![t] = j]
  OBVIOUS
<1> HIDE DEF j
<1>4. Aged(j)
  BY <1>1, <1>2 DEF Aged
<1>5. j.dead => Doomed(j)
  BY <1>1, <1>2 DEF Doomed, Current
<1> QED
  BY <1>1, <1>2, <1>3, <1>4, <1>5, Alone1 DEF GoesOn

LEMMA PerformedFits ==
  ASSUME TypeOK, TasksOK, NEW t \in Tasks, task[t].at \notin AtRest, task' = Performed(t)
  PROVE  \E j : GoesOn(t, j)
<1> DEFINE k == [task[t] EXCEPT !.at = "run"]
           j == [k EXCEPT !.acts = @ + 1]
<1>1. task[t] \in Jobs /\ Aged(task[t]) /\ (task[t].dead => Doomed(task[t])) /\ task[t].rule # None
  BY DEF TasksOK, Sound, HasRule
<1>2. /\ k \in Jobs /\ k.at = "run" /\ k.rule = task[t].rule /\ k.rev = task[t].rev
      /\ k.gen = task[t].gen /\ k.todo = task[t].todo /\ k.cancel = task[t].cancel
      /\ k.dead = task[t].dead
  BY <1>1 DEF Jobs, States, Holding, Claimed, Registered
<1>3. task' = [task EXCEPT ![t] = j]
  BY DEF Performed, TasksOK
<1> HIDE DEF k
<1>4. /\ j \in Jobs /\ j.at = "run" /\ j.rule = task[t].rule /\ j.rev = task[t].rev
      /\ j.gen = task[t].gen /\ j.todo = task[t].todo /\ j.cancel = task[t].cancel
      /\ j.dead = task[t].dead
  BY <1>2 DEF Jobs
<1> HIDE DEF j
<1>5. Aged(j)
  BY <1>1, <1>4 DEF Aged
<1>6. j.dead => Doomed(j)
  BY <1>1, <1>4 DEF Doomed, Current
<1> QED
  BY <1>1, <1>3, <1>4, <1>5, <1>6, Alone1 DEF GoesOn, AtRest, Acting

LEMMA ReturnFits ==
  ASSUME TypeOK, TasksOK, NEW t \in Tasks, task' = Return(t)
  PROVE  \E j : GoesOn(t, j)
<1>1. task[t] \in Jobs /\ Aged(task[t]) /\ generation \in Nat
  BY DEF TasksOK, Sound, TypeOK
<1>2. Aged(Returned(t))
  BY <1>1, ReturnedTyped DEF Aged
<1> QED
  BY <1>2, ReturnedTyped, Alone1 DEF GoesOn, AtRest, Acting

LEMMA IdleFits ==
  ASSUME TypeOK, NEW t \in Tasks, Alone(t, Idle)
  PROVE  \E j : GoesOn(t, j)
<1>1. Aged(Idle)
  BY IdleTyped DEF Aged, TypeOK
<1> QED
  BY <1>1, IdleTyped DEF GoesOn, AtRest, Acting

LEMMA JobFits ==
  ASSUME TypeOK, TasksOK, NEW t \in Tasks, NEW l \in Jobs, NEW p \in Rules \X Nat,
         l.gen <= generation, p[2] <= rules[p[1]].rev,
         \A q \in l.todo : q[2] <= rules[q[1]].rev,
         task' = [task EXCEPT ![t] = Job(l, p)]
  PROVE  \E j : GoesOn(t, j)
<1> DEFINE j == Job(l, p)
<1>1. /\ j \in Jobs /\ j.at = "slot"
      /\ j.rule = p[1] /\ j.rev = p[2] /\ j.gen = l.gen
      /\ j.todo = l.todo \ {p}
      /\ j.dead <=> \/ reconciling = "no" /\ l.gen # generation
                    \/ editing # p[1] /\ rules[p[1]] # [rev |-> p[2], on |-> TRUE]
  BY JobTyped
<1>2. p[1] # None
  BY HookQueueAssumption
<1>3. task' = [task EXCEPT ![t] = j]
  OBVIOUS
<1> HIDE DEF j
<1>4. Aged(j)
  BY <1>1 DEF Aged
<1>5. j.dead => Doomed(j)
  BY <1>1, <1>2 DEF Doomed, Current
<1> QED
  BY <1>1, <1>2, <1>3, <1>4, <1>5, Alone1 DEF GoesOn, AtRest, Acting

LEMMA ListFits ==
  ASSUME TypeOK, NEW t \in Tasks, NEW from \in SUBSET Rules, NEW key \in Keys,
         NEW kind, NEW item,
         Alone(t, List("next", generation, from, key, Matching(kind, item)))
  PROVE  \E j : GoesOn(t, j)
<1> DEFINE j == List("next", generation, from, key, Matching(kind, item))
<1>1. "next" \in AtRest /\ generation \in Nat
  BY DEF AtRest, TypeOK
<1>2. /\ j \in Jobs /\ j.rule = None /\ j.at = "next" /\ j.gen = generation
      /\ j.todo = Matching(kind, item) /\ ~j.dead
  BY <1>1, MatchingTyped, ListTyped
<1>3. Alone(t, j)
  OBVIOUS
<1> HIDE DEF j
<1>4. \A p \in Matching(kind, item) : p[2] <= rules[p[1]].rev
  BY DEF Matching, TypeOK
<1>5. Aged(j)
  BY <1>1, <1>2, <1>4 DEF Aged
<1> QED
  BY <1>1, <1>2, <1>3, <1>5 DEF GoesOn, Acting
----------------------------------------------------------------------------
(* The jobs, step by step                                                  *)

LEMMA ExecuteMoves ==
  ASSUME TypeOK, TasksOK, NEW t \in Tasks, Execute(t)
  PROVE  (\E j : GoesOn(t, j)) /\ UNCHANGED <<rules, generation, stop, loose, exit>>
<1>0. UNCHANGED <<rules, generation, stop, loose, exit>>
  BY DEF Execute, Acquire, SlotTimeout, Claim, Insert, Dispatch, Begin, Refuse, Perform, Emit, Finish
<1>1. CASE \/ Acquire(t) \/ SlotTimeout(t) \/ Claim(t) \/ Insert(t) \/ Dispatch(t) \/ Finish(t)
  <2>1. task' = Return(t) \/ \E at \in {"claim", "insert", "run", "fence"} : task' = Goto(t, at)
    BY <1>1 DEF Acquire, SlotTimeout, Claim, Insert, Dispatch, Finish
  <2>2. task[t].at \notin AtRest
    BY <1>1 DEF Acquire, SlotTimeout, Claim, Insert, Dispatch, Finish, AtRest
  <2>3. CASE task' = Return(t)
    BY <1>0, <2>3, ReturnFits
  <2>4. ASSUME NEW at \in {"claim", "insert", "run", "fence"}, task' = Goto(t, at)
        PROVE  \E j : GoesOn(t, j)
    <3>1. at \in States \ AtRest /\ at \notin Acting
      BY DEF Acting, AtRest, States, Holding, Claimed, Registered
    <3> QED
      BY <2>2, <2>4, <3>1, GotoFits
  <2> QED
    BY <1>0, <2>1, <2>3, <2>4
<1>2. CASE Begin(t)
  <2>1. PICK at \in Acting : task' = Goto(t, at)
    BY <1>2 DEF Begin
  <2>2. at \in States \ AtRest /\ task[t].at = "fence" /\ task[t].at \notin AtRest
    BY <1>2 DEF Begin, Acting, AtRest, States, Holding, Claimed, Registered
  <2>3. MayRun(task[t])
    BY <1>2 DEF Begin
  <2>4. exit # "drained" /\ ~Doomed(task[t])
    BY <2>3 DEF MayRun, Admitted, Open, Reserved, Doomed
  <2>5. ~task[t].dead
    BY <2>4 DEF TasksOK, Sound
  <2> QED
    BY <1>0, <2>1, <2>2, <2>4, <2>5, GotoFits
<1>3. CASE Refuse(t) \/ Perform(t) \/ Emit(t)
  BY <1>0, <1>3, PerformedFits DEF Refuse, Perform, Emit, AtRest
<1> QED
  BY <1>0, <1>1, <1>2, <1>3 DEF Execute

LEMMA StartMoves ==
  ASSUME TypeOK, TasksOK, NEW t \in Tasks, Start(t)
  PROVE  \E j : GoesOn(t, j)
<1>1. PICK p \in task[t].todo : task' = [task EXCEPT ![t] = Job(task[t], p)]
  BY DEF Start
<1>2. task[t] \in Jobs /\ Aged(task[t])
  BY DEF TasksOK, Sound
<1>3. p \in Rules \X Nat
  BY <1>2 DEF Jobs
<1> QED
  BY <1>1, <1>2, <1>3, JobFits DEF Aged

LEMMA TestMoves ==
  ASSUME TypeOK, TasksOK, NEW t \in Tests, NEW r \in Rules, Test(t, r)
  PROVE  \E j : GoesOn(t, j)
<1> DEFINE l == List("next", generation, {}, None, {})
           p == <<r, rules[r].rev>>
<1>1. task' = [task EXCEPT ![t] = Job(l, p)]
  BY DEF Test
<1>2. "next" \in AtRest /\ generation \in Nat /\ {} \in SUBSET Rules /\ None \in Keys
      /\ {} \in SUBSET (Rules \X Nat) /\ t \in Tasks
  BY DEF AtRest, TypeOK, Keys, Tasks
<1>3. l \in Jobs /\ l.gen = generation /\ l.todo = {}
  BY <1>2, ListTyped
<1>4. p \in Rules \X Nat /\ p[2] <= rules[p[1]].rev
  BY DEF TypeOK
<1> HIDE DEF l, p
<1>5. l.gen <= generation /\ \A q \in l.todo : q[2] <= rules[q[1]].rev
  BY <1>2, <1>3
<1> QED
  BY <1>1, <1>2, <1>3, <1>4, <1>5, JobFits

LEMMA PausedFlags ==
  ASSUME TasksOK, NEW R
  PROVE  /\ CancelJobs(R) \in [Tasks -> Jobs]
         /\ \A u \in Tasks : task' \in [Tasks -> Jobs] /\ task'[u] = CancelJobs(R)[u] => OnlyFlag(u)
<1>1. CancelJobs(R) \in [Tasks -> Jobs]
  BY CancelTyped DEF TasksOK
<1>2. ASSUME NEW u \in Tasks, task'[u] = CancelJobs(R)[u]
      PROVE  OnlyFlag(u)
  <2>1. task[u] \in Jobs
    BY DEF TasksOK
  <2> QED
    BY <1>2, <2>1 DEF CancelJobs, OnlyFlag, Jobs
<1> QED
  BY <1>1, <1>2

LEMMA DeadFlags ==
  ASSUME TasksOK, NEW R, NEW u \in Tasks, NEW stopped \in BOOLEAN,
         stopped => Doomed(task[u])' \/ task[u].rule = None,
         task'[u] = Dead(CancelJobs(R)[u], stopped)
  PROVE  task'[u] \in Jobs /\ OnlyFlag(u)
<1> DEFINE k == CancelJobs(R)[u]
<1>0. task[u] \in Jobs
  BY DEF TasksOK
<1>1. /\ k \in Jobs /\ k.at = task[u].at /\ k.rule = task[u].rule /\ k.rev = task[u].rev
      /\ k.gen = task[u].gen /\ k.todo = task[u].todo /\ (task[u].cancel => k.cancel)
      /\ k.dead = task[u].dead
  BY <1>0 DEF CancelJobs, Jobs
<1>2. task'[u] = Dead(k, stopped)
  OBVIOUS
<1> HIDE DEF k
<1>3. CASE k.rule # None /\ stopped
  <2>1. task'[u] = [k EXCEPT !.dead = TRUE]
    BY <1>2, <1>3 DEF Dead
  <2> QED
    BY <1>1, <1>3, <2>1 DEF OnlyFlag, Jobs
<1>4. CASE ~(k.rule # None /\ stopped)
  <2>1. task'[u] = k
    BY <1>2, <1>4 DEF Dead
  <2> QED
    BY <1>1, <2>1 DEF OnlyFlag
<1> QED
  BY <1>3, <1>4

LEMMA ShutdownFlags ==
  ASSUME TypeOK, TasksOK, Shutdown
  PROVE  Flagged /\ UNCHANGED rules /\ generation' = generation + 1
<1>1. \A u \in Tasks : task'[u] = Dead(CancelJobs(Rules)[u], TRUE)
  BY DEF Shutdown
<1>2. \A u \in Tasks : Doomed(task[u])'
  BY DEF Shutdown, Doomed
<1>3. \A u \in Tasks : task'[u] \in Jobs /\ OnlyFlag(u)
  BY <1>1, <1>2, DeadFlags
<1>4. task' = [t \in Tasks |-> Dead(CancelJobs(Rules)[t], TRUE)]
  BY DEF Shutdown
<1> QED
  BY <1>3, <1>4 DEF Flagged, Shutdown

LEMMA ReconciledFlags ==
  ASSUME TypeOK, TasksOK, Reconciled
  PROVE  Flagged
<1>1. task' = [u \in Tasks |-> Dead(CancelJobs(Rules)[u], task[u].gen # generation)]
  BY DEF Reconciled, CancelAll
<1>2. ASSUME NEW u \in Tasks
      PROVE  task'[u] \in Jobs /\ OnlyFlag(u)
  <2>1. task'[u] = Dead(CancelJobs(Rules)[u], task[u].gen # generation)
    BY <1>1
  <2>2. CASE task[u].gen = generation
    <3>1. task'[u] = Dead(CancelJobs(Rules)[u], FALSE)
      BY <2>1, <2>2
    <3> QED
      BY <3>1, DeadFlags
  <2>3. CASE task[u].gen # generation
    <3>1. task'[u] = Dead(CancelJobs(Rules)[u], TRUE)
      BY <2>1, <2>3
    <3>2. CancelJobs(Rules)[u].gen = task[u].gen
      BY DEF CancelJobs, TasksOK, Jobs
    <3>3. task'[u].gen = task[u].gen /\ UNCHANGED generation
      BY <3>1, <3>2, CancelTyped DEF Dead, TasksOK, Jobs, Reconciled
    <3>4. Doomed(task[u])'
      BY <2>3, <3>3 DEF Doomed
    <3> QED
      BY <3>1, <3>4, DeadFlags
  <2> QED
    BY <2>2, <2>3
<1> QED
  BY <1>1, <1>2 DEF Flagged

LEMMA CancelRuleFlags ==
  ASSUME TypeOK, TasksOK, CancelRule
  PROVE  Flagged
<1>1. task' = [u \in Tasks |-> Dead(CancelJobs({editing})[u],
                                    task[u].rule = editing /\ ~Current(task[u]))]
  BY DEF CancelRule
<1>2. ASSUME NEW u \in Tasks
      PROVE  task'[u] \in Jobs /\ OnlyFlag(u)
  <2>1. task'[u] = Dead(CancelJobs({editing})[u], task[u].rule = editing /\ ~Current(task[u]))
    BY <1>1
  <2>2. CASE ~(task[u].rule = editing /\ ~Current(task[u]))
    <3>1. task'[u] = Dead(CancelJobs({editing})[u], FALSE)
      BY <2>1, <2>2
    <3> QED
      BY <3>1, DeadFlags
  <2>3. CASE task[u].rule = editing /\ ~Current(task[u])
    <3>1. task'[u] = Dead(CancelJobs({editing})[u], TRUE)
      BY <2>1, <2>3
    <3> DEFINE k == CancelJobs({editing})[u]
    <3>2. k \in Jobs /\ k.rule = task[u].rule /\ k.rev = task[u].rev
      BY ZenonT(60) DEF CancelJobs, TasksOK, Jobs
    <3>3. task'[u] = Dead(k, TRUE)
      BY <3>1
    <3> HIDE DEF k
    <3>4. task'[u].rule = task[u].rule /\ task'[u].rev = task[u].rev /\ UNCHANGED rules
      BY <3>2, <3>3 DEF Dead, Jobs, CancelRule
    <3>5. Doomed(task[u])' \/ task[u].rule = None
      BY <2>3, <3>4 DEF Doomed, Current
    <3> QED
      BY <3>1, <3>5, DeadFlags
  <2> QED
    BY <2>2, <2>3
<1> QED
  BY <1>1, <1>2 DEF Flagged

LEMMA CancelFlags ==
  ASSUME TypeOK, TasksOK, NEW t \in Tasks, Cancel(t)
  PROVE  Flagged
<1> DEFINE k == [task[t] EXCEPT !.cancel = TRUE]
           j == [k EXCEPT !.dead = TRUE]
<1>1. task[t] \in Jobs
  BY DEF TasksOK
<1>2. task' = [task EXCEPT ![t] = j]
  BY DEF Cancel, TasksOK
<1>3. /\ k \in Jobs /\ k.at = task[t].at /\ k.rule = task[t].rule /\ k.rev = task[t].rev
      /\ k.gen = task[t].gen /\ k.todo = task[t].todo /\ k.cancel
  BY <1>1 DEF Jobs
<1> HIDE DEF k
<1>4. /\ j \in Jobs /\ j.at = task[t].at /\ j.rule = task[t].rule /\ j.rev = task[t].rev
      /\ j.gen = task[t].gen /\ j.todo = task[t].todo /\ j.cancel
  BY <1>3 DEF Jobs
<1> HIDE DEF j
<1>5. task'[t] = j /\ task' \in [Tasks -> Jobs]
  BY <1>2, <1>4 DEF TasksOK
<1>6. OnlyFlag(t)
  BY <1>4, <1>5 DEF OnlyFlag, Doomed
<1>7. \A u \in Tasks \ {t} : OnlyFlag(u)
  BY <1>2 DEF OnlyFlag, TasksOK
<1> QED
  BY <1>5, <1>6, <1>7 DEF Flagged

LEMMA IdleStep ==
  ASSUME TypeOK, TasksOK, UNCHANGED <<task, rules>>, NoneDrained,
         generation' \in Nat, generation <= generation', stop => stop'
  PROVE  TasksOK' /\ TasksHeld
<1>1. Flagged
  BY DEF TasksOK, Flagged, OnlyFlag
<1> QED
  BY <1>1, FlaggedKeeps

LEMMA HeadTyped ==
  ASSUME TypeOK, queue # <<>>
  PROVE  Head(queue) \in Items /\ Tail(queue) \in Seq(Items)
<1>1. queue \in Seq(Items)
  BY DEF TypeOK, Items
<1> HIDE DEF Items
<1> QED
  BY <1>1

LEMMA SaveKeeps ==
  ASSUME TypeOK, TasksOK, NEW r \in Rules, Save(r)
  PROVE  TasksOK' /\ TasksHeld
<1>1. UNCHANGED <<task, generation, stop, exit>>
  BY DEF Save
<1>2. \A q \in Rules : /\ rules[q].rev \in Nat /\ rules[q].rev <= rules'[q].rev
                       /\ rules'[q] = rules[q] \/ rules[q].rev < rules'[q].rev
  BY DEF Save, TypeOK
<1>3. ASSUME NEW u \in Tasks
      PROVE  Aged(task[u])' /\ (task'[u].dead => Doomed(task[u])')
  <2>1. Aged(task[u]) /\ (task[u].dead => Doomed(task[u])) /\ task[u] \in Jobs
    BY DEF TasksOK, Sound
  <2>2. task[u].rule \in Rules \cup {None} /\ task[u].rev \in Nat
        /\ task[u].todo \in SUBSET (Rules \X Nat)
    BY <2>1 DEF Jobs
  <2>3. \A p \in task[u].todo : p[2] <= rules'[p[1]].rev
    <3> SUFFICES ASSUME NEW p \in task[u].todo PROVE p[2] <= rules'[p[1]].rev
      OBVIOUS
    <3>1. p[1] \in Rules /\ p[2] \in Nat /\ p[2] <= rules[p[1]].rev
      BY <2>1, <2>2 DEF Aged
    <3>2. rules'[p[1]].rev \in Nat
      BY <3>1 DEF Save, TypeOK
    <3> QED
      BY <1>2, <3>1, <3>2
  <2>4. task[u].rule # None => task[u].rev <= rules'[task[u].rule].rev
    <3> SUFFICES ASSUME task[u].rule # None PROVE task[u].rev <= rules'[task[u].rule].rev
      OBVIOUS
    <3>1. task[u].rule \in Rules /\ task[u].rev <= rules[task[u].rule].rev
      BY <2>1, <2>2 DEF Aged
    <3>2. rules'[task[u].rule].rev \in Nat
      BY <3>1 DEF Save, TypeOK
    <3> QED
      BY <1>2, <2>2, <3>1, <3>2
  <2>5. task[u].rule # None /\ ~Current(task[u]) => ~Current(task[u])'
    <3> SUFFICES ASSUME task[u].rule # None, ~Current(task[u]), Current(task[u])' PROVE FALSE
      OBVIOUS
    <3>1. task[u].rule \in Rules /\ task[u].rev <= rules[task[u].rule].rev
      BY <2>1, <2>2 DEF Aged
    <3>2. rules[task[u].rule] # [rev |-> task[u].rev, on |-> TRUE]
          /\ rules'[task[u].rule] = [rev |-> task[u].rev, on |-> TRUE]
      BY <1>1 DEF Current
    <3>3. rules'[task[u].rule].rev = task[u].rev
      BY <3>2
    <3> QED
      BY <1>2, <2>2, <3>1, <3>2, <3>3
  <2>6. Aged(task[u])'
    BY <1>1, <2>1, <2>3, <2>4 DEF Aged
  <2> QED
    BY <1>1, <2>1, <2>5, <2>6 DEF Doomed
<1>4. HasRule' /\ QuietTasks' /\ TasksHeld
  BY <1>1 DEF TasksOK, HasRule, QuietTasks, TasksHeld, Acting
<1> QED
  BY <1>1, <1>3, <1>4 DEF TasksOK, Sound

LEMMA TasksKept ==
  ASSUME TypeOK, TasksOK, Next
  PROVE  TasksOK' /\ TasksHeld
<1>0. generation \in Nat /\ Worker \in Tasks /\ Quit \in Tasks
  BY DEF TypeOK, Tasks
<1>1. ASSUME NEW t \in Tasks, Execute(t) PROVE TasksOK' /\ TasksHeld
  BY <1>1, ExecuteMoves, GoesOnKeeps DEF NoneDrained
<1>2. ASSUME NEW t \in {Worker, Quit}, Start(t) PROVE TasksOK' /\ TasksHeld
  <2>1. t \in Tasks /\ UNCHANGED <<rules, generation, stop, exit>>
    BY <1>2 DEF Start, Tasks
  <2> QED
    BY <1>2, <2>1, StartMoves, GoesOnKeeps DEF NoneDrained
<1>3. ASSUME NEW t \in Tests, NEW r \in Rules, Test(t, r) PROVE TasksOK' /\ TasksHeld
  <2>1. t \in Tasks /\ UNCHANGED <<rules, generation, stop, exit>>
    BY <1>3 DEF Test, Tasks
  <2> QED
    BY <1>3, <2>1, TestMoves, GoesOnKeeps DEF NoneDrained
<1>4. ASSUME NEW t \in Tasks, Cancel(t) PROVE TasksOK' /\ TasksHeld
  <2>1. UNCHANGED <<rules, generation, stop, exit>>
    BY <1>4 DEF Cancel
  <2>2. Flagged
    BY <1>4, CancelFlags
  <2> QED
    BY <1>0, <2>1, <2>2, FlaggedKeeps DEF NoneDrained
<1>5. CASE CancelRule
  BY <1>0, <1>5, CancelRuleFlags, FlaggedKeeps DEF CancelRule, NoneDrained
<1>6. CASE Reconciled
  BY <1>0, <1>6, ReconciledFlags, FlaggedKeeps DEF Reconciled, NoneDrained
<1>7. CASE Shutdown
  <2>1. generation' \in Nat /\ generation <= generation' /\ UNCHANGED exit /\ stop'
    BY <1>0, <1>7 DEF Shutdown
  <2> QED
    BY <1>7, <2>1, ShutdownFlags, FlaggedKeeps DEF NoneDrained
<1>8. ASSUME NEW r \in Rules, Save(r) PROVE TasksOK' /\ TasksHeld
  BY <1>8, SaveKeeps
<1>9. CASE ReserveDirectly \/ Drain
  <2>1. task' = CancelJobs(Rules) /\ UNCHANGED <<rules, generation, stop>> /\ NoneDrained
    BY <1>9 DEF ReserveDirectly, Drain, NoneDrained
  <2>2. Flagged
    BY <2>1, PausedFlags DEF Flagged
  <2> QED
    BY <1>0, <2>1, <2>2, FlaggedKeeps
<1>10. CASE Ask \/ Reserve \/ Refused
  <2>1. UNCHANGED <<rules, generation, stop>> /\ NoneDrained
    BY <1>10 DEF Ask, Reserve, Refused, NoneDrained
  <2>2. PICK j \in {Idle, List("next", generation, {}, None, Matching("quit", Item(None, {})))} :
          task' = [CancelJobs(Rules) EXCEPT ![Quit] = j]
    BY <1>10 DEF Ask, Reserve, Refused
  <2>3. {} \in SUBSET Rules /\ None \in Keys /\ "next" \in AtRest
    BY DEF Keys, AtRest
  <2>4. Matching("quit", Item(None, {})) \in SUBSET (Rules \X Nat)
    BY MatchingTyped
  <2>5. j \in Jobs
    BY <1>0, <2>2, <2>3, <2>4, ListTyped, IdleTyped
  <2>6. /\ task' \in [Tasks -> Jobs] /\ task'[Quit] = j
        /\ \A u \in Tasks \ {Quit} : task'[u] = CancelJobs(Rules)[u]
    BY <1>0, <2>2, <2>5, PausedFlags
  <2>7. Alone(Quit, j)
    BY <2>6, PausedFlags DEF Alone
  <2>8. \E k : GoesOn(Quit, k)
    BY <1>0, <2>2, <2>3, <2>7, IdleFits, ListFits
  <2> QED
    BY <1>0, <2>1, <2>8, GoesOnKeeps
<1>11. CASE Take
  <2>1. UNCHANGED <<rules, generation, stop, exit>>
    BY <1>11 DEF Take
  <2>2. CASE UNCHANGED task
    BY <1>0, <2>1, <2>2, IdleStep DEF NoneDrained
  <2>3. CASE ~UNCHANGED task
    <3> DEFINE item == Head(queue)
               l == List("next", generation, item.from, item.key, Matching(KindOf(item), item))
    <3>1. item \in Items
      BY <1>11, HeadTyped DEF Take
    <3>2. task' = [task EXCEPT ![Worker] = l]
      BY <1>11, <2>3 DEF Take
    <3>3. item.from \in SUBSET Rules /\ item.key \in Keys /\ "next" \in AtRest
      BY <3>1 DEF Items, AtRest
    <3> HIDE DEF item
    <3>4. l \in Jobs
      BY <1>0, <3>3, MatchingTyped, ListTyped
    <3>5. Alone(Worker, l)
      BY <1>0, <3>2, <3>4, Alone1
    <3>6. \E k : GoesOn(Worker, k)
      BY <1>0, <3>3, <3>5, ListFits
    <3> QED
      BY <1>0, <2>1, <3>6, GoesOnKeeps DEF NoneDrained
  <2> QED
    BY <2>2, <2>3
<1>13. CASE Settle
  <2>1. UNCHANGED <<rules, generation, stop, exit>> /\ task' = [task EXCEPT ![Worker] = Idle]
    BY <1>13 DEF Settle
  <2>2. Alone(Worker, Idle)
    BY <1>0, <2>1, IdleTyped, Alone1
  <2> QED
    BY <1>0, <2>1, <2>2, IdleFits, GoesOnKeeps DEF NoneDrained
<1>14. CASE GiveUp
  <2> DEFINE l == List("next", task[Quit].gen, {}, None, {})
  <2>1. UNCHANGED <<rules, generation, stop, exit>> /\ task' = [task EXCEPT ![Quit] = l]
    BY <1>14 DEF GiveUp
  <2>2. task[Quit] \in Jobs /\ Aged(task[Quit])
    BY <1>0 DEF TasksOK, Sound
  <2>3. /\ "next" \in AtRest /\ task[Quit].gen \in Nat /\ {} \in SUBSET Rules /\ None \in Keys
        /\ {} \in SUBSET (Rules \X Nat)
    BY <2>2 DEF AtRest, Jobs, Keys
  <2>4. l \in Jobs /\ l.rule = None /\ l.at = "next" /\ l.gen = task[Quit].gen /\ l.todo = {} /\ ~l.dead
    BY <2>3, ListTyped
  <2> HIDE DEF l
  <2>5. Alone(Quit, l) /\ Aged(l)
    BY <1>0, <2>1, <2>2, <2>4, Alone1 DEF Aged
  <2>6. GoesOn(Quit, l)
    BY <2>4, <2>5 DEF GoesOn, AtRest, Acting
  <2> QED
    BY <1>0, <2>1, <2>6, GoesOnKeeps DEF NoneDrained
<1>12. CASE \/ \E r \in Rules : Press(r)
            \/ \E on \in BOOLEAN : Regrant(on)
            \/ Notice \/ LooseBegins \/ LooseEnds \/ Switch \/ Abort
  <2>1. /\ UNCHANGED <<rules, stop, task>> /\ NoneDrained
        /\ generation' \in {generation, generation + 1}
    BY <1>12 DEF Press, Regrant, Notice, LooseBegins, LooseEnds, Switch, Abort, NoneDrained
  <2>2. generation' \in Nat /\ generation <= generation'
    BY <1>0, <2>1
  <2> QED
    BY <2>1, <2>2, IdleStep
<1>15. CASE Drained
  <2>1. UNCHANGED <<rules, generation, stop, task>>
    BY <1>15 DEF Drained
  <2>2. \A u \in Tasks : task[u].at \notin Acting
    BY <1>15 DEF Drained, Registered
  <2>3. HasRule' /\ Sound' /\ QuietTasks' /\ TasksHeld
    BY <2>1, <2>2 DEF TasksOK, HasRule, Sound, Aged, Doomed, Current, QuietTasks, TasksHeld, Acting
  <2> QED
    BY <2>1, <2>3 DEF TasksOK
<1> QED
  BY <1>1, <1>2, <1>3, <1>4, <1>5, <1>6, <1>7, <1>8, <1>9, <1>10, <1>11, <1>12, <1>13, <1>14, <1>15
     DEF Next
----------------------------------------------------------------------------
(* The action that outlived its future                                     *)

LEMMA OrphanTyped ==
  ASSUME TypeOK, TasksOK, NEW t \in Tasks, task[t].at \in {"fence", "act"}, NEW input \in BOOLEAN
  PROVE  /\ Orphan(task[t], input) \in Orphans
         /\ Orphan(task[t], input).cancel /\ Orphan(task[t], input).at = task[t].at
<1>1. task[t] \in Jobs /\ task[t].rule # None
  BY DEF TasksOK, HasRule, AtRest
<1> QED
  BY <1>1 DEF Jobs, Orphan, Orphans

LEMMA LooseKept ==
  ASSUME TypeOK, TasksOK, LooseOK, Next
  PROVE  LooseOK' /\ LooseHeld
<1>1. CASE LooseBegins
  <2>1. loose # None /\ loose.cancel /\ UNCHANGED exit
    BY <1>1 DEF LooseBegins, LooseOK
  <2>2. loose' = None
    BY <1>1, <2>1 DEF LooseBegins, MayRun
  <2> QED
    BY <2>2 DEF LooseOK, LooseHeld
<1>2. CASE LooseEnds
  BY <1>2 DEF LooseEnds, LooseOK, LooseHeld
<1>3. CASE Drained
  BY <1>3 DEF Drained, LooseOK, LooseHeld
<1>4. CASE GiveUp
  <2>0. Quit \in Tasks /\ UNCHANGED exit
    BY <1>4 DEF GiveUp, Tasks
  <2>1. CASE UNCHANGED loose
    BY <2>0, <2>1 DEF LooseOK, LooseHeld
  <2>2. CASE ~UNCHANGED loose
    <3>1. PICK input \in BOOLEAN : loose' = Orphan(task[Quit], input)
      BY <1>4, <2>2 DEF GiveUp
    <3>2. loose = None /\ task[Quit].at \in {"fence", "act"}
      BY <1>4, <2>2 DEF GiveUp
    <3>3. loose' \in Orphans /\ loose'.cancel /\ loose'.at = task[Quit].at
      BY <2>0, <3>1, <3>2, OrphanTyped
    <3>4. exit = "drained" => loose'.at # "act"
      BY <2>0, <3>3 DEF TasksOK, QuietTasks, Acting
    <3> QED
      BY <2>0, <3>2, <3>3, <3>4 DEF LooseOK, LooseHeld
  <2> QED
    BY <2>1, <2>2
<1>5. CASE UNCHANGED loose /\ NoneDrained
  BY <1>5 DEF LooseOK, LooseHeld, NoneDrained
<1>6. \/ LooseBegins \/ LooseEnds \/ Drained \/ GiveUp
      \/ UNCHANGED loose /\ NoneDrained
  <2>1. ASSUME NEW t \in Tasks, Execute(t) PROVE UNCHANGED loose /\ NoneDrained
    BY <2>1, ExecuteMoves DEF NoneDrained
  <2>2. ASSUME NEW r \in Rules, Press(r) \/ Save(r) PROVE UNCHANGED loose /\ NoneDrained
    BY <2>2 DEF Press, Save, NoneDrained
  <2>3. ASSUME NEW t, Start(t) \/ Cancel(t) PROVE UNCHANGED loose /\ NoneDrained
    BY <2>3 DEF Start, Cancel, NoneDrained
  <2>4. ASSUME NEW t, NEW r, Test(t, r) PROVE UNCHANGED loose /\ NoneDrained
    BY <2>4 DEF Test, NoneDrained
  <2>5. ASSUME NEW on, Regrant(on) PROVE UNCHANGED loose /\ NoneDrained
    BY <2>5 DEF Regrant, NoneDrained
  <2>6. Notice \/ Take \/ Settle \/ CancelRule \/ Switch \/ Reconciled => UNCHANGED loose /\ NoneDrained
    BY DEF Notice, Take, Settle, CancelRule, Switch, Reconciled, NoneDrained
  <2>7. Ask \/ Reserve \/ Refused \/ ReserveDirectly \/ Drain \/ Abort \/ Shutdown
          => UNCHANGED loose /\ NoneDrained
    BY DEF Ask, Reserve, Refused, ReserveDirectly, Drain, Abort, Shutdown, NoneDrained
  <2> QED
    BY <2>1, <2>2, <2>3, <2>4, <2>5, <2>6, <2>7 DEF Next
<1> QED
  BY <1>1, <1>2, <1>3, <1>4, <1>5, <1>6
----------------------------------------------------------------------------
(* What all of them share                                                  *)

SharedOK ==
  /\ {enabled, quitting, stop} \subseteq BOOLEAN
  /\ generation \in Nat \ {0}
  /\ reconciling \in {"no", "on", "off", "cancel"}
  /\ rules \in [Rules -> [rev : Nat, on : BOOLEAN]]
  /\ editing \in Rules \cup {None}
  /\ queue \in Seq(Items)
  /\ pending \in SUBSET (Rules \X Nat)
  /\ exit \in {"open", "reserved", "draining", "drained"}
  /\ inputs \in 0..MaxInputs

LEMMA TypesOfAll == TypeOK <=> SharedOK /\ task \in [Tasks -> Jobs] /\ loose \in Orphans \cup {None}
BY DEF TypeOK, SharedOK, Items

QueueOK == queue \in Seq(Items) /\ pending \in SUBSET (Rules \X Nat)

LEMMA ItemTyped ==
  ASSUME TypeOK, NEW key \in Keys, NEW from \in SUBSET Rules
  PROVE  Item(key, from) \in Items
BY DEF TypeOK, Item, Items

\* Who touches the queue
LEMMA QueueMoves ==
  ASSUME Next
  PROVE  \/ \E r \in Rules : Press(r)
         \/ \E t \in Tasks : Emit(t)
         \/ Notice \/ Take \/ Settle \/ UNCHANGED queueVars
<1>1. ASSUME NEW t \in Tasks, Execute(t) PROVE Emit(t) \/ UNCHANGED queueVars
  BY <1>1 DEF Execute, Acquire, SlotTimeout, Claim, Insert, Dispatch, Begin, Refuse, Perform, Finish
<1>2. ASSUME NEW r \in Rules, Save(r) PROVE UNCHANGED queueVars
  BY <1>2 DEF Save
<1>3. ASSUME NEW t, Start(t) \/ Cancel(t) PROVE UNCHANGED queueVars
  BY <1>3 DEF Start, Cancel
<1>4. ASSUME NEW t, NEW r, Test(t, r) PROVE UNCHANGED queueVars
  BY <1>4 DEF Test
<1>5. ASSUME NEW on, Regrant(on) PROVE UNCHANGED queueVars
  BY <1>5 DEF Regrant
<1>6. LooseBegins \/ LooseEnds \/ GiveUp \/ CancelRule \/ Switch \/ Reconciled => UNCHANGED queueVars
  BY DEF LooseBegins, LooseEnds, GiveUp, CancelRule, Switch, Reconciled
<1>7. Ask \/ Reserve \/ Refused \/ ReserveDirectly \/ Drain \/ Drained \/ Abort \/ Shutdown
        => UNCHANGED queueVars
  BY DEF Ask, Reserve, Refused, ReserveDirectly, Drain, Drained, Abort, Shutdown
<1> QED
  BY <1>1, <1>2, <1>3, <1>4, <1>5, <1>6, <1>7 DEF Next

LEMMA QueueKept ==
  ASSUME TypeOK, TasksOK, Next
  PROVE  QueueOK'
<1>0. QueueOK
  BY DEF TypeOK, QueueOK, Items
<1>1. CASE UNCHANGED queueVars
  BY <1>0, <1>1 DEF QueueOK
<1>2. ASSUME NEW r \in Rules, Press(r) PROVE QueueOK'
  <2>1. <<r, rules[r].rev>> \in Keys /\ {} \in SUBSET Rules
    BY DEF TypeOK, Keys
  <2> QED
    BY <1>2, <2>1, ItemTyped, OfferTyped DEF Press, QueueOK
<1>3. CASE Notice
  <2>1. None \in Keys /\ {} \in SUBSET Rules
    BY DEF Keys
  <2> QED
    BY <1>3, <2>1, ItemTyped, OfferTyped DEF Notice, QueueOK
<1>4. ASSUME NEW t \in Tasks, Emit(t) PROVE QueueOK'
  <2>1. task[t] \in Jobs /\ task[t].rule \in Rules
    BY <1>4 DEF TasksOK, HasRule, AtRest, Emit, Jobs
  <2>2. None \in Keys /\ task[t].from \cup {task[t].rule} \in SUBSET Rules
    BY <2>1 DEF Keys, Jobs
  <2> QED
    BY <1>0, <1>4, <2>2, ItemTyped, OfferTyped DEF Emit, QueueOK
<1>5. CASE Take
  BY <1>0, <1>5, HeadTyped DEF Take, QueueOK
<1>6. CASE Settle
  BY <1>0, <1>6 DEF Settle, QueueOK
<1> QED
  BY <1>1, <1>2, <1>3, <1>4, <1>5, <1>6, QueueMoves

FlagsOK ==
  /\ {enabled, quitting, stop} \subseteq BOOLEAN
  /\ generation \in Nat \ {0}
  /\ reconciling \in {"no", "on", "off", "cancel"}
  /\ rules \in [Rules -> [rev : Nat, on : BOOLEAN]]
  /\ editing \in Rules \cup {None}
  /\ exit \in {"open", "reserved", "draining", "drained"}
  /\ inputs \in 0..MaxInputs

LEMMA FlagsKept ==
  ASSUME TypeOK, Next
  PROVE  FlagsOK'
<1>0. FlagsOK
  BY DEF TypeOK, FlagsOK
<1>1. CASE UNCHANGED <<engineVars, storeVars, exit, inputs>>
  BY <1>0, <1>1 DEF FlagsOK
<1>2. CASE Input /\ UNCHANGED <<engineVars, storeVars, exit>>
  BY <1>0, <1>2, HookQueueAssumption DEF FlagsOK
<1>3. ASSUME NEW r \in Rules, Save(r) PROVE FlagsOK'
  BY <1>0, <1>3, HookQueueAssumption DEF FlagsOK, Save
<1>4. ASSUME NEW on \in BOOLEAN, Regrant(on) PROVE FlagsOK'
  BY <1>0, <1>4, HookQueueAssumption DEF FlagsOK, Regrant
<1>5. CASE CancelRule \/ Switch \/ Reconciled
  BY <1>0, <1>5 DEF FlagsOK, CancelRule, Switch, Reconciled
<1>6. CASE Ask \/ ReserveDirectly
  <2>1. /\ UNCHANGED <<enabled, generation, stop, reconciling, storeVars>> /\ quitting' = TRUE
        /\ exit' \in {exit, "reserved"} /\ Input
    BY <1>6 DEF Ask, ReserveDirectly
  <2>2. inputs' \in 0..MaxInputs
    BY <1>0, <2>1, HookQueueAssumption DEF FlagsOK
  <2> QED
    BY <1>0, <2>1, <2>2 DEF FlagsOK
<1>7. CASE Reserve \/ Refused \/ Drain \/ Drained \/ Abort \/ Shutdown
  <2>1. /\ UNCHANGED <<reconciling, storeVars, inputs>>
        /\ enabled' \in {enabled, FALSE} /\ quitting' \in {quitting, TRUE, FALSE}
        /\ stop' \in {stop, TRUE} /\ generation' \in {generation, generation + 1}
        /\ exit' \in {exit, "open", "reserved", "draining", "drained"}
    BY <1>7 DEF Reserve, Refused, Drain, Drained, Abort, Shutdown
  <2>2. generation' \in Nat \ {0}
    BY <1>0, <2>1 DEF FlagsOK
  <2> QED
    BY <1>0, <2>1, <2>2 DEF FlagsOK
<1>8. \/ \E r \in Rules : Save(r)
      \/ \E on \in BOOLEAN : Regrant(on)
      \/ CancelRule \/ Switch \/ Reconciled \/ Ask \/ ReserveDirectly
      \/ Reserve \/ Refused \/ Drain \/ Drained \/ Abort \/ Shutdown
      \/ Input /\ UNCHANGED <<engineVars, storeVars, exit>>
      \/ UNCHANGED <<engineVars, storeVars, exit, inputs>>
  <2>1. ASSUME NEW t \in Tasks, Execute(t) PROVE UNCHANGED <<engineVars, storeVars, exit, inputs>>
    BY <2>1 DEF Execute, Acquire, SlotTimeout, Claim, Insert, Dispatch, Begin, Refuse, Perform, Emit,
                Finish
  <2>2. ASSUME NEW r \in Rules, Press(r) PROVE Input /\ UNCHANGED <<engineVars, storeVars, exit>>
    BY <2>2 DEF Press
  <2>3. ASSUME NEW t, Start(t) \/ Cancel(t) PROVE UNCHANGED <<engineVars, storeVars, exit, inputs>>
    BY <2>3 DEF Start, Cancel
  <2>4. ASSUME NEW t, NEW r, Test(t, r) PROVE UNCHANGED <<engineVars, storeVars, exit, inputs>>
    BY <2>4 DEF Test
  <2>5. Notice => Input /\ UNCHANGED <<engineVars, storeVars, exit>>
    BY DEF Notice
  <2>6. Take \/ Settle \/ LooseBegins \/ LooseEnds \/ GiveUp
          => UNCHANGED <<engineVars, storeVars, exit, inputs>>
    BY DEF Take, Settle, LooseBegins, LooseEnds, GiveUp
  <2> QED
    BY <2>1, <2>2, <2>3, <2>4, <2>5, <2>6 DEF Next
<1> QED
  BY <1>1, <1>2, <1>3, <1>4, <1>5, <1>6, <1>7, <1>8
----------------------------------------------------------------------------
LEMMA StartsSound == Init => IInv
<1> SUFFICES ASSUME Init PROVE IInv
  OBVIOUS
<1>1. task \in [Tasks -> Jobs] /\ \A t \in Tasks : task[t] = Idle
  BY IdleTyped DEF Init
<1>2. SharedOK
  <2>1. /\ enabled = TRUE /\ quitting = FALSE /\ stop = FALSE /\ generation = 1 /\ inputs = 0
        /\ reconciling = "no" /\ exit = "open" /\ pending = {} /\ queue = <<>> /\ editing = None
    BY DEF Init
  <2>2. rules \in [Rules -> [rev : Nat, on : BOOLEAN]]
    <3>1. rules \in [Rules -> {[rev |-> 1, on |-> TRUE]}]
      BY DEF Init
    <3>2. [rev |-> 1, on |-> TRUE] \in [rev : Nat, on : BOOLEAN]
      OBVIOUS
    <3> QED
      BY <3>1, <3>2
  <2>3. inputs \in 0..MaxInputs
    BY <2>1, HookQueueAssumption
  <2>4. queue \in Seq(Items)
    BY <2>1
  <2>5. {enabled, quitting, stop} \subseteq BOOLEAN
    BY <2>1
  <2>6. generation \in Nat \ {0} /\ editing \in Rules \cup {None} /\ pending \in SUBSET (Rules \X Nat)
    BY <2>1
  <2> QED
    BY <2>1, <2>2, <2>3, <2>4, <2>5, <2>6 DEF SharedOK
<1>3. loose = None /\ exit = "open"
  BY DEF Init
<1>4. TypeOK
  BY <1>1, <1>2, <1>3, TypesOfAll
<1>5. Aged(Idle) /\ ~Idle.dead
  BY <1>2, IdleTyped DEF Aged, SharedOK
<1>6. TasksOK
  BY <1>1, <1>3, <1>5, IdleTyped DEF TasksOK, HasRule, Sound, QuietTasks, AtRest
<1>7. LooseOK
  BY <1>3 DEF LooseOK
<1> QED
  BY <1>4, <1>6, <1>7 DEF IInv

LEMMA StaysSound ==
  ASSUME IInv, [Next]_vars
  PROVE  IInv' /\ (TasksHeld \/ UNCHANGED vars) /\ (LooseHeld \/ UNCHANGED vars)
<1>1. CASE UNCHANGED vars
  BY <1>1 DEF IInv, TypeOK, TasksOK, HasRule, Sound, Aged, Doomed, Current, QuietTasks, LooseOK, vars
<1>2. CASE Next
  <2>1. TasksOK' /\ TasksHeld
    BY <1>2, TasksKept DEF IInv
  <2>2. LooseOK' /\ LooseHeld
    BY <1>2, LooseKept DEF IInv
  <2>3. FlagsOK' /\ QueueOK'
    BY <1>2, FlagsKept, QueueKept DEF IInv
  <2>4. TypeOK'
    BY <2>1, <2>2, <2>3 DEF TypeOK, FlagsOK, QueueOK, TasksOK, LooseOK, Items
  <2> QED
    BY <2>1, <2>2, <2>4 DEF IInv
<1> QED
  BY <1>1, <1>2

(* Every variable has its type: a job's fields among them, whatever the   *)
(* order in which flags are raised, jobs end and events are taken.         *)
THEOREM TypeCorrect == Spec => []TypeOK
<1>1. IInv => TypeOK
  BY DEF IInv
<1>2. IInv /\ [Next]_vars => IInv'
  BY StaysSound
<1> QED
  BY <1>1, <1>2, StartsSound, PTL DEF Spec

(* Behind the drain nothing acts (hooks/mod.rs, drain), for any number of  *)
(* slots, rules and test runs.                                             *)
THEOREM DrainIsQuiet == Spec => []QuietBehindDrain
<1>1. IInv => QuietBehindDrain
  BY DEF IInv, TasksOK, QuietTasks, LooseOK, QuietBehindDrain
<1>2. IInv /\ [Next]_vars => IInv'
  BY StaysSound
<1> QED
  BY <1>1, <1>2, StartsSound, PTL DEF Spec

(* What was stopped passes no further check (actions.rs, Fence::check):    *)
(* the reason is still there when the fence is asked, because a job's      *)
(* revision and generation are never ahead of the present ones.            *)
THEOREM StopsAlwaysHold == Spec => StopsHold
<1>1. IInv /\ [Next]_vars => IInv'
  BY StaysSound
<1>2. IInv /\ [Next]_vars =>
        [/\ \A t \in Tasks : task[t].at = "fence" /\ task'[t].at \in Acting => ~task[t].dead
         /\ loose # None /\ loose' # None => loose'.at = loose.at]_vars
  BY StaysSound DEF TasksHeld, LooseHeld
<1> QED
  BY <1>1, <1>2, StartsSound, PTL DEF Spec, StopsHold
----------------------------------------------------------------------------
(* What may become of a task in one step                                   *)

\* Only flags are raised.
Same(m, n) ==
  /\ n.at = m.at /\ n.acts = m.acts
  /\ n.rule = m.rule /\ n.from = m.from /\ n.key = m.key /\ n.todo = m.todo

\* Its job goes on.
Advance(m, n) ==
  /\ n.rule = m.rule /\ n.from = m.from /\ n.key = m.key /\ n.todo = m.todo
  /\ \/ /\ n.acts = m.acts
        /\ \/ m.at = "slot" /\ n.at = "claim"
           \/ m.at = "claim" /\ n.at = "insert"
           \/ m.at = "insert" /\ n.at = "run"
           \/ m.at = "run" /\ n.at = "fence" /\ m.acts < MaxActions
           \/ m.at = "fence" /\ n.at \in Acting
     \/ n.acts = m.acts + 1 /\ m.at \in Acting \cup {"fence"} /\ n.at = "run"

\* Its job is over, or dropped with the rest of the list.
Back(t) == task[t].at \in {"slot", "claim", "run"} /\ task'[t] = Returned(t)
Dropped(t) ==
  /\ t = Quit /\ task[t].at \in {"slot", "run", "fence", "act"}
  /\ task'[t] = List("next", task[t].gen, {}, None, {})

\* A list is begun, its next job is chosen, and it is over.
Begun(t) ==
  /\ task[t].at = "idle" /\ (t = Worker => Take)
  /\ task'[t].at = "next" /\ task'[t].rule = None /\ task'[t].acts = 0
  /\ \A p \in task'[t].todo : p[1] \notin task'[t].from
Chosen(t) == task[t].at = "next" /\ \E p \in task[t].todo : task'[t] = Job(task[t], p)
Over(t) ==
  /\ t \in {Worker, Quit} /\ task[t].at = "next" /\ (t = Worker => Settle)
  /\ task'[t] = Idle

Tested(t) ==
  /\ t \in Tests /\ task[t].at = "idle"
  /\ \E r \in Rules : task'[t] = Job(List("next", generation, {}, None, {}), <<r, rules[r].rev>>)

Moves(t) ==
  \/ Same(task[t], task'[t]) \/ Advance(task[t], task'[t])
  \/ Back(t) \/ Dropped(t) \/ Begun(t) \/ Chosen(t) \/ Over(t) \/ Tested(t)

LEMMA ListIs ==
  ASSUME NEW at, NEW gen, NEW from, NEW key, NEW todo
  PROVE  /\ List(at, gen, from, key, todo).at = at
         /\ List(at, gen, from, key, todo).from = from
         /\ List(at, gen, from, key, todo).key = key
         /\ List(at, gen, from, key, todo).todo = todo
         /\ List(at, gen, from, key, todo).rule = None
         /\ List(at, gen, from, key, todo).acts = 0
BY DEF List

LEMMA JobIs ==
  ASSUME NEW l \in Jobs, NEW p \in Rules \X Nat
  PROVE  /\ Job(l, p).at = "slot" /\ Job(l, p).rule = p[1] /\ Job(l, p).todo = l.todo \ {p}
         /\ Job(l, p).from = l.from /\ Job(l, p).key = l.key /\ Job(l, p).acts = l.acts
BY DEF Job, Jobs

LEMMA ReturnedIs ==
  ASSUME NEW t \in Tasks
  PROVE  /\ Returned(t).rule = None /\ Returned(t).acts = 0
         /\ t \in Tests => Returned(t).at = "done" /\ Returned(t).from = {} /\ Returned(t).todo = {}
         /\ t \notin Tests => /\ Returned(t).at = "next" /\ Returned(t).from = task[t].from
                              /\ Returned(t).todo = task[t].todo /\ Returned(t).key = task[t].key
BY ListIs DEF Returned

LEMMA FlagsSame ==
  ASSUME task \in [Tasks -> Jobs], NEW R, NEW u \in Tasks, NEW stopped \in BOOLEAN
  PROVE  /\ Same(task[u], CancelJobs(R)[u])
         /\ Same(task[u], Dead(CancelJobs(R)[u], stopped))
<1> DEFINE k == CancelJobs(R)[u]
<1>1. k \in Jobs /\ Same(task[u], k)
  BY ZenonT(60) DEF CancelJobs, Same, Jobs
<1> HIDE DEF k
<1>2. Same(k, Dead(k, stopped))
  BY <1>1 DEF Dead, Same, Jobs
<1> QED
  BY <1>1, <1>2 DEF Same, k

LEMMA ExecuteTable ==
  ASSUME TypeOK, NEW t \in Tasks, Execute(t)
  PROVE  /\ Advance(task[t], task'[t]) \/ Back(t)
         /\ \A u \in Tasks : u # t => task'[u] = task[u]
<1>0. task \in [Tasks -> Jobs] /\ task[t] \in Jobs
  BY DEF TypeOK
<1>1. ASSUME NEW at, task' = Goto(t, at)
      PROVE  /\ task'[t].at = at /\ task'[t].acts = task[t].acts /\ task'[t].rule = task[t].rule
             /\ task'[t].from = task[t].from /\ task'[t].key = task[t].key
             /\ task'[t].todo = task[t].todo
             /\ \A u \in Tasks : u # t => task'[u] = task[u]
  BY <1>0, <1>1 DEF Jobs
<1>2. ASSUME task' = Performed(t)
      PROVE  /\ task'[t].at = "run" /\ task'[t].acts = task[t].acts + 1
             /\ task'[t].rule = task[t].rule
             /\ task'[t].from = task[t].from /\ task'[t].key = task[t].key
             /\ task'[t].todo = task[t].todo
             /\ \A u \in Tasks : u # t => task'[u] = task[u]
  BY <1>0, <1>2 DEF Performed, Jobs
<1>3. ASSUME task' = Return(t)
      PROVE  task'[t] = Returned(t) /\ \A u \in Tasks : u # t => task'[u] = task[u]
  BY <1>0, <1>3
<1>4. CASE Acquire(t) \/ SlotTimeout(t) \/ Claim(t) \/ Finish(t)
  <2>1. \/ task[t].at = "slot" /\ task' = Goto(t, "claim")
        \/ task[t].at = "claim" /\ task' = Goto(t, "insert")
        \/ task[t].at \in {"slot", "claim", "run"} /\ task' = Return(t)
    BY <1>4 DEF Acquire, SlotTimeout, Claim, Finish
  <2> QED
    BY <1>1, <1>3, <2>1 DEF Advance, Back
<1>5. CASE Insert(t) \/ Dispatch(t)
  <2>1. \/ task[t].at = "insert" /\ task' = Goto(t, "run")
        \/ task[t].at = "run" /\ task' = Goto(t, "fence") /\ task[t].acts < MaxActions
    BY <1>5 DEF Insert, Dispatch
  <2> QED
    BY <1>1, <2>1 DEF Advance
<1>6. CASE Begin(t)
  <2>1. PICK at \in Acting : task[t].at = "fence" /\ task' = Goto(t, at)
    BY <1>6 DEF Begin
  <2> QED
    BY <1>1, <2>1 DEF Advance
<1>7. CASE Refuse(t) \/ Perform(t) \/ Emit(t)
  <2>1. task[t].at \in Acting \cup {"fence"} /\ task' = Performed(t)
    BY <1>7 DEF Refuse, Perform, Emit, Acting
  <2> QED
    BY <1>2, <2>1 DEF Advance
<1> QED
  BY <1>4, <1>5, <1>6, <1>7 DEF Execute

LEMMA TaskMoves ==
  ASSUME TypeOK, Next, NEW u \in Tasks
  PROVE  Moves(u)
<1>0. task \in [Tasks -> Jobs] /\ task[u] \in Jobs /\ Same(task[u], task[u])
  BY DEF TypeOK, Same
<1>1. ASSUME NEW t \in Tasks, Execute(t) PROVE Moves(u)
  BY <1>0, <1>1, ExecuteTable DEF Moves
<1>2. ASSUME NEW t \in {Worker, Quit}, Start(t) PROVE Moves(u)
  <2>1. PICK p \in task[t].todo : task[t].at = "next" /\ task' = [task EXCEPT ![t] = Job(task[t], p)]
    BY <1>2 DEF Start
  <2>2. u = t => Chosen(u)
    BY <1>0, <2>1 DEF Chosen
  <2>3. u # t => task'[u] = task[u]
    BY <1>0, <2>1
  <2> QED
    BY <1>0, <2>2, <2>3 DEF Moves
<1>3. ASSUME NEW t \in Tests, NEW r \in Rules, Test(t, r) PROVE Moves(u)
  <2>1. /\ task[t].at = "idle"
        /\ task' = [task EXCEPT ![t] =
             Job(List("next", generation, {}, None, {}), <<r, rules[r].rev>>)]
    BY <1>3 DEF Test
  <2>2. u = t => Tested(u)
    BY <1>0, <2>1 DEF Tested
  <2>3. u # t => task'[u] = task[u]
    BY <1>0, <2>1
  <2> QED
    BY <1>0, <2>2, <2>3 DEF Moves
<1>4. ASSUME NEW t \in Tasks, Cancel(t) PROVE Moves(u)
  <2>1. Same(task[u], task'[u])
    BY <1>0, <1>4, ZenonT(60) DEF Cancel, Same, Jobs
  <2> QED
    BY <2>1 DEF Moves
<1>5. CASE CancelRule \/ Reconciled \/ Shutdown
  <2>1. \E R : \E b \in BOOLEAN : task'[u] = Dead(CancelJobs(R)[u], b)
    <3>1. CASE CancelRule
      BY <3>1 DEF CancelRule
    <3>2. CASE Reconciled
      BY <3>2 DEF Reconciled, CancelAll
    <3>3. CASE Shutdown
      BY <3>3 DEF Shutdown
    <3> QED
      BY <1>5, <3>1, <3>2, <3>3
  <2> QED
    BY <1>0, <2>1, FlagsSame DEF Moves
<1>6. CASE ReserveDirectly \/ Drain
  <2>1. task'[u] = CancelJobs(Rules)[u]
    BY <1>6 DEF ReserveDirectly, Drain
  <2> QED
    BY <1>0, <2>1, FlagsSame DEF Moves
<1>7. CASE Ask \/ Reserve \/ Refused
  <2>1. CASE u # Quit
    <3>1. task'[u] = CancelJobs(Rules)[u]
      BY <1>7, <2>1 DEF Ask, Reserve, Refused, CancelJobs
    <3> QED
      BY <1>0, <3>1, FlagsSame DEF Moves
  <2>2. CASE u = Quit
    <3>0. u # Worker
      BY <2>2, HookQueueAssumption
    <3>1. CASE Ask
      <4> DEFINE td == Matching("quit", Item(None, {}))
      <4>1. task[u].at = "idle" /\ task'[u] = List("next", generation, {}, None, td)
        BY <2>2, <3>1 DEF Ask, CancelJobs
      <4>2. Begun(u)
        BY <3>0, <4>1, ListIs DEF Begun
      <4> QED
        BY <4>2 DEF Moves
    <3>2. CASE Reserve \/ Refused
      <4>1. task[u].at = "next" /\ task'[u] = Idle
        BY <2>2, <3>2 DEF Reserve, Refused, Asked, CancelJobs
      <4> QED
        BY <2>2, <3>0, <4>1 DEF Over, Moves
    <3> QED
      BY <1>7, <3>1, <3>2
  <2> QED
    BY <2>1, <2>2
<1>8. CASE Take
  <2>1. CASE u = Worker /\ ~UNCHANGED task
    <3> DEFINE item == Head(queue)
               td == Matching(KindOf(item), item)
    <3>1. /\ task[u].at = "idle"
          /\ task'[u] = List("next", item.gen, item.from, item.key, td)
      BY <1>0, <1>8, <2>1 DEF Take
    <3>2. \A p \in td : p[1] \notin item.from
      BY DEF Matching
    <3> HIDE DEF item, td
    <3>3. Begun(u)
      BY <1>8, <3>1, <3>2, ListIs DEF Begun
    <3> QED
      BY <3>3 DEF Moves
  <2>2. CASE ~(u = Worker /\ ~UNCHANGED task)
    <3>1. task'[u] = task[u]
      BY <1>0, <1>8, <2>2 DEF Take
    <3> QED
      BY <1>0, <3>1 DEF Moves
  <2> QED
    BY <2>1, <2>2
<1>9. CASE Settle
  <2>1. task[Worker].at = "next" /\ task' = [task EXCEPT ![Worker] = Idle]
    BY <1>9 DEF Settle
  <2>2. u = Worker => Over(u)
    BY <1>0, <1>9, <2>1 DEF Over
  <2>3. u # Worker => task'[u] = task[u]
    BY <1>0, <2>1
  <2> QED
    BY <1>0, <2>2, <2>3 DEF Moves
<1>10. CASE GiveUp
  <2>1. u = Quit => Dropped(u)
    BY <1>0, <1>10 DEF GiveUp, Dropped
  <2>2. u # Quit => task'[u] = task[u]
    BY <1>0, <1>10 DEF GiveUp
  <2> QED
    BY <1>0, <2>1, <2>2 DEF Moves
<1>11. CASE UNCHANGED task
  BY <1>0, <1>11 DEF Moves
<1>12. CASE \/ \E r \in Rules : Press(r) \/ Save(r)
            \/ \E on \in BOOLEAN : Regrant(on)
            \/ Notice \/ LooseBegins \/ LooseEnds \/ Switch \/ Drained \/ Abort
  BY <1>11, <1>12 DEF Press, Save, Regrant, Notice, LooseBegins, LooseEnds, Switch, Drained, Abort
<1> QED
  BY <1>1, <1>2, <1>3, <1>4, <1>5, <1>6, <1>7, <1>8, <1>9, <1>10, <1>12 DEF Next
----------------------------------------------------------------------------
(* Jobs are bounded.                                                       *)

Counted ==
  \A t \in Tasks : /\ task[t].acts \in 0..MaxActions
                   /\ task[t].at \in Acting \cup {"fence"} => task[t].acts < MaxActions

\* The steps that a job has left at most
Ahead(j) ==
  CASE j.at = "slot" -> 3 * MaxActions + 4
    [] j.at = "claim" -> 3 * MaxActions + 3
    [] j.at = "insert" -> 3 * MaxActions + 2
    [] j.at = "run" -> 3 * (MaxActions - j.acts) + 1
    [] j.at = "fence" -> 3 * (MaxActions - j.acts)
    [] j.at \in Acting -> 3 * (MaxActions - j.acts) - 1
    [] OTHER -> 0

LEMMA AheadIs ==
  ASSUME NEW j
  PROVE  /\ j.at = "slot" => Ahead(j) = 3 * MaxActions + 4
         /\ j.at = "claim" => Ahead(j) = 3 * MaxActions + 3
         /\ j.at = "insert" => Ahead(j) = 3 * MaxActions + 2
         /\ j.at = "run" => Ahead(j) = 3 * (MaxActions - j.acts) + 1
         /\ j.at = "fence" => Ahead(j) = 3 * (MaxActions - j.acts)
         /\ j.at \in Acting => Ahead(j) = 3 * (MaxActions - j.acts) - 1
         /\ j.at \in AtRest => Ahead(j) = 0
BY DEF Ahead, Acting, AtRest

\* The actions of a job are counted.
LEMMA CountedKept ==
  ASSUME TypeOK, Counted, Next
  PROVE  Counted'
<1> SUFFICES ASSUME NEW t \in Tasks
             PROVE  /\ task'[t].acts \in 0..MaxActions
                    /\ task'[t].at \in Acting \cup {"fence"} => task'[t].acts < MaxActions
  BY DEF Counted
<1>0. /\ Moves(t) /\ task[t].acts \in 0..MaxActions /\ MaxActions \in Nat /\ task[t] \in Jobs
      /\ task[t].at \in Acting \cup {"fence"} => task[t].acts < MaxActions
  BY TaskMoves, HookQueueAssumption DEF Counted, TypeOK
<1>1. CASE Same(task[t], task'[t])
  BY <1>0, <1>1 DEF Same
<1>2. CASE Advance(task[t], task'[t])
  BY <1>0, <1>2 DEF Advance, Acting
<1>3. CASE Back(t) \/ Dropped(t) \/ Begun(t) \/ Over(t)
  <2>1. task'[t].acts = 0 /\ task'[t].at \in AtRest
    BY <1>3, ReturnedIs, ListIs DEF Back, Dropped, Begun, Over, Idle, AtRest
  <2> QED
    BY <1>0, <2>1 DEF AtRest, Acting
<1>4. CASE Chosen(t)
  <2>1. \A p \in task[t].todo : p \in Rules \X Nat
    BY <1>0 DEF Jobs
  <2>2. task'[t].acts = task[t].acts /\ task'[t].at = "slot"
    BY <1>0, <1>4, <2>1, JobIs DEF Chosen
  <2> QED
    BY <1>0, <2>2 DEF Acting
<1>5. CASE Tested(t)
  <2> DEFINE l == List("next", generation, {}, None, {})
  <2>1. l \in Jobs /\ l.acts = 0
    <3>1. "next" \in AtRest /\ generation \in Nat /\ {} \in SUBSET Rules /\ None \in Keys
          /\ {} \in SUBSET (Rules \X Nat)
      BY DEF AtRest, TypeOK, Keys
    <3> QED
      BY <3>1, ListTyped, ListIs
  <2>2. \A r \in Rules : <<r, rules[r].rev>> \in Rules \X Nat
    BY DEF TypeOK
  <2>3. PICK r \in Rules : task'[t] = Job(l, <<r, rules[r].rev>>)
    BY <1>5 DEF Tested
  <2> HIDE DEF l
  <2>4. task'[t].acts = 0 /\ task'[t].at = "slot"
    BY <2>1, <2>2, <2>3, JobIs
  <2> QED
    BY <1>0, <2>4 DEF Acting
<1> QED
  BY <1>0, <1>1, <1>2, <1>3, <1>4, <1>5 DEF Moves

\* A job of a rule stays where it is or comes nearer to its end; the list it is from never
\* grows, and the next step of a list without a job takes one from it or is its end.
JobGoesOn(m, n) ==
  \/ n.at = m.at /\ n.acts = m.acts /\ n.todo = m.todo
  \/ Ahead(n) < Ahead(m) /\ n.todo \subseteq m.todo
ListGoesOn(m, n) ==
  \/ n.at = "next" /\ n.todo = m.todo
  \/ n.at = "slot" /\ n.todo # m.todo /\ n.todo \subseteq m.todo
  \/ n.at = "idle"

LEMMA TasksShrink ==
  ASSUME TypeOK, HasRule, Counted, Next, NEW t \in Tasks
  PROVE  /\ task[t].rule # None => JobGoesOn(task[t], task'[t])
         /\ task[t].at = "next" => ListGoesOn(task[t], task'[t])
<1> DEFINE m == task[t]
<1>0. /\ Moves(t) /\ m \in Jobs /\ MaxActions \in Nat /\ m.acts \in 0..MaxActions
      /\ m.at \in Acting \cup {"fence"} => m.acts < MaxActions
      /\ m.rule = None <=> m.at \in AtRest
  BY TaskMoves, HookQueueAssumption DEF Counted, TypeOK, HasRule
<1>1. CASE Same(m, task'[t])
  BY <1>1 DEF Same, JobGoesOn, ListGoesOn
<1>2. CASE Advance(m, task'[t])
  <2>1. task'[t].todo = m.todo /\ m.at # "next"
    BY <1>2 DEF Advance, Acting
  <2>2. Ahead(task'[t]) < Ahead(m)
    <3>1. CASE m.at = "slot" \/ m.at = "claim"
      BY <1>0, <1>2, <3>1, AheadIs DEF Advance, Acting
    <3>2. CASE m.at = "insert"
      <4>1. task'[t].at = "run" /\ task'[t].acts = m.acts
        BY <1>2, <3>2 DEF Advance, Acting
      <4>2. Ahead(task'[t]) = 3 * (MaxActions - m.acts) + 1 /\ Ahead(m) = 3 * MaxActions + 2
        BY <3>2, <4>1, AheadIs
      <4> QED
        BY <1>0, <4>2
    <3>3. CASE m.at = "run"
      <4>1. task'[t].at = "fence" /\ task'[t].acts = m.acts
        BY <1>2, <3>3 DEF Advance, Acting
      <4>2. Ahead(task'[t]) = 3 * (MaxActions - m.acts)
            /\ Ahead(m) = 3 * (MaxActions - m.acts) + 1
        BY <3>3, <4>1, AheadIs
      <4> QED
        BY <1>0, <4>2
    <3>4. CASE m.at = "fence" /\ task'[t].at \in Acting
      <4>1. task'[t].acts = m.acts
        BY <1>2, <3>4 DEF Advance, Acting
      <4>2. Ahead(task'[t]) = 3 * (MaxActions - m.acts) - 1
            /\ Ahead(m) = 3 * (MaxActions - m.acts)
        BY <3>4, <4>1, AheadIs
      <4> QED
        BY <1>0, <4>2
    <3>5. CASE m.at \in Acting \cup {"fence"} /\ task'[t].at = "run"
      <4>1. task'[t].acts = m.acts + 1
        BY <1>2, <3>5 DEF Advance, Acting
      <4>2. /\ Ahead(task'[t]) = 3 * (MaxActions - (m.acts + 1)) + 1
            /\ Ahead(m) \in {3 * (MaxActions - m.acts), 3 * (MaxActions - m.acts) - 1}
        BY <3>5, <4>1, AheadIs
      <4> QED
        BY <1>0, <4>2
    <3> QED
      BY <1>2, <3>1, <3>2, <3>3, <3>4, <3>5 DEF Advance
  <2> QED
    BY <2>1, <2>2 DEF JobGoesOn
<1>3. CASE Back(t) \/ Dropped(t)
  <2>1. /\ task'[t].at \in AtRest /\ task'[t].todo \subseteq m.todo
        /\ m.at \in {"slot", "claim", "run", "fence", "act"}
    BY <1>3, ReturnedIs, ListIs DEF Back, Dropped, AtRest
  <2>2. Ahead(task'[t]) = 0
    BY <2>1, AheadIs
  <2>3. Ahead(m) > 0
    <3>1. CASE m.at = "slot" \/ m.at = "claim"
      BY <1>0, <3>1, AheadIs
    <3>2. CASE m.at = "run"
      <4>1. Ahead(m) = 3 * (MaxActions - m.acts) + 1
        BY <3>2, AheadIs
      <4> QED
        BY <1>0, <4>1
    <3>3. CASE m.at = "fence" \/ m.at = "act"
      <4>1. /\ m.acts < MaxActions
            /\ Ahead(m) \in {3 * (MaxActions - m.acts), 3 * (MaxActions - m.acts) - 1}
        BY <1>0, <3>3, AheadIs DEF Acting
      <4> QED
        BY <1>0, <4>1
    <3> QED
      BY <2>1, <3>1, <3>2, <3>3
  <2> QED
    BY <2>1, <2>2, <2>3 DEF JobGoesOn
<1>4. CASE Chosen(t)
  <2>1. PICK p \in m.todo : task'[t] = Job(m, p)
    BY <1>4 DEF Chosen
  <2>2. p \in Rules \X Nat
    BY <1>0 DEF Jobs
  <2>3. task'[t].at = "slot" /\ task'[t].todo = m.todo \ {p} /\ m.rule = None
    BY <1>0, <1>4, <2>1, <2>2, JobIs DEF Chosen, AtRest
  <2> QED
    BY <2>3 DEF ListGoesOn
<1>5. CASE Begun(t) \/ Tested(t)
  BY <1>0, <1>5 DEF Begun, Tested, AtRest
<1>6. CASE Over(t)
  BY <1>0, <1>6, IdleTyped DEF Over, AtRest, ListGoesOn
<1> QED
  BY <1>0, <1>1, <1>2, <1>3, <1>4, <1>5, <1>6 DEF Moves

JobsAreBounded ==
  [][\A t \in Tasks : /\ task[t].rule # None => JobGoesOn(task[t], task'[t])
                      /\ task[t].at = "next" => ListGoesOn(task[t], task'[t])]_vars

\* A job takes at most 3n + 4 steps for n actions, flags apart, and a list at most one job
\* for each of its rules: no flag, no refusal of the fence, no event and no edit sends a job
\* back or adds to a list that is being worked on (hooks/mod.rs, execute and event_worker).
THEOREM JobsStayBounded == Spec => JobsAreBounded
<1>1. Init => Counted
  BY HookQueueAssumption DEF Init, Counted, Idle, List, Acting
<1>2. IInv /\ Counted /\ [Next]_vars => Counted'
  BY CountedKept DEF IInv, Counted, vars
<1>3. IInv /\ Counted /\ [Next]_vars =>
        [\A t \in Tasks : /\ task[t].rule # None => JobGoesOn(task[t], task'[t])
                          /\ task[t].at = "next" => ListGoesOn(task[t], task'[t])]_vars
  BY TasksShrink DEF IInv, TasksOK
<1>4. IInv /\ [Next]_vars => IInv'
  BY StaysSound
<1> QED
  BY <1>1, <1>2, <1>3, <1>4, StartsSound, PTL DEF Spec, JobsAreBounded
----------------------------------------------------------------------------
(* No rule is the cause of its own runs.                                   *)

\* A rule is never run, nor listed to be run, for an event that one of its own actions,
\* or an action of a rule it set off, has emitted.
NotItsOwnCause ==
  \A t \in Tasks : /\ task[t].rule # None => task[t].rule \notin task[t].from
                   /\ \A p \in task[t].todo : p[1] \notin task[t].from

LEMMA CausesKept ==
  ASSUME TypeOK, NotItsOwnCause, Next
  PROVE  NotItsOwnCause'
<1> SUFFICES ASSUME NEW t \in Tasks
             PROVE  /\ task'[t].rule # None => task'[t].rule \notin task'[t].from
                    /\ \A p \in task'[t].todo : p[1] \notin task'[t].from
  BY DEF NotItsOwnCause
<1>0. /\ Moves(t) /\ task[t] \in Jobs
      /\ task[t].rule # None => task[t].rule \notin task[t].from
      /\ \A p \in task[t].todo : p[1] \notin task[t].from
  BY TaskMoves DEF NotItsOwnCause, TypeOK
<1>1. CASE Same(task[t], task'[t]) \/ Advance(task[t], task'[t])
  BY <1>0, <1>1 DEF Same, Advance
<1>2. CASE Back(t) \/ Dropped(t) \/ Begun(t) \/ Over(t)
  BY <1>0, <1>2, ReturnedIs, ListIs DEF Back, Dropped, Begun, Over, Idle
<1>3. CASE Chosen(t)
  <2>1. PICK p \in task[t].todo : task'[t] = Job(task[t], p)
    BY <1>3 DEF Chosen
  <2>2. p \in Rules \X Nat
    BY <1>0 DEF Jobs
  <2>3. task'[t].rule = p[1] /\ task'[t].todo = task[t].todo \ {p} /\ task'[t].from = task[t].from
    BY <1>0, <2>1, <2>2, JobIs
  <2> QED
    BY <1>0, <2>3
<1>4. CASE Tested(t)
  <2> DEFINE l == List("next", generation, {}, None, {})
  <2>1. l \in Jobs /\ l.from = {} /\ l.todo = {}
    <3>1. "next" \in AtRest /\ generation \in Nat /\ {} \in SUBSET Rules /\ None \in Keys
          /\ {} \in SUBSET (Rules \X Nat)
      BY DEF AtRest, TypeOK, Keys
    <3> QED
      BY <3>1, ListTyped, ListIs
  <2>2. \A r \in Rules : <<r, rules[r].rev>> \in Rules \X Nat
    BY DEF TypeOK
  <2>3. PICK r \in Rules : task'[t] = Job(l, <<r, rules[r].rev>>)
    BY <1>4 DEF Tested
  <2> HIDE DEF l
  <2>4. task'[t].from = {} /\ task'[t].todo = {}
    BY <2>1, <2>2, <2>3, JobIs
  <2> QED
    BY <2>4
<1> QED
  BY <1>0, <1>1, <1>2, <1>3, <1>4 DEF Moves

\* What an action of a rule adds to the queue has more ancestors than the event the rule
\* runs for, and all of them are rules.
Deeper(t) ==
  queue' # queue => \E item : /\ queue' = Append(queue, item)
                              /\ task[t].from \subseteq item.from /\ item.from # task[t].from
                              /\ item.from \subseteq Rules

LEMMA EmitsDeeper ==
  ASSUME TypeOK, TasksOK, NotItsOwnCause, Next, NEW t \in Tasks,
         task[t].at = "emit", task'[t].at # "emit"
  PROVE  Deeper(t)
<1>0. /\ task \in [Tasks -> Jobs] /\ task[t] \in Jobs
      /\ task[t].rule \in Rules /\ task[t].rule \notin task[t].from
  BY DEF TypeOK, TasksOK, HasRule, AtRest, NotItsOwnCause, Jobs
<1>1. Advance(task[t], task'[t])
  BY TaskMoves DEF Moves, Same, Back, Dropped, Begun, Chosen, Over, Tested
<1>2. CASE Emit(t)
  <2> DEFINE item == Item(None, task[t].from \cup {task[t].rule})
  <2>1. UNCHANGED queue \/ queue' = Append(queue, item)
    BY <1>2 DEF Emit, Offer
  <2>2. item.from = task[t].from \cup {task[t].rule}
    BY DEF Item
  <2>3. task[t].from \subseteq Rules
    BY <1>0 DEF Jobs
  <2> QED
    BY <1>0, <2>1, <2>2, <2>3 DEF Deeper
<1>3. CASE UNCHANGED queue
  BY <1>3 DEF Deeper
<1>4. Emit(t) \/ UNCHANGED queue
  <2>0. task'[t].at = "run" /\ task'[t] # task[t]
    BY <1>1 DEF Advance, Acting
  <2>1. ASSUME NEW u \in Tasks, Execute(u) PROVE Emit(t) \/ UNCHANGED queue
    <3>1. CASE u # t
      BY <2>0, <2>1, <3>1, ExecuteTable
    <3>2. CASE u = t
      BY <2>1, <3>2 DEF Execute, Acquire, SlotTimeout, Claim, Insert, Dispatch, Begin, Refuse, Perform,
                        Finish
    <3> QED
      BY <3>1, <3>2
  <2>2. ASSUME NEW r \in Rules, Press(r) \/ Save(r) PROVE UNCHANGED task
    BY <2>2 DEF Press, Save
  <2>3. ASSUME NEW u, Start(u) \/ Cancel(u) PROVE UNCHANGED queue
    BY <2>3 DEF Start, Cancel
  <2>4. ASSUME NEW u, NEW r, Test(u, r) PROVE UNCHANGED queue
    BY <2>4 DEF Test
  <2>5. ASSUME NEW on, Regrant(on) PROVE UNCHANGED queue
    BY <2>5 DEF Regrant
  <2>6. Notice => UNCHANGED task
    BY DEF Notice
  <2>7. Take \/ Settle => UNCHANGED queue \/ task'[t] = task[t]
    <3>1. CASE Take
      <4>1. task[Worker].at = "idle"
        BY <3>1 DEF Take
      <4>2. t # Worker
        BY <4>1
      <4> QED
        BY <1>0, <3>1, <4>2 DEF Take
    <3>2. CASE Settle
      BY <3>2 DEF Settle
    <3> QED
      BY <3>1, <3>2
  <2>8. LooseBegins \/ LooseEnds \/ GiveUp \/ CancelRule \/ Switch \/ Reconciled => UNCHANGED queue
    BY DEF LooseBegins, LooseEnds, GiveUp, CancelRule, Switch, Reconciled
  <2>9. Ask \/ Reserve \/ Refused \/ ReserveDirectly \/ Drain \/ Drained \/ Abort \/ Shutdown
          => UNCHANGED queue
    BY DEF Ask, Reserve, Refused, ReserveDirectly, Drain, Drained, Abort, Shutdown
  <2> QED
    BY <2>0, <2>1, <2>2, <2>3, <2>4, <2>5, <2>6, <2>7, <2>8, <2>9 DEF Next
<1> QED
  BY <1>2, <1>3, <1>4

ChainsDeepen ==
  [][\A t \in Tasks : task[t].at = "emit" /\ task'[t].at # "emit" => Deeper(t)]_vars

\* Rules that set each other off come to an end: no chain of events is longer than there
\* are rules, whatever the rules emit and however they are edited meanwhile, because a
\* chain never comes back to a rule it went through (hooks/mod.rs, child_event and
\* Rule::matches).
THEOREM ChainsEnd == Spec => []NotItsOwnCause /\ ChainsDeepen
<1>1. Init => NotItsOwnCause
  BY DEF Init, NotItsOwnCause, Idle, List
<1>2. IInv /\ NotItsOwnCause /\ [Next]_vars => NotItsOwnCause'
  BY CausesKept DEF IInv, NotItsOwnCause, vars
<1>3. IInv /\ NotItsOwnCause /\ [Next]_vars =>
        [\A t \in Tasks : task[t].at = "emit" /\ task'[t].at # "emit" => Deeper(t)]_vars
  BY EmitsDeeper DEF IInv
<1>4. IInv /\ [Next]_vars => IInv'
  BY StaysSound
<1> QED
  BY <1>1, <1>2, <1>3, <1>4, StartsSound, PTL DEF Spec, ChainsDeepen
----------------------------------------------------------------------------
(* A key is pending exactly while an event of it is on its way.            *)

Hand == task[Worker].key
InQueue(k) == \E i \in 1..Len(queue) : queue[i].key = k

\* A shortcut or a schedule is held back while, and only while, one event of this revision
\* waits in the queue or is being worked on; there is never a second one.
KeysAgree ==
  /\ \A k \in Rules \X Nat : k \in pending <=> k = Hand \/ InQueue(k)
  /\ \A i, j \in 1..Len(queue) : queue[i].key # None /\ queue[i].key = queue[j].key => i = j
  /\ \A k \in Rules \X Nat : k = Hand => ~InQueue(k)

Unburdened == task[Worker].at = "idle" => Hand = None
KeysOK == KeysAgree /\ Unburdened

LEMMA WorkerIsOne == Worker \in Tasks /\ Worker # Quit /\ Worker \notin Tests
BY HookQueueAssumption DEF Tasks

\* Only Take and Settle change the key in hand.
LEMMA HandKept ==
  ASSUME TypeOK, Unburdened, Next, ~Take, ~Settle
  PROVE  Hand' = Hand /\ Unburdened'
<1>0. Moves(Worker) /\ task[Worker] \in Jobs
  BY TaskMoves, WorkerIsOne DEF TypeOK
<1>1. CASE Same(task[Worker], task'[Worker]) \/ Advance(task[Worker], task'[Worker])
  BY <1>1 DEF Same, Advance, Unburdened, Hand, Acting
<1>2. CASE Back(Worker)
  BY <1>2, WorkerIsOne, ReturnedIs DEF Back, Unburdened, Hand
<1>3. CASE Chosen(Worker)
  <2>1. PICK p \in task[Worker].todo : task'[Worker] = Job(task[Worker], p)
    BY <1>3 DEF Chosen
  <2>2. p \in Rules \X Nat
    BY <1>0 DEF Jobs
  <2> QED
    BY <1>0, <2>1, <2>2, JobIs DEF Unburdened, Hand
<1> QED
  BY <1>0, <1>1, <1>2, <1>3, WorkerIsOne DEF Moves, Dropped, Begun, Over, Tested

LEMMA OfferKeys ==
  ASSUME TypeOK, KeysOK, NEW item \in Items, item.key = None \/ item.key \notin pending, Offer(item),
         Hand' = Hand
  PROVE  KeysAgree'
<1>0. /\ queue \in Seq(Items) /\ pending \in SUBSET (Rules \X Nat)
      /\ None \notin Rules \X Nat /\ item.key \in (Rules \X Nat) \cup {None}
      /\ Len(queue) \in Nat
  BY HookQueueAssumption DEF TypeOK, Items, Keys
<1>1. CASE UNCHANGED <<queue, pending>>
  BY <1>1 DEF KeysOK, KeysAgree, InQueue
<1>2. CASE queue' = Append(queue, item) /\ pending' = pending \cup ({item.key} \ {None})
  <2> DEFINE n == Len(queue)
  <2>1. /\ Len(queue') = n + 1 /\ queue'[n + 1] = item
        /\ \A i \in 1..n : queue'[i] = queue[i]
    <3> HIDE DEF Items
    <3> QED
      BY <1>0, <1>2
  <2>2. \A i \in 1..(n + 1) : i = n + 1 \/ i \in 1..n
    BY <1>0
  <2>3. n + 1 \in 1..(n + 1) /\ \A i \in 1..n : i \in 1..(n + 1)
    BY <1>0
  <2>4. \A k : InQueue(k)' <=> InQueue(k) \/ item.key = k
    BY <2>1, <2>2, <2>3 DEF InQueue
  <2>5. item.key # None => ~InQueue(item.key) /\ item.key # Hand
    BY <1>0 DEF KeysOK, KeysAgree
  <2>6. \A k \in Rules \X Nat : k \in pending' <=> k = Hand' \/ InQueue(k)'
    BY <1>0, <1>2, <2>4 DEF KeysOK, KeysAgree
  <2>7. ASSUME NEW i \in 1..(n + 1), NEW j \in 1..(n + 1),
               queue'[i].key # None, queue'[i].key = queue'[j].key
        PROVE  i = j
    <3>1. CASE i \in 1..n /\ j \in 1..n
      BY <2>1, <2>7, <3>1 DEF KeysOK, KeysAgree
    <3>2. CASE i = n + 1 /\ j \in 1..n
      BY <2>1, <2>5, <2>7, <3>2 DEF InQueue
    <3>3. CASE i \in 1..n /\ j = n + 1
      BY <2>1, <2>5, <2>7, <3>3 DEF InQueue
    <3> QED
      BY <2>2, <3>1, <3>2, <3>3
  <2>8. \A k \in Rules \X Nat : k = Hand' => ~InQueue(k)'
    BY <1>0, <2>4, <2>5 DEF KeysOK, KeysAgree
  <2> QED
    BY <2>1, <2>6, <2>7, <2>8 DEF KeysAgree
<1> QED
  BY <1>1, <1>2 DEF Offer

LEMMA TakeKeys ==
  ASSUME TypeOK, KeysOK, Take
  PROVE  KeysOK'
<1> DEFINE n == Len(queue)
<1>a. PICK item : item = Head(queue)
  OBVIOUS
<1>0. /\ queue \in Seq(Items) /\ pending \in SUBSET (Rules \X Nat) /\ queue # <<>>
      /\ None \notin Rules \X Nat /\ item \in Items /\ item.key \in (Rules \X Nat) \cup {None}
      /\ task \in [Tasks -> Jobs]
  BY <1>a, HookQueueAssumption, HeadTyped DEF TypeOK, Items, Keys, Take
<1>1. /\ n \in Nat \ {0} /\ item = queue[1] /\ queue' = Tail(queue) /\ Len(queue') = n - 1
      /\ \A i \in 1..(n - 1) : queue'[i] = queue[i + 1]
  <2>1. queue' = Tail(queue)
    BY DEF Take
  <2> HIDE DEF Items
  <2> QED
    BY <1>a, <1>0, <2>1
<1>2. Hand = None /\ task[Worker].at = "idle"
  BY DEF Take, KeysOK, Unburdened
<1>3. \A i \in 1..(n - 1) : i + 1 \in 1..n /\ i + 1 # 1
  BY <1>1
<1>4. \A i \in 1..n : i = 1 \/ (i - 1 \in 1..(n - 1) /\ (i - 1) + 1 = i)
  BY <1>1
<1>5. 1 \in 1..n
  BY <1>1
<1>6. item.key # None => ~InQueue(item.key)'
  <2> SUFFICES ASSUME item.key # None, NEW i \in 1..(n - 1), queue'[i].key = item.key
               PROVE  FALSE
    BY <1>1 DEF InQueue
  <2>1. queue[i + 1].key = queue[1].key /\ i + 1 \in 1..n /\ i + 1 # 1
    BY <1>1, <1>3
  <2> QED
    BY <1>1, <1>5, <2>1 DEF KeysOK, KeysAgree
<1>7. \A k : InQueue(k) <=> InQueue(k)' \/ k = item.key
  <2> SUFFICES ASSUME NEW k PROVE InQueue(k) <=> InQueue(k)' \/ k = item.key
    OBVIOUS
  <2>1. ASSUME InQueue(k)' PROVE InQueue(k)
    <3>1. PICK i \in 1..(n - 1) : queue'[i].key = k
      BY <1>1, <2>1 DEF InQueue
    <3> QED
      BY <1>1, <1>3, <3>1 DEF InQueue
  <2>2. k = item.key => InQueue(k)
    BY <1>1, <1>5 DEF InQueue
  <2>3. ASSUME InQueue(k), k # item.key PROVE InQueue(k)'
    <3>1. PICK i \in 1..n : queue[i].key = k
      BY <2>3 DEF InQueue
    <3>2. i - 1 \in 1..(n - 1) /\ (i - 1) + 1 = i
      BY <1>1, <1>4, <2>3, <3>1
    <3>3. queue'[i - 1].key = k
      BY <1>1, <3>1, <3>2
    <3> QED
      BY <1>1, <3>2, <3>3 DEF InQueue
  <2> QED
    BY <2>1, <2>2, <2>3
<1>8. \/ Hand' = item.key /\ task'[Worker].at = "next" /\ UNCHANGED pending
      \/ Hand' = None /\ UNCHANGED task /\ pending' = pending \ {item.key}
  BY <1>a, <1>0, <1>2, WorkerIsOne, ListIs DEF Take, Hand
<1>9. \A i, j \in 1..Len(queue') :
        queue'[i].key # None /\ queue'[i].key = queue'[j].key => i = j
  <2> SUFFICES ASSUME NEW i \in 1..(n - 1), NEW j \in 1..(n - 1),
                      queue'[i].key # None, queue'[i].key = queue'[j].key
               PROVE  i = j
    BY <1>1
  <2>1. i + 1 = j + 1
    BY <1>1, <1>3 DEF KeysOK, KeysAgree
  <2> QED
    BY <2>1
<1>10. \A k \in Rules \X Nat : k \in pending' <=> k = Hand' \/ InQueue(k)'
  BY <1>0, <1>2, <1>6, <1>7, <1>8 DEF KeysOK, KeysAgree
<1>11. \A k \in Rules \X Nat : k = Hand' => ~InQueue(k)'
  BY <1>0, <1>6, <1>8
<1> QED
  BY <1>2, <1>8, <1>9, <1>10, <1>11 DEF KeysOK, KeysAgree, Unburdened, Hand

LEMMA SettleKeys ==
  ASSUME TypeOK, KeysOK, Settle
  PROVE  KeysOK'
<1>0. task \in [Tasks -> Jobs] /\ pending \in SUBSET (Rules \X Nat) /\ None \notin Rules \X Nat
  BY HookQueueAssumption DEF TypeOK
<1>1. /\ Hand' = None /\ pending' = pending \ {Hand} /\ UNCHANGED queue
  BY <1>0, WorkerIsOne, ListIs DEF Settle, Hand, Idle
<1>2. \A k : InQueue(k)' <=> InQueue(k)
  BY <1>1 DEF InQueue
<1>3. \A k \in Rules \X Nat : k \in pending' <=> k = Hand' \/ InQueue(k)'
  BY <1>0, <1>1, <1>2 DEF KeysOK, KeysAgree
<1>4. \A k \in Rules \X Nat : k = Hand' => ~InQueue(k)'
  BY <1>0, <1>1
<1>5. \A i, j \in 1..Len(queue') :
        queue'[i].key # None /\ queue'[i].key = queue'[j].key => i = j
  BY <1>1 DEF KeysOK, KeysAgree
<1> QED
  BY <1>1, <1>3, <1>4, <1>5 DEF KeysOK, KeysAgree, Unburdened

LEMMA KeysKept ==
  ASSUME TypeOK, TasksOK, KeysOK, Next
  PROVE  KeysOK'
<1>1. CASE Take \/ Settle
  BY <1>1, TakeKeys, SettleKeys
<1>2. CASE ~(Take \/ Settle)
  <2>1. Hand' = Hand /\ Unburdened'
    BY <1>2, HandKept DEF KeysOK
  <2>2. CASE UNCHANGED queueVars
    BY <2>1, <2>2 DEF KeysOK, KeysAgree, InQueue
  <2>3. ASSUME NEW r \in Rules, Press(r) PROVE KeysAgree'
    <3>1. <<r, rules[r].rev>> \in Keys /\ {} \in SUBSET Rules
      BY DEF TypeOK, Keys
    <3>2. Item(<<r, rules[r].rev>>, {}) \in Items
      BY <3>1, ItemTyped
    <3>3. Item(<<r, rules[r].rev>>, {}).key \notin pending /\ Offer(Item(<<r, rules[r].rev>>, {}))
      BY <2>3 DEF Press, Item
    <3> QED
      BY <2>1, <3>2, <3>3, OfferKeys
  <2>4. CASE Notice
    <3>1. None \in Keys /\ {} \in SUBSET Rules
      BY DEF Keys
    <3>2. Item(None, {}) \in Items /\ Item(None, {}).key = None
      BY <3>1, ItemTyped DEF Item
    <3>3. Offer(Item(None, {}))
      BY <2>4 DEF Notice
    <3>4. KeysAgree'
      BY <2>1, <3>2, <3>3, OfferKeys
    <3> QED
      BY <2>1, <3>4 DEF KeysOK
  <2>5. ASSUME NEW t \in Tasks, Emit(t), ~UNCHANGED queueVars PROVE KeysAgree'
    <3> DEFINE from == task[t].from \cup {task[t].rule}
    <3>1. task[t] \in Jobs /\ task[t].rule \in Rules
      BY <2>5 DEF TasksOK, HasRule, AtRest, Emit, Jobs
    <3>2. None \in Keys /\ from \in SUBSET Rules
      BY <3>1 DEF Keys, Jobs
    <3>3. Item(None, from) \in Items /\ Item(None, from).key = None
      BY <3>2, ItemTyped DEF Item
    <3> QED
      BY <2>1, <2>5, <3>3, OfferKeys DEF Emit
  <2>6. \/ \E r \in Rules : Press(r)
        \/ \E t \in Tasks : Emit(t)
        \/ Notice \/ UNCHANGED queueVars
    BY <1>2, QueueMoves
  <2> QED
    BY <2>1, <2>2, <2>3, <2>4, <2>5, <2>6 DEF KeysOK
<1> QED
  BY <1>1, <1>2

\* No key is left behind, which would silence its shortcut or schedule for good, and none
\* is freed early, which would let events of a held key pile up: whether the queue was
\* full, the event was taken after a change of the grant, or its run was stopped, refused
\* or cut off by an exit (hooks/mod.rs, emit and event_worker).
THEOREM KeysAlwaysAgree == Spec => []KeysAgree
<1>1. Init => KeysOK
  <2> SUFFICES ASSUME Init PROVE KeysOK
    OBVIOUS
  <2>1. Hand = None /\ queue = <<>> /\ pending = {}
    BY WorkerIsOne, ListIs DEF Init, Hand, Idle
  <2>2. 1..Len(queue) = {}
    BY <2>1
  <2> QED
    BY <2>1, <2>2, HookQueueAssumption DEF KeysOK, KeysAgree, Unburdened, InQueue
<1>2. IInv /\ KeysOK /\ [Next]_vars => KeysOK'
  BY KeysKept DEF IInv, KeysOK, KeysAgree, Unburdened, InQueue, Hand, vars
<1>3. IInv /\ [Next]_vars => IInv'
  BY StaysSound
<1>4. KeysOK => KeysAgree
  BY DEF KeysOK
<1> QED
  BY <1>1, <1>2, <1>3, <1>4, StartsSound, PTL DEF Spec
=============================================================================
