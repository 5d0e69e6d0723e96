--------------------------- MODULE AgentLoopProofs ---------------------------
(***************************************************************************)
(* Proofs about AgentLoop, for every number of runs, scenes, rounds and    *)
(* calls, changes of the plugin, failed writes and changes by others.      *)
(***************************************************************************)
EXTENDS AgentLoop, FiniteSetTheorems, TLAPS

\* The bookkeeping of a step, which every proof below has to see through
USE DEF NotMine, Quiet, NoWork, NoWrite, WriteFails, Goto, Finish, Receipt, Leave, Stop,
        Unregister, Signal, WorkOnly, NothingSaved, At, storeVars, taskVars, workVars,
        pluginVars

\* A turn was admitted within the limits, and a worker knows its call.
InTurn   == \A r \in Runs : pc[r] \in {"calls", "mark", "local", "remote", "wire"} =>
                              round[r] + 1 < MaxRounds
JobKnown == \A r \in Runs : worker[r] # "none" \/ pc[r] = "wire" => job[r] \in Slots

Types == TypeOK /\ InTurn /\ JobKnown

LEMMA PhasesStay ==
  ASSUME NEW phases \in [Slots -> Phases]
  PROVE  SettledCalls(phases) \in [Slots -> Phases]
BY DEF SettledCalls, Phases

LEMMA EndRunsTyped ==
  ASSUME TypeOK, NEW R \in SUBSET Runs, NEW end \in Statuses, EndRuns(R, end)
  PROVE  /\ status' \in [Runs -> Statuses] /\ sceneOf' = sceneOf
         /\ rev' \in [Scenes -> Nat] /\ call' \in [Runs -> [Slots -> Phases]]
         /\ failures' = failures /\ lost' \subseteq Runs
BY PhasesStay DEF TypeOK, EndRuns

LEMMA BeginTyped ==
  ASSUME Types, NEW r \in Runs, Begin(r)
  PROVE  Types'
<1> USE AgentLoopAssumption DEF Types, TypeOK, InTurn, JobKnown, Statuses, PCs, InTask, InWork, InLoop
<1>1. ASSUME NEW s \in Scenes, NEW k \in {"core", "external"}, Preflight(r, s, k) PROVE Types'
  BY <1>1 DEF Preflight, Editions
<1>2. CASE Start(r)
  <2>1. rev' \in [Scenes -> Nat]
    BY <1>2 DEF Start
  <2>2. pc' \in [Runs -> PCs] /\ status' \in [Runs -> Statuses]
    BY <1>2 DEF Start
  <2> QED
    BY <1>2, <2>1, <2>2 DEF Start
<1>3. CASE SetupFails(r)
  <2>1. rev' \in [Scenes -> Nat]
    BY <1>3 DEF SetupFails
  <2>2. status' \in [Runs -> Statuses] /\ lost' \subseteq Runs
    BY <1>3, ZenonT(60) DEF SetupFails
  <2>3. failures' \in 0..MaxFailures
    BY <1>3 DEF SetupFails
  <2> QED
    BY <1>3, <2>1, <2>2, <2>3 DEF SetupFails
<1>4. CASE Refuse(r)
  BY <1>4 DEF Refuse
<1> QED
  BY <1>1, <1>2, <1>3, <1>4 DEF Begin

LEMMA CallTyped ==
  ASSUME Types, NEW r \in Runs, Call(r)
  PROVE  Types'
<1> USE AgentLoopAssumption DEF Types, TypeOK, InTurn, JobKnown, PCs, InTask, InWork, InLoop,
                                Phases, Stages, Working
<1> SUFFICES ASSUME NEW i \in Slots,
                    NextCall(r, i) \/ Mark(r, i) \/ Dispatch(r, i) \/ NotSent(r, i)
             PROVE  Types'
  BY DEF Call
<1>1. CASE NextCall(r, i)
  <2>1. pc' \in [Runs -> PCs] /\ result' \in [Runs -> {"none", "answer", "error"}]
    BY <1>1, ZenonT(60) DEF NextCall
  <2>2. InTurn' /\ JobKnown'
    BY <1>1 DEF NextCall
  <2>3. call' \in [Runs -> [Slots -> Phases]]
    <3>1. call' = call \/ call' = [call EXCEPT ![r][i] = "notsent"]
      BY <1>1 DEF NextCall
    <3>2. CASE call' = call
      BY <3>2
    <3>3. CASE call' = [call EXCEPT ![r][i] = "notsent"]
      BY <3>3
    <3> QED
      BY <3>1, <3>2, <3>3
  <2>4. UNCHANGED <<round, job, status, sceneOf, rev, failures, lost>>
    BY <1>1 DEF NextCall
  <2> QED
    BY <1>1, <2>1, <2>2, <2>3, <2>4 DEF NextCall
<1>2. CASE Mark(r, i)
  BY <1>2 DEF Mark
<1>3. CASE Dispatch(r, i)
  BY <1>3 DEF Dispatch
<1>4. CASE NotSent(r, i)
  BY <1>4, ZenonT(60) DEF NotSent
<1> QED
  BY <1>1, <1>2, <1>3, <1>4

LEMMA StepTyped ==
  ASSUME Types, NEW r \in Runs, Step(r)
  PROVE  Types'
<1> USE AgentLoopAssumption DEF Types, TypeOK, InTurn, JobKnown, PCs, InTask, InWork, InLoop,
                                Phases, Stages
<1>1. CASE Attach(r)
  <2>1. pc' \in [Runs -> PCs] /\ result' \in [Runs -> {"none", "answer", "error"}]
    BY <1>1 DEF Attach
  <2>2. InTurn' /\ JobKnown'
    BY <1>1 DEF Attach
  <2> QED
    BY <1>1, <2>1, <2>2 DEF Attach
<1>2. CASE Prepare(r)
  <2>1. pc' \in [Runs -> PCs] /\ result' \in [Runs -> {"none", "answer", "error"}]
    BY <1>2 DEF Prepare
  <2>2. InTurn' /\ JobKnown'
    BY <1>2 DEF Prepare
  <2> QED
    BY <1>2, <2>1, <2>2 DEF Prepare
<1>3. CASE Top(r)
  <2>1. pc' \in [Runs -> PCs] /\ result' \in [Runs -> {"none", "answer", "error"}]
    BY <1>3 DEF Top
  <2>2. InTurn' /\ JobKnown'
    BY <1>3 DEF Top
  <2> QED
    BY <1>3, <2>1, <2>2 DEF Top
<1>4. CASE Send(r)
  <2>1. pc' \in [Runs -> PCs] /\ result' \in [Runs -> {"none", "answer", "error"}]
    BY <1>4 DEF Send
  <2>2. InTurn' /\ JobKnown'
    BY <1>4 DEF Send
  <2> QED
    BY <1>4, <2>1, <2>2 DEF Send
<1>5. ASSUME NEW k \in 0..MaxTurn, Answer(r, k) PROVE Types'
  BY <1>5 DEF Answer
<1>6. CASE AnswerFails(r)
  BY <1>6 DEF AnswerFails
<1>7. CASE Admit(r)
  <2>1. pc' \in [Runs -> PCs] /\ result' \in [Runs -> {"none", "answer", "error"}]
    BY <1>7, ZenonT(60) DEF Admit
  <2>2. InTurn' /\ JobKnown'
    BY <1>7 DEF Admit, WithinBudget
  <2>3. call' \in [Runs -> [Slots -> Phases]]
    BY <1>7, SMTT(30) DEF Admit
  <2> QED
    BY <1>7, <2>1, <2>2, <2>3 DEF Admit
<1>8. CASE Call(r)
  BY <1>8, CallTyped
<1>9. CASE TurnEnds(r)
  BY <1>9 DEF TurnEnds
<1>10. CASE MarkFails(r)
  BY <1>10 DEF MarkFails
<1>11. CASE Poll(r)
  BY <1>11 DEF Poll
<1>12. CASE Collect(r)
  BY <1>12, ZenonT(60) DEF Collect, LocalReply
<1>13. CASE RemoteEnds(r)
  BY <1>13 DEF RemoteEnds
<1>14. ASSUME NEW phase \in {"replied", "unknown"}, Reply(r, phase) PROVE Types'
  BY <1>14, ZenonT(60) DEF Reply
<1>15. CASE Retain(r)
  BY <1>15 DEF Retain
<1>16. ASSUME NEW with \in {"answer", "error"}, ExtensionReturns(r, with) PROVE Types'
  BY <1>16 DEF ExtensionReturns
<1>17. CASE Abort(r)
  BY <1>17, EndRunsTyped DEF Abort, Statuses
<1>18. CASE Settle(r)
  BY <1>18, EndRunsTyped DEF Settle, Statuses
<1> QED
  BY <1>1, <1>2, <1>3, <1>4, <1>5, <1>6, <1>7, <1>8, <1>9, <1>10, <1>11, <1>12, <1>13, <1>14, <1>15, <1>16, <1>17, <1>18 DEF Step

LEMMA WorkTyped ==
  ASSUME Types, NEW r \in Runs, Work(r)
  PROVE  Types'
<1> USE AgentLoopAssumption DEF Types, TypeOK, InTurn, JobKnown, Stages, Working
<1>1. CASE TakeQueue(r)
  BY <1>1 DEF TakeQueue
<1>2. CASE Load(r)
  BY <1>2 DEF Load
<1>3. CASE Stage(r)
  BY <1>3 DEF Stage
<1>4. CASE CheckAgain(r)
  BY <1>4 DEF CheckAgain
<1>5. CASE Compare(r)
  BY <1>5 DEF Compare
<1>6. CASE Persist(r)
  BY <1>6 DEF Persist
<1>7. CASE GiveUp(r)
  BY <1>7 DEF GiveUp
<1> QED
  BY <1>1, <1>2, <1>3, <1>4, <1>5, <1>6, <1>7 DEF Work

LEMMA CutShortTyped ==
  ASSUME Types, NEW r \in Runs,
         Timeout(r) \/ Interrupt(r) \/ Notice(r) \/ JournalFails(r)
  PROVE  Types'
<1> USE AgentLoopAssumption DEF Types, TypeOK, InTurn, JobKnown, PCs, InTask, InWork, InLoop
<1>1. CASE Timeout(r)
  <2>1. pc' \in [Runs -> PCs] /\ result' \in [Runs -> {"none", "answer", "error"}]
    BY <1>1 DEF Timeout
  <2>2. InTurn' /\ JobKnown'
    BY <1>1 DEF Timeout
  <2>3. stopped' \subseteq Runs /\ UNCHANGED <<round, worker, job, base, mutex, file>>
    BY <1>1 DEF Timeout
  <2> QED
    BY <1>1, <2>1, <2>2, <2>3 DEF Timeout
<1>2. CASE Interrupt(r)
  <2>1. pc' \in [Runs -> PCs] /\ result' \in [Runs -> {"none", "answer", "error"}]
    BY <1>2 DEF Interrupt
  <2>2. InTurn' /\ JobKnown'
    BY <1>2 DEF Interrupt
  <2>3. stopped' \subseteq Runs /\ UNCHANGED <<round, worker, job, base, mutex, file>>
    BY <1>2 DEF Interrupt
  <2> QED
    BY <1>2, <2>1, <2>2, <2>3 DEF Interrupt
<1>3. CASE Notice(r)
  BY <1>3 DEF Notice
<1>4. CASE JournalFails(r)
  BY <1>4 DEF JournalFails
<1> QED
  BY <1>1, <1>2, <1>3, <1>4

LEMMA SettlePluginsTyped ==
  ASSUME Types, NEW now \in Editions, NEW F \in SUBSET Runs, SettlePlugins(now, F)
  PROVE  Types'
<1> USE AgentLoopAssumption DEF Types, TypeOK, InTurn, JobKnown
<1>1. Cardinality(F) \in Nat
  BY FS_Subset, FS_CardinalityType
<1>2. status' \in [Runs -> Statuses] /\ call' \in [Runs -> [Slots -> Phases]]
  BY PhasesStay DEF SettlePlugins, Statuses
<1>3. rev' \in [Scenes -> Nat] /\ failures' \in 0..MaxFailures /\ lost' \subseteq Runs
  BY <1>1 DEF SettlePlugins, Outdated
<1> QED
  BY <1>2, <1>3 DEF SettlePlugins

LEMMA OthersTyped ==
  ASSUME Types, Others
  PROVE  Types'
<1> USE AgentLoopAssumption DEF Types, TypeOK, InTurn, JobKnown
<1>1. ASSUME NEW r \in Runs, Cancel(r) PROVE Types'
  BY <1>1, EndRunsTyped DEF Cancel, Statuses
<1>2. ASSUME NEW r \in Runs, RevokeLease(r) PROVE Types'
  BY <1>2 DEF RevokeLease
<1>3. ASSUME NEW enable \in BOOLEAN, ChangePlugins(enable) PROVE Types'
  BY <1>3 DEF ChangePlugins, Editions
<1>4. CASE Foreign
  BY <1>4 DEF Foreign
<1> QED
  BY <1>1, <1>2, <1>3, <1>4 DEF Others

LEMMA InitTyped == Init => Types
<1> SUFFICES ASSUME Init PROVE Types
  OBVIOUS
<1> USE AgentLoopAssumption DEF Init
<1>1. catalog \in Editions /\ edition \in Editions /\ held \in [Runs -> Editions]
  BY DEF Editions
<1>2. status \in [Runs -> Statuses] /\ call \in [Runs -> [Slots -> Phases]]
  BY DEF Statuses, Phases
<1>3. pc \in [Runs -> PCs] /\ worker \in [Runs -> Stages]
  BY DEF PCs, Stages
<1>4. InTurn /\ JobKnown
  BY DEF InTurn, JobKnown
<1>5. /\ sceneOf \in [Runs -> Scenes \cup {Nobody}] /\ \A r \in Runs : pc[r] = "idle"
      /\ rev \in [Scenes -> Nat] /\ seen \in [Runs -> Nat] /\ base \in [Runs -> Nat]
      /\ round \in [Runs -> 0..(MaxRounds - 1)] /\ job \in [Runs -> {0} \cup Slots]
      /\ kind \in [Runs -> {"core", "external"}]
      /\ result \in [Runs -> {"none", "answer", "error"}]
      /\ failures \in 0..MaxFailures /\ foreign \in 0..MaxForeign
  OBVIOUS
<1> QED
  BY <1>1, <1>2, <1>3, <1>4, <1>5 DEF Types, TypeOK, Editions

LEMMA NextTyped ==
  ASSUME Types, [Next]_vars
  PROVE  Types'
<1>1. CASE Next
  BY <1>1, BeginTyped, StepTyped, WorkTyped, CutShortTyped, SettlePluginsTyped, OthersTyped
     DEF Next, SettleAny
<1>2. CASE UNCHANGED vars
  BY <1>2 DEF Types, TypeOK, InTurn, JobKnown, vars
<1> QED
  BY <1>1, <1>2

\* Every variable keeps its type: in particular no run asks the model more than MaxRounds
\* times, whatever the answers propose, and no more writes fail than the bound says
\* (agent_loop.rs:15).
THEOREM TypeCorrect == Spec => []TypeOK
<1>1. Spec => []Types
  BY InitTyped, NextTyped, PTL DEF Spec
<1>2. Types => TypeOK
  BY DEF Types
<1> QED
  BY <1>1, <1>2, PTL

-----------------------------------------------------------------------------
(* Who ends a run.  A run in the hands of its task that is not registered  *)
(* with a current grant has ended already, unless its end could not be     *)
(* saved; a run that is lost never gets its authority back.                *)

NeverStarted == \A r \in Runs : pc[r] \in {"idle", "preflight"} => status[r] = "none" /\ r \notin lost

Held == failures = 0 =>
  \A r \in Runs : pc[r] \in InTask /\ Running(r) /\ kind[r] = "core" =>
                    r \in registered /\ r \in granted /\ optional = held[r]

LostForGood == \A r \in lost : ~Running(r) \/ r \notin registered
                                \/ (kind[r] = "external" /\ r \in canceled)

Life == Types /\ NeverStarted /\ Held /\ LostForGood /\ Tended

lifeVars == <<optional, registered, granted, status, kind, held, lost, canceled>>

\* Most steps of a task leave all that alone.
OnlyMoves == /\ UNCHANGED lifeVars
             /\ failures' \in Nat /\ failures' >= failures
             /\ \A r \in Runs : pc'[r] = pc[r] \/ (pc[r] \in InTask /\ pc'[r] \in InTask)

LEMMA OnlyMovesKeepsLife ==
  ASSUME Life, Types', OnlyMoves
  PROVE  Life'
<1> USE DEF Life, OnlyMoves, lifeVars, Running
<1>0. failures \in Nat /\ (failures' = 0 => failures = 0)
  BY AgentLoopAssumption DEF Types, TypeOK
<1>1. NeverStarted'
  BY DEF NeverStarted, InTask, InWork, InLoop
<1>2. Held' /\ Tended'
  BY <1>0 DEF Held, Tended
<1>3. LostForGood'
  BY DEF LostForGood
<1> QED
  BY <1>1, <1>2, <1>3

LEMMA CallMoves ==
  ASSUME Types, NEW r \in Runs, Call(r)
  PROVE  OnlyMoves
<1> USE DEF Types, TypeOK, OnlyMoves, lifeVars, InTask, InWork, InLoop
<1> SUFFICES ASSUME NEW i \in Slots,
                    NextCall(r, i) \/ Mark(r, i) \/ Dispatch(r, i) \/ NotSent(r, i)
             PROVE  OnlyMoves
  BY DEF Call
<1>1. CASE NextCall(r, i)
  BY <1>1 DEF NextCall
<1>2. CASE Mark(r, i)
  BY <1>2 DEF Mark
<1>3. CASE Dispatch(r, i)
  BY <1>3 DEF Dispatch
<1>4. CASE NotSent(r, i)
  BY <1>4 DEF NotSent
<1> QED
  BY <1>1, <1>2, <1>3, <1>4

LEMMA StepMoves ==
  ASSUME Types, NEW r \in Runs, Step(r), ~Abort(r), ~Settle(r)
  PROVE  OnlyMoves
<1> USE DEF Types, TypeOK, OnlyMoves, lifeVars, InTask, InWork, InLoop
<1>1. CASE Attach(r)
  BY <1>1 DEF Attach
<1>2. CASE Prepare(r)
  BY <1>2 DEF Prepare
<1>3. CASE Top(r)
  BY <1>3 DEF Top
<1>4. CASE Send(r)
  BY <1>4 DEF Send
<1>5. ASSUME NEW k \in 0..MaxTurn, Answer(r, k) PROVE OnlyMoves
  BY <1>5 DEF Answer
<1>6. CASE AnswerFails(r)
  BY <1>6 DEF AnswerFails
<1>7. CASE Admit(r)
  BY <1>7 DEF Admit
<1>8. CASE Call(r)
  BY <1>8, CallMoves
<1>9. CASE TurnEnds(r)
  BY <1>9 DEF TurnEnds
<1>10. CASE MarkFails(r)
  BY <1>10 DEF MarkFails
<1>11. CASE Poll(r)
  BY <1>11 DEF Poll
<1>12. CASE Collect(r)
  BY <1>12 DEF Collect
<1>13. CASE RemoteEnds(r)
  BY <1>13 DEF RemoteEnds
<1>14. ASSUME NEW phase \in {"replied", "unknown"}, Reply(r, phase) PROVE OnlyMoves
  BY <1>14 DEF Reply
<1>15. CASE Retain(r)
  BY <1>15 DEF Retain
<1>16. ASSUME NEW with \in {"answer", "error"}, ExtensionReturns(r, with) PROVE OnlyMoves
  BY <1>16 DEF ExtensionReturns
<1> QED
  BY <1>1, <1>2, <1>3, <1>4, <1>5, <1>6, <1>7, <1>8, <1>9, <1>10, <1>11, <1>12, <1>13, <1>14, <1>15, <1>16 DEF Step

LEMMA OtherMoves ==
  ASSUME Types, NEW r \in Runs,
         Work(r) \/ Timeout(r) \/ Interrupt(r) \/ Notice(r) \/ JournalFails(r)
  PROVE  OnlyMoves
<1> USE DEF Types, TypeOK, OnlyMoves, lifeVars, InTask
<1>1. CASE TakeQueue(r)
  BY <1>1 DEF TakeQueue
<1>2. CASE Load(r)
  BY <1>2 DEF Load
<1>3. CASE Stage(r)
  BY <1>3 DEF Stage
<1>4. CASE CheckAgain(r)
  BY <1>4 DEF CheckAgain
<1>5. CASE Compare(r)
  BY <1>5 DEF Compare
<1>6. CASE Persist(r)
  BY <1>6 DEF Persist
<1>7. CASE GiveUp(r)
  BY <1>7 DEF GiveUp
<1>8. CASE Timeout(r)
  BY <1>8 DEF Timeout, InWork
<1>9. CASE Interrupt(r)
  BY <1>9 DEF Interrupt, InWork
<1>10. CASE Notice(r)
  BY <1>10 DEF Notice
<1>11. CASE JournalFails(r)
  BY <1>11 DEF JournalFails, InWork, InLoop
<1> QED
  BY <1>1, <1>2, <1>3, <1>4, <1>5, <1>6, <1>7, <1>8, <1>9, <1>10, <1>11 DEF Work

LEMMA BeginKeepsLife ==
  ASSUME Life, Types', NEW r \in Runs, Begin(r)
  PROVE  Life'
<1> USE DEF Life, Types, TypeOK, NeverStarted, Held, LostForGood, Tended, Running, InTask, InWork, InLoop
<1>1. ASSUME NEW s \in Scenes, NEW k \in {"core", "external"}, Preflight(r, s, k) PROVE Life'
  <2>1. NeverStarted' /\ LostForGood' /\ Tended'
    BY <1>1 DEF Preflight
  <2>2. Held'
    BY <1>1 DEF Preflight
  <2> QED
    BY <2>1, <2>2
<1>2. CASE Start(r)
  <2>1. NeverStarted' /\ LostForGood'
    BY <1>2 DEF Start
  <2>2. Held' /\ Tended'
    BY <1>2 DEF Start, Unchanged, IsCurrent
  <2> QED
    BY <2>1, <2>2
<1>3. CASE SetupFails(r)
  <2>1. NeverStarted' /\ LostForGood'
    BY <1>3, SMTT(30) DEF SetupFails
  <2>2. Held' /\ Tended'
    BY <1>3 DEF SetupFails
  <2> QED
    BY <2>1, <2>2
<1>4. CASE Refuse(r)
  <2>1. NeverStarted' /\ LostForGood'
    BY <1>4 DEF Refuse
  <2>2. Held' /\ Tended'
    BY <1>4 DEF Refuse
  <2> QED
    BY <2>1, <2>2
<1> QED
  BY <1>1, <1>2, <1>3, <1>4 DEF Begin

\* A run that is ended and given up by its task, or was not running any more.
LEMMA SettledKeepsLife ==
  ASSUME Life, Types', NEW r \in Runs, pc[r] \in InTask,
         UNCHANGED <<optional, kind, held, canceled>>,
         registered' = registered \ {r}, granted' = granted \ {r},
         pc' = [pc EXCEPT ![r] = "done"],
         \A q \in Runs : q # r => status'[q] = status[q],
         lost' \subseteq lost \cup {r},
         status'[r] # "running" \/ (status' = status /\ failures' # 0 /\ lost' = lost),
         failures' = 0 => failures = 0
  PROVE  Life'
<1> USE DEF Life, Types, TypeOK, Running
<1>1. NeverStarted'
  BY DEF NeverStarted, InTask, InWork, InLoop
<1>2. LostForGood'
  BY DEF LostForGood
<1>3. Held' /\ Tended'
  BY DEF Held, Tended, InTask, InWork, InLoop
<1> QED
  BY <1>1, <1>2, <1>3

LEMMA EndsOne ==
  ASSUME Types, NEW r \in Runs, NEW end \in Statuses \ {"running"}, EndRuns({r}, end)
  PROVE  /\ \A q \in Runs : q # r => status'[q] = status[q]
         /\ status'[r] = end /\ lost' = lost \cup {r} /\ failures' = failures
BY DEF EndRuns

LEMMA FailedWrite ==
  ASSUME Types, WriteFails
  PROVE  failures' # 0 /\ status' = status /\ lost' = lost
BY AgentLoopAssumption DEF Types, TypeOK

LEMMA AbortKeepsLife ==
  ASSUME Life, Types', NEW r \in Runs, Abort(r)
  PROVE  Life'
<1>1. /\ pc[r] \in InTask /\ UNCHANGED <<optional, kind, held, canceled>>
      /\ registered' = registered \ {r} /\ granted' = granted \ {r}
      /\ pc' = [pc EXCEPT ![r] = "done"]
  BY DEF Abort, InTask
<1>2. CASE EndRuns({r}, "canceled")
  BY <1>1, <1>2, EndsOne, SettledKeepsLife DEF Life, Statuses
<1>3. CASE WriteFails
  BY <1>1, <1>3, FailedWrite, SettledKeepsLife DEF Life
<1>4. CASE ~CancelsItsRun(r) /\ NoWrite /\ UNCHANGED failures
  BY <1>1, <1>4, SettledKeepsLife DEF CancelsItsRun, Running
<1> QED
  BY <1>2, <1>3, <1>4 DEF Abort

LEMMA SettleKeepsLife ==
  ASSUME Life, Types', NEW r \in Runs, Settle(r)
  PROVE  Life'
<1>1. /\ pc[r] \in InTask /\ UNCHANGED <<optional, kind, held, canceled>>
      /\ registered' = registered \ {r} /\ granted' = granted \ {r}
      /\ pc' = [pc EXCEPT ![r] = "done"]
  BY DEF Settle, InTask
<1>2. ASSUME NEW end \in {"completed", "failed", "canceled"}, EndRuns({r}, end) PROVE Life'
  BY <1>1, <1>2, EndsOne, SettledKeepsLife DEF Life, Statuses
<1>3. CASE WriteFails
  BY <1>1, <1>3, FailedWrite, SettledKeepsLife DEF Life
\* A task that lost its authority without ending its run relies on whoever took it.
<1>4. CASE ~MaySettle(r) /\ ~CancelsUnauthorized(r) /\ NoWrite /\ UNCHANGED failures
  <2>1. status[r] # "running" \/ failures # 0
    BY <1>1, <1>4
       DEF MaySettle, CancelsUnauthorized, Authorized, IsCurrent, Life, Held, Running, Types, TypeOK
  <2> QED
    BY <1>1, <1>4, <2>1, SettledKeepsLife
<1> QED
  BY <1>2, <1>3, <1>4 DEF Settle

LEMMA SettlePluginsKeepsLife ==
  ASSUME Life, Types', NEW now \in Editions, NEW F \in SUBSET Runs, SettlePlugins(now, F)
  PROVE  Life'
<1> USE DEF Life, Types, TypeOK, Running
<1>0. Cardinality(F) \in Nat /\ (Cardinality(F) = 0 => F = {})
  BY FS_Subset, FS_CardinalityType, FS_EmptySet, AgentLoopAssumption
<1>1. failures' = 0 => failures = 0 /\ F = {}
  BY <1>0, AgentLoopAssumption DEF SettlePlugins
<1>2. /\ UNCHANGED <<pc, kind, held, canceled>> /\ optional' = now
      /\ registered' = registered \ Outdated(now) /\ granted' = granted \ Outdated(now)
      /\ lost' = lost \cup {r \in Outdated(now) : Running(r)}
      /\ \A r \in Runs : status'[r] = IF r \in Outdated(now) /\ Running(r) /\ r \notin F
                                      THEN "canceled" ELSE status[r]
  BY DEF SettlePlugins
<1>3. NeverStarted'
  BY <1>2 DEF NeverStarted
<1>4. LostForGood'
  BY <1>2 DEF LostForGood
<1>5. Tended'
  BY <1>1, <1>2 DEF Tended
<1>6. Held'
  BY <1>1, <1>2 DEF Held, Outdated
<1> QED
  BY <1>3, <1>4, <1>5, <1>6

LEMMA OthersKeepLife ==
  ASSUME Life, Types', Others
  PROVE  Life'
<1> USE DEF Life, Types, TypeOK, Running
<1>1. ASSUME NEW r \in Runs, Cancel(r) PROVE Life'
  <2>1. /\ UNCHANGED <<pc, optional, kind, held, canceled>>
        /\ registered' = registered \ {r} /\ granted' = granted \ {r}
        /\ \A q \in Runs : q # r => status'[q] = status[q]
        /\ status'[r] = "canceled" /\ lost' = lost \cup {r} /\ failures' = failures
        /\ status[r] = "running"
    BY <1>1, EndsOne DEF Cancel, Statuses
  <2>2. NeverStarted' /\ LostForGood'
    BY <2>1 DEF NeverStarted, LostForGood
  <2>3. Held' /\ Tended'
    BY <2>1 DEF Held, Tended
  <2> QED
    BY <2>2, <2>3
<1>2. ASSUME NEW r \in Runs, RevokeLease(r) PROVE Life'
  <2>1. NeverStarted' /\ LostForGood'
    BY <1>2 DEF RevokeLease, NeverStarted, LostForGood
  <2>2. Held' /\ Tended'
    BY <1>2 DEF RevokeLease, Held, Tended
  <2> QED
    BY <2>1, <2>2
<1>3. ASSUME NEW enable \in BOOLEAN, ChangePlugins(enable) PROVE Life'
  BY <1>3, OnlyMovesKeepsLife, AgentLoopAssumption DEF ChangePlugins, OnlyMoves, lifeVars
<1>4. CASE Foreign
  BY <1>4, OnlyMovesKeepsLife, AgentLoopAssumption DEF Foreign, OnlyMoves, lifeVars
<1> QED
  BY <1>1, <1>2, <1>3, <1>4 DEF Others

LEMMA InitLife == Init => Life
BY InitTyped DEF Init, Life, NeverStarted, Held, LostForGood, Tended, Running, InTask, InWork, InLoop

LEMMA NextKeepsLife ==
  ASSUME Life, [Next]_vars
  PROVE  Life'
<1>0. Types'
  BY NextTyped DEF Life
<1>1. CASE Next
  <2>1. ASSUME NEW r \in Runs, Begin(r) PROVE Life'
    BY <1>0, <2>1, BeginKeepsLife
  <2>2. ASSUME NEW r \in Runs, Step(r) PROVE Life'
    BY <1>0, <2>2, StepMoves, OnlyMovesKeepsLife, AbortKeepsLife, SettleKeepsLife DEF Life
  <2>3. ASSUME NEW r \in Runs,
               Work(r) \/ Timeout(r) \/ Interrupt(r) \/ Notice(r) \/ JournalFails(r)
        PROVE  Life'
    BY <1>0, <2>3, OtherMoves, OnlyMovesKeepsLife DEF Life
  <2>4. CASE SettleAny
    BY <1>0, <2>4, SettlePluginsKeepsLife DEF SettleAny
  <2>5. CASE Others
    BY <1>0, <2>5, OthersKeepLife
  <2> QED
    BY <1>1, <2>1, <2>2, <2>3, <2>4, <2>5 DEF Next
<1>2. CASE UNCHANGED vars
  BY <1>0, <1>2, OnlyMovesKeepsLife, AgentLoopAssumption
     DEF vars, OnlyMoves, lifeVars, Life, Types, TypeOK
<1> QED
  BY <1>1, <1>2

\* A run that runs is in the hands of its task unless a write failed, although the task
\* of a core run that lost its authority returns without ending it (main.rs:2992).
THEOREM AlwaysTended == Spec => []Tended
<1>1. Spec => []Life
  BY InitLife, NextKeepsLife, PTL DEF Spec
<1>2. Life => Tended
  BY DEF Life
<1> QED
  BY <1>1, <1>2, PTL

-----------------------------------------------------------------------------
(* The workers.  A worker belongs to a task that waits for it or has left  *)
(* it behind; those past the queue hold it one at a time; the file is      *)
(* never older than what a run wrote.                                      *)

Left == {"local", "closing", "aborting", "done"}
Behind == {"locked", "loaded", "staged", "checked", "compared"}

WorkerHome == \A r \in Runs : worker[r] # "none" => pc[r] \in Left
QueueHeld  == \A r \in Runs : worker[r] \in Behind => mutex = r
FileKnown  == agentFile <= file

Edits == Types /\ WorkerHome /\ QueueHeld /\ FileKnown /\ NoLostEdit

\* What a step that is not a worker's does to the workers and the file
NoEdit == /\ UNCHANGED <<base, mutex, agentFile>> /\ file' >= file
          /\ \A r \in Runs : worker'[r] \in {worker[r], "none", "started"}
          /\ WorkerHome'

LEMMA NoEditKeepsEdits ==
  ASSUME Edits, Types', NoEdit
  PROVE  Edits'
<1> USE DEF Edits, NoEdit, Types, TypeOK
<1>1. QueueHeld'
  BY DEF QueueHeld, Behind
<1>2. FileKnown'
  BY DEF FileKnown
<1>3. NoLostEdit'
  BY DEF NoLostEdit
<1> QED
  BY <1>1, <1>2, <1>3

LEMMA BeginEditsNothing ==
  ASSUME Types, WorkerHome, NEW r \in Runs, Begin(r)
  PROVE  NoEdit
<1> USE DEF Types, TypeOK, NoEdit, WorkerHome, Left
<1>1. ASSUME NEW s \in Scenes, NEW k \in {"core", "external"}, Preflight(r, s, k) PROVE NoEdit
  BY <1>1 DEF Preflight
<1>2. CASE Start(r)
  BY <1>2 DEF Start
<1>3. CASE SetupFails(r)
  BY <1>3 DEF SetupFails
<1>4. CASE Refuse(r)
  BY <1>4 DEF Refuse
<1> QED
  BY <1>1, <1>2, <1>3, <1>4 DEF Begin

LEMMA StepEditsNothing ==
  ASSUME Types, WorkerHome, NEW r \in Runs, Step(r)
  PROVE  NoEdit
<1> USE DEF Types, TypeOK, NoEdit, WorkerHome, Left
<1>1. CASE Attach(r)
  <2>1. UNCHANGED <<worker, base, mutex, agentFile, file>> /\ pc[r] = "attach"
    BY <1>1 DEF Attach
  <2>2. \A q \in Runs : q # r => pc'[q] = pc[q]
    BY <1>1 DEF Attach
  <2> QED
    BY <2>1, <2>2, SMTT(30)
<1>2. CASE Prepare(r)
  BY <1>2, SMTT(30) DEF Prepare
<1>3. CASE Top(r)
  BY <1>3 DEF Top
<1>4. CASE Send(r)
  BY <1>4 DEF Send
<1>5. ASSUME NEW k \in 0..MaxTurn, Answer(r, k) PROVE NoEdit
  BY <1>5 DEF Answer
<1>6. CASE AnswerFails(r)
  BY <1>6 DEF AnswerFails
<1>7. CASE Admit(r)
  BY <1>7, SMTT(30) DEF Admit
<1>8. ASSUME NEW i \in Slots,
             NextCall(r, i) \/ Mark(r, i) \/ Dispatch(r, i) \/ NotSent(r, i)
      PROVE  NoEdit
  <2>1. CASE NextCall(r, i)
    BY <2>1 DEF NextCall
  <2>2. CASE Mark(r, i)
    BY <2>2 DEF Mark
  <2>3. CASE Dispatch(r, i)
    BY <2>3 DEF Dispatch
  <2>4. CASE NotSent(r, i)
    BY <2>4, SMTT(30) DEF NotSent
  <2> QED
    BY <1>8, <2>1, <2>2, <2>3, <2>4
<1>9. CASE TurnEnds(r)
  BY <1>9 DEF TurnEnds
<1>10. CASE MarkFails(r)
  BY <1>10 DEF MarkFails
<1>11. CASE Poll(r)
  BY <1>11 DEF Poll
<1>12. CASE Collect(r)
  BY <1>12 DEF Collect
<1>13. CASE RemoteEnds(r)
  BY <1>13 DEF RemoteEnds
<1>14. ASSUME NEW phase \in {"replied", "unknown"}, Reply(r, phase) PROVE NoEdit
  <2>1. UNCHANGED <<worker, base, mutex, agentFile, file>> /\ pc[r] = "wire"
    BY <1>14 DEF Reply
  <2>2. \A q \in Runs : q # r => pc'[q] = pc[q]
    BY <1>14 DEF Reply
  <2> QED
    BY <2>1, <2>2, SMTT(30)
<1>15. CASE Retain(r)
  BY <1>15 DEF Retain
<1>16. ASSUME NEW with \in {"answer", "error"}, ExtensionReturns(r, with) PROVE NoEdit
  BY <1>16 DEF ExtensionReturns
<1>17. CASE Abort(r)
  BY <1>17 DEF Abort
<1>18. CASE Settle(r)
  BY <1>18 DEF Settle
<1> QED
  BY <1>1, <1>2, <1>3, <1>4, <1>5, <1>6, <1>7, <1>8, <1>9, <1>10, <1>11, <1>12, <1>13, <1>14, <1>15, <1>16, <1>17, <1>18 DEF Step, Call

LEMMA CutShortEditsNothing ==
  ASSUME Types, WorkerHome, NEW r \in Runs,
         Timeout(r) \/ Interrupt(r) \/ Notice(r) \/ JournalFails(r)
  PROVE  NoEdit
<1> USE DEF Types, TypeOK, NoEdit, WorkerHome, Left, InWork, InLoop
<1>1. CASE Timeout(r)
  BY <1>1 DEF Timeout
<1>2. CASE Interrupt(r)
  BY <1>2 DEF Interrupt
<1>3. CASE Notice(r)
  BY <1>3 DEF Notice
<1>4. CASE JournalFails(r)
  BY <1>4 DEF JournalFails
<1> QED
  BY <1>1, <1>2, <1>3, <1>4

LEMMA OthersEditNothing ==
  ASSUME Types, WorkerHome, SettleAny \/ Others
  PROVE  NoEdit
<1> USE DEF Types, TypeOK, NoEdit, WorkerHome, Left
<1>1. CASE SettleAny
  BY <1>1 DEF SettleAny, SettlePlugins
<1>2. CASE Foreign
  BY <1>2 DEF Foreign
<1>3. ASSUME NEW r \in Runs, Cancel(r) PROVE NoEdit
  BY <1>3 DEF Cancel
<1>4. ASSUME NEW r \in Runs, RevokeLease(r) PROVE NoEdit
  BY <1>4 DEF RevokeLease
<1>5. ASSUME NEW enable \in BOOLEAN, ChangePlugins(enable) PROVE NoEdit
  BY <1>5 DEF ChangePlugins
<1> QED
  BY <1>1, <1>2, <1>3, <1>4, <1>5 DEF Others

\* A worker's own steps
LEMMA WorkKeepsEdits ==
  ASSUME Edits, Types', NEW r \in Runs, Work(r)
  PROVE  Edits'
<1> USE AgentLoopAssumption
    DEF Edits, Types, TypeOK, WorkerHome, QueueHeld, FileKnown, NoLostEdit, Behind
<1>1. CASE TakeQueue(r)
  BY <1>1 DEF TakeQueue, QueueFree
<1>2. CASE Load(r)
  BY <1>2 DEF Load
<1>3. CASE Stage(r)
  BY <1>3 DEF Stage
<1>4. CASE CheckAgain(r)
  BY <1>4 DEF CheckAgain
<1>5. CASE Compare(r)
  BY <1>5 DEF Compare
<1>6. CASE Persist(r)
  BY <1>6 DEF Persist
<1>7. CASE GiveUp(r)
  BY <1>7 DEF GiveUp, Working
<1> QED
  BY <1>1, <1>2, <1>3, <1>4, <1>5, <1>6, <1>7 DEF Work

LEMMA InitEdits == Init => Edits
BY InitTyped DEF Init, Edits, WorkerHome, QueueHeld, FileKnown, NoLostEdit, Behind

LEMMA NextKeepsEdits ==
  ASSUME Edits, [Next]_vars
  PROVE  Edits'
<1>0. Types' /\ Types /\ WorkerHome
  BY NextTyped DEF Edits
<1>1. CASE Next
  <2>1. ASSUME NEW r \in Runs, Begin(r) PROVE Edits'
    BY <1>0, <2>1, BeginEditsNothing, NoEditKeepsEdits
  <2>2. ASSUME NEW r \in Runs, Step(r) PROVE Edits'
    BY <1>0, <2>2, StepEditsNothing, NoEditKeepsEdits
  <2>3. ASSUME NEW r \in Runs, Work(r) PROVE Edits'
    BY <1>0, <2>3, WorkKeepsEdits
  <2>4. ASSUME NEW r \in Runs,
               Timeout(r) \/ Interrupt(r) \/ Notice(r) \/ JournalFails(r)
        PROVE  Edits'
    BY <1>0, <2>4, CutShortEditsNothing, NoEditKeepsEdits
  <2>5. CASE SettleAny \/ Others
    BY <1>0, <2>5, OthersEditNothing, NoEditKeepsEdits
  <2> QED
    BY <1>1, <2>1, <2>2, <2>3, <2>4, <2>5 DEF Next
<1>2. CASE UNCHANGED vars
  <2>1. NoEdit
    BY <1>0, <1>2 DEF vars, NoEdit, WorkerHome, Types, TypeOK
  <2> QED
    BY <1>0, <2>1, NoEditKeepsEdits
<1> QED
  BY <1>1, <1>2

\* No edit overwrites unseen what another run saved: not the worker that a cancelled call
\* left behind, for any number of runs that edit the file (files.rs:95).
THEOREM EditsSurvive == Spec => []NoLostEdit
<1>1. Spec => []Edits
  BY InitEdits, NextKeepsEdits, PTL DEF Spec
<1>2. Edits => NoLostEdit
  BY DEF Edits
<1> QED
  BY <1>1, <1>2, PTL

-----------------------------------------------------------------------------
(* Revocation is effective at once.                                        *)

ActsNot(r) ==
  /\ pc[r] # "answer" => pc'[r] # "answer"
  /\ \A i \in Slots : pc[r] = "remote" /\ call[r][i] = "prepared" => call'[r][i] # "dispatched"
  /\ worker[r] \in {"started", "loaded", "staged"} =>
       worker'[r] \in {worker[r], "refused", "none"}

LEMMA LostIsUnauthorized ==
  ASSUME Life, NEW r \in lost
  PROVE  ~Authorized(r) /\ ~Active(r) /\ ~Check(r)
BY DEF Life, LostForGood, Authorized, Active, Check, IsCurrent

LEMMA EndingActsNot ==
  ASSUME Types, NEW r \in Runs, NEW R \in SUBSET Runs, NEW end \in Statuses, EndRuns(R, end)
  PROVE  \A i \in Slots : call[r][i] = "prepared" => call'[r][i] # "dispatched"
<1>1. call'[r] \in {call[r], SettledCalls(call[r])}
  BY DEF EndRuns
<1>2. \A i \in Slots : call[r][i] = "prepared" => SettledCalls(call[r])[i] = "notsent"
  BY DEF SettledCalls
<1> QED
  BY <1>1, <1>2

LEMMA LostBeginsNothing ==
  ASSUME Life, NEW r \in lost, NEW q \in Runs, Begin(q)
  PROVE  ActsNot(r)
<1> USE DEF Life, Types, TypeOK, ActsNot
<1>1. ASSUME NEW s \in Scenes, NEW k \in {"core", "external"}, Preflight(q, s, k) PROVE ActsNot(r)
  BY <1>1 DEF Preflight
<1>2. CASE Start(q)
  BY <1>2 DEF Start
<1>3. CASE SetupFails(q)
  BY <1>3 DEF SetupFails
<1>4. CASE Refuse(q)
  BY <1>4 DEF Refuse
<1> QED
  BY <1>1, <1>2, <1>3, <1>4 DEF Begin

LEMMA LostStepsQuietly ==
  ASSUME Life, WorkerHome, NEW r \in lost, NEW q \in Runs, Step(q)
  PROVE  ActsNot(r)
<1> USE LostIsUnauthorized DEF Types, TypeOK, ActsNot
<1>0. Types /\ r \in Runs
  BY DEF Life
<1>1. CASE Attach(q)
  BY <1>0, <1>1 DEF Attach
<1>2. CASE Prepare(q)
  BY <1>0, <1>2 DEF Prepare
<1>3. CASE Top(q)
  BY <1>0, <1>3 DEF Top
<1>4. CASE Send(q)
  BY <1>0, <1>4 DEF Send, MaySend
<1>5. ASSUME NEW k \in 0..MaxTurn, Answer(q, k) PROVE ActsNot(r)
  BY <1>0, <1>5 DEF Answer
<1>6. CASE AnswerFails(q)
  BY <1>0, <1>6 DEF AnswerFails
<1>7. CASE Admit(q)
  BY <1>0, <1>7 DEF Admit
<1>8. ASSUME NEW i \in Slots,
             NextCall(q, i) \/ Mark(q, i) \/ Dispatch(q, i) \/ NotSent(q, i)
      PROVE  ActsNot(r)
  <2>1. CASE NextCall(q, i)
    BY <1>0, <2>1, SMTT(30) DEF NextCall
  <2>2. CASE Mark(q, i)
    BY <1>0, <2>2 DEF Mark, WorkerHome, Left
  <2>3. CASE Dispatch(q, i)
    BY <1>0, <2>3 DEF Dispatch
  <2>4. CASE NotSent(q, i)
    BY <1>0, <2>4 DEF NotSent
  <2> QED
    BY <1>8, <2>1, <2>2, <2>3, <2>4
<1>9. CASE TurnEnds(q)
  BY <1>0, <1>9 DEF TurnEnds
<1>10. CASE MarkFails(q)
  BY <1>0, <1>10 DEF MarkFails
<1>11. CASE Poll(q)
  BY <1>0, <1>11 DEF Poll
<1>12. CASE Collect(q)
  BY <1>0, <1>12 DEF Collect, LocalReply
<1>13. CASE RemoteEnds(q)
  BY <1>0, <1>13 DEF RemoteEnds
<1>14. ASSUME NEW phase \in {"replied", "unknown"}, Reply(q, phase) PROVE ActsNot(r)
  BY <1>0, <1>14 DEF Reply
<1>15. CASE Retain(q)
  BY <1>0, <1>15 DEF Retain
<1>16. ASSUME NEW with \in {"answer", "error"}, ExtensionReturns(q, with) PROVE ActsNot(r)
  BY <1>0, <1>16 DEF ExtensionReturns
<1>17. CASE Abort(q)
  BY <1>0, <1>17, EndingActsNot DEF Abort, Statuses
<1>18. CASE Settle(q)
  BY <1>0, <1>18, EndingActsNot DEF Settle, Statuses
<1> QED
  BY <1>1, <1>2, <1>3, <1>4, <1>5, <1>6, <1>7, <1>8, <1>9, <1>10, <1>11, <1>12, <1>13, <1>14, <1>15, <1>16, <1>17, <1>18 DEF Step, Call

LEMMA LostIsCutShort ==
  ASSUME Life, NEW r \in lost, NEW q \in Runs,
         Timeout(q) \/ Interrupt(q) \/ Notice(q) \/ JournalFails(q)
  PROVE  ActsNot(r)
<1> USE DEF Life, Types, TypeOK, ActsNot
<1>1. CASE Timeout(q)
  BY <1>1 DEF Timeout
<1>2. CASE Interrupt(q)
  BY <1>2 DEF Interrupt
<1>3. CASE Notice(q)
  BY <1>3 DEF Notice
<1>4. CASE JournalFails(q)
  BY <1>4 DEF JournalFails
<1> QED
  BY <1>1, <1>2, <1>3, <1>4

LEMMA LostWorksNoMore ==
  ASSUME Life, NEW r \in lost, NEW q \in Runs, Work(q)
  PROVE  ActsNot(r)
<1> USE LostIsUnauthorized DEF Types, TypeOK, ActsNot
<1>0. Types /\ r \in Runs
  BY DEF Life
<1>1. CASE TakeQueue(q)
  BY <1>0, <1>1 DEF TakeQueue
<1>2. CASE Load(q)
  BY <1>0, <1>2 DEF Load
<1>3. CASE Stage(q)
  BY <1>0, <1>3 DEF Stage
<1>4. CASE CheckAgain(q)
  BY <1>0, <1>4 DEF CheckAgain
<1>5. CASE Compare(q)
  BY <1>0, <1>5 DEF Compare
<1>6. CASE Persist(q)
  BY <1>0, <1>6 DEF Persist
<1>7. CASE GiveUp(q)
  BY <1>0, <1>7 DEF GiveUp
<1> QED
  BY <1>1, <1>2, <1>3, <1>4, <1>5, <1>6, <1>7 DEF Work

LEMMA OthersActNot ==
  ASSUME Life, NEW r \in lost, SettleAny \/ Others
  PROVE  ActsNot(r)
<1> USE DEF Life, Types, TypeOK, ActsNot
<1>1. ASSUME NEW now \in Editions, NEW F \in SUBSET Runs, SettlePlugins(now, F) PROVE ActsNot(r)
  <2>1. call'[r] \in {call[r], SettledCalls(call[r])} /\ UNCHANGED <<pc, worker>>
    BY <1>1 DEF SettlePlugins
  <2>2. \A i \in Slots : call[r][i] = "prepared" => SettledCalls(call[r])[i] = "notsent"
    BY DEF SettledCalls
  <2> QED
    BY <2>1, <2>2
<1>2. ASSUME NEW q \in Runs, Cancel(q) PROVE ActsNot(r)
  BY <1>2, EndingActsNot DEF Cancel, Statuses
<1>3. CASE Foreign
  BY <1>3 DEF Foreign
<1>4. ASSUME NEW q \in Runs, RevokeLease(q) PROVE ActsNot(r)
  BY <1>4 DEF RevokeLease
<1>5. ASSUME NEW enable \in BOOLEAN, ChangePlugins(enable) PROVE ActsNot(r)
  BY <1>5 DEF ChangePlugins
<1> QED
  BY <1>1, <1>2, <1>3, <1>4, <1>5 DEF SettleAny, Others

\* A run that ended or lost its grant asks no model, sends no remote call and passes no
\* further check of its worker, whatever the Store could save (main.rs:296), for any
\* number of runs and changes.
THEOREM RevocationIsImmediate == Spec => QuietAfterLoss
<1>1. Spec => [](Life /\ Edits)
  BY InitLife, NextKeepsLife, InitEdits, NextKeepsEdits, PTL DEF Spec
<1>2. ASSUME Life, Edits, [Next]_vars, NEW r \in lost PROVE ActsNot(r)
  <2>0. WorkerHome /\ r \in Runs
    BY <1>2 DEF Edits, Types, TypeOK
  <2>1. CASE Next
    BY <1>2, <2>0, <2>1, LostBeginsNothing, LostStepsQuietly, LostIsCutShort, LostWorksNoMore,
       OthersActNot DEF Next
  <2>2. CASE UNCHANGED vars
    BY <2>0, <2>2 DEF vars, ActsNot
  <2> QED
    BY <1>2, <2>1, <2>2
<1>3. Life /\ Edits /\ [Next]_vars => [\A r \in lost : ActsNot(r)]_vars
  BY <1>2
<1> QED
  BY <1>1, <1>3, PTL DEF Spec, QuietAfterLoss, ActsNot

-----------------------------------------------------------------------------
(* The receipts.  A call in hand, of a worker or on the wire, is the only  *)
(* one whose outcome is open while its run goes on.                        *)

Open == {"dispatched", "unknown"}

Prefix(r) == \A i, j \in Slots : i < j /\ call[r][i] = "absent" => call[r][j] = "absent"

Truth(r) == \A i \in Slots :
  /\ call[r][i] \in {"absent", "prepared", "notsent", "refused"} => <<r, i>> \notin changed
  /\ call[r][i] \in {"committed", "replied"} => <<r, i>> \in changed

InHand(r) ==
  /\ worker[r] # "none" => /\ call[r][job[r]] \in Open
                           /\ worker[r] = "saved" <=> <<r, job[r]>> \in changed
  /\ pc[r] = "wire" => call[r][job[r]] \in Open /\ <<r, job[r]>> \in changed

MayComplete(r) ==
  \/ pc[r] \in {"idle", "preflight"}
  \/ Running(r) /\ pc[r] \in InWork \ {"local", "wire"}
  \/ Running(r) /\ pc[r] = "closing" /\ result[r] = "answer"

Known(r) ==
  /\ MayComplete(r) => \A i \in Slots : call[r][i] \notin Open
  /\ Running(r) /\ pc[r] \in {"local", "wire"} =>
       \A i \in Slots \ {job[r]} : call[r][i] \notin Open
  /\ status[r] = "completed" =>
       /\ pc[r] = "done"
       /\ \A i \in Slots : call[r][i] \in {"absent", "notsent", "refused", "committed", "replied"}

Rec(r) == Prefix(r) /\ Truth(r) /\ InHand(r) /\ Known(r)

Receipts == Types /\ WorkerHome /\ NeverStarted /\ \A r \in Runs : Rec(r)

LEMMA Elsewhere ==
  ASSUME NEW r \in Runs, Rec(r),
         pc'[r] = pc[r], worker'[r] = worker[r], job'[r] = job[r], result'[r] = result[r],
         status'[r] = status[r], call'[r] = call[r],
         \A i \in Slots : <<r, i>> \in changed' <=> <<r, i>> \in changed,
         Types
  PROVE  Rec(r)'
<1>1. Prefix(r)'
  BY DEF Rec, Prefix
<1>2. Truth(r)'
  BY DEF Rec, Truth
<1>3. InHand(r)'
  BY DEF Rec, InHand, Types, JobKnown
<1>4. Known(r)'
  BY DEF Rec, Known, MayComplete, Running
<1> QED
  BY <1>1, <1>2, <1>3, <1>4 DEF Rec

\* The task moves on and its calls stay as they are.
MovesOn(r) ==
  /\ job'[r] = job[r] /\ call'[r] = call[r]
  /\ \A i \in Slots : <<r, i>> \in changed' <=> <<r, i>> \in changed
  /\ worker'[r] = "saved" <=> worker[r] = "saved"
  /\ worker'[r] # "none" => worker[r] # "none"
  /\ worker'[r] \in Working => worker[r] \in Working
  /\ pc'[r] \in {"local", "wire"} => pc'[r] = pc[r] /\ status'[r] = status[r]
  /\ status'[r] = "completed" => status[r] = "completed" /\ pc'[r] = "done"
  /\ MayComplete(r)' => MayComplete(r)

LEMMA MovedOn ==
  ASSUME NEW r \in Runs, Rec(r), Types, MovesOn(r)
  PROVE  Rec(r)'
<1> USE DEF MovesOn
<1>1. Prefix(r)'
  BY DEF Rec, Prefix
<1>2. Truth(r)'
  BY DEF Rec, Truth
<1>3. InHand(r)'
  BY DEF Rec, InHand, Types, JobKnown
<1>4. Known(r)'
  BY DEF Rec, Known, Running
<1> QED
  BY <1>1, <1>2, <1>3, <1>4 DEF Rec

LEMMA SettledCallsAre ==
  ASSUME NEW phases \in [Slots -> Phases], NEW i \in Slots
  PROVE  /\ phases[i] = "prepared" => SettledCalls(phases)[i] = "notsent"
         /\ phases[i] = "dispatched" => SettledCalls(phases)[i] = "unknown"
         /\ phases[i] \notin {"prepared", "dispatched"} => SettledCalls(phases)[i] = phases[i]
BY DEF SettledCalls

\* The run leaves "running" with its receipts settled, and completes only if it may.
LEMMA EndedRun ==
  ASSUME NEW r \in Runs, Rec(r), Types,
         call'[r] = SettledCalls(call[r]),
         job'[r] = job[r], changed' = changed, worker'[r] = worker[r],
         status'[r] \in {"failed", "canceled", "completed"},
         pc'[r] \in {pc[r], "done"}, pc[r] \notin {"idle", "preflight"},
         status'[r] = "completed" => MayComplete(r) /\ pc'[r] = "done"
  PROVE  Rec(r)'
<1>0. /\ call[r] \in [Slots -> Phases]
      /\ \A i \in Slots : call'[r][i] = IF call[r][i] = "prepared" THEN "notsent"
                                       ELSE IF call[r][i] = "dispatched" THEN "unknown"
                                       ELSE call[r][i]
  BY SettledCallsAre, SMTT(30) DEF Types, TypeOK
<1>1. Prefix(r)'
  BY <1>0 DEF Rec, Prefix
<1>2. Truth(r)'
  BY <1>0 DEF Rec, Truth
<1>3. InHand(r)'
  BY <1>0 DEF Rec, InHand, Types, JobKnown, Open
<1>4. Known(r)'
  <2>1. ~MayComplete(r)' /\ ~Running(r)'
    BY DEF MayComplete, Running
  <2>2. status'[r] = "completed" =>
          \A i \in Slots : call'[r][i] \in {"absent", "notsent", "refused", "committed", "replied"}
    BY <1>0 DEF Rec, Known, Open, Phases
  <2> QED
    BY <2>1, <2>2 DEF Known
<1> QED
  BY <1>1, <1>2, <1>3, <1>4 DEF Rec

\* The slots in use are the first ones.
LEMMA UsedSlots ==
  ASSUME Types, NEW r \in Runs, Prefix(r)
  PROVE  /\ Used(r) \in Nat
         /\ \A i \in Slots : call[r][i] = "absent" <=> i > Used(r)
<1> DEFINE U == {i \in Slots : call[r][i] # "absent"}
<1>0. Slots \subseteq Nat /\ IsFiniteSet(Slots)
  BY FS_Interval, AgentLoopAssumption DEF Slots
<1>1. IsFiniteSet(U) /\ Used(r) = Cardinality(U) /\ Used(r) \in Nat
  BY <1>0, FS_Subset, FS_CardinalityType DEF Used
<1>2. ASSUME NEW i \in Slots, call[r][i] = "absent" PROVE i > Used(r)
  <2>1. U \subseteq 1..(i - 1)
    BY <1>0, <1>2 DEF Prefix, Slots
  <2>2. IsFiniteSet(1..(i - 1)) /\ Cardinality(1..(i - 1)) = i - 1
    BY <1>0, FS_Interval DEF Slots
  <2> QED
    BY <1>0, <1>1, <2>1, <2>2, FS_Subset
<1>3. ASSUME NEW i \in Slots, call[r][i] # "absent" PROVE i <= Used(r)
  <2>1. 1..i \subseteq U
    <3> SUFFICES ASSUME NEW j \in 1..i PROVE j \in Slots /\ call[r][j] # "absent"
      OBVIOUS
    <3>1. j \in Slots /\ (j = i \/ j < i)
      BY AgentLoopAssumption DEF Slots
    <3> QED
      BY <3>1, <1>3 DEF Prefix
  <2>2. IsFiniteSet(1..i) /\ Cardinality(1..i) = i
    BY <1>0, FS_Interval DEF Slots
  <2> QED
    BY <1>1, <2>1, <2>2, FS_Subset
<1>4. ASSUME NEW i \in Slots PROVE i > Used(r) <=> ~(i <= Used(r))
  BY <1>0, <1>1
<1> QED
  BY <1>1, <1>2, <1>3, <1>4

\* What the steps below leave alone of the other runs
OthersStay(r) == \A q \in Runs \ {r} :
  /\ pc'[q] = pc[q] /\ worker'[q] = worker[q] /\ job'[q] = job[q]
  /\ result'[q] = result[q] /\ status'[q] = status[q] /\ call'[q] = call[q]
  /\ \A i \in Slots : <<q, i>> \in changed' <=> <<q, i>> \in changed

LEMMA OneRun ==
  ASSUME Receipts, Types', WorkerHome', NeverStarted', NEW r \in Runs, Rec(r)', OthersStay(r)
  PROVE  Receipts'
BY Elsewhere DEF Receipts, OthersStay

LEMMA OneRunMovesOn ==
  ASSUME Receipts, Types', WorkerHome', NeverStarted', NEW r \in Runs, MovesOn(r), OthersStay(r)
  PROVE  Receipts'
BY MovedOn, OneRun DEF Receipts

LEMMA BeginMovesOn ==
  ASSUME Types, NeverStarted, \A q \in Runs : Known(q), NEW r \in Runs, Begin(r)
  PROVE  MovesOn(r) /\ OthersStay(r)
<1> USE DEF Types, TypeOK, Known, MovesOn, OthersStay, MayComplete, Running, NeverStarted, InWork,
            InLoop, Working
<1>1. ASSUME NEW s \in Scenes, NEW k \in {"core", "external"}, Preflight(r, s, k)
      PROVE  MovesOn(r) /\ OthersStay(r)
  BY <1>1 DEF Preflight
<1>2. CASE Start(r)
  BY <1>2 DEF Start
<1>3. CASE SetupFails(r)
  BY <1>3 DEF SetupFails
<1>4. CASE Refuse(r)
  BY <1>4 DEF Refuse
<1> QED
  BY <1>1, <1>2, <1>3, <1>4 DEF Begin

LEMMA StepMovesOn ==
  ASSUME Types, NEW r \in Runs,
         status[r] = "completed" => pc[r] = "done",
         \/ Attach(r) \/ Prepare(r) \/ Top(r) \/ Send(r) \/ AnswerFails(r) \/ TurnEnds(r)
         \/ MarkFails(r) \/ Poll(r) \/ RemoteEnds(r) \/ Retain(r)
         \/ \E with \in {"answer", "error"} : ExtensionReturns(r, with)
  PROVE  MovesOn(r) /\ OthersStay(r)
<1> USE DEF Types, TypeOK, MovesOn, OthersStay, MayComplete, Running, InWork, InLoop, Working
<1>1. CASE Attach(r)
  BY <1>1 DEF Attach
<1>2. CASE Prepare(r)
  BY <1>2 DEF Prepare
<1>3. CASE Top(r)
  BY <1>3 DEF Top
<1>4. CASE Send(r)
  BY <1>4 DEF Send
<1>5. CASE AnswerFails(r)
  BY <1>5 DEF AnswerFails
<1>6. CASE TurnEnds(r)
  BY <1>6 DEF TurnEnds
<1>7. CASE MarkFails(r)
  BY <1>7 DEF MarkFails
<1>8. CASE Poll(r)
  BY <1>8 DEF Poll
<1>9. CASE RemoteEnds(r)
  BY <1>9 DEF RemoteEnds
<1>10. CASE Retain(r)
  BY <1>10 DEF Retain
<1>11. CASE \E with \in {"answer", "error"} : ExtensionReturns(r, with)
  BY <1>11 DEF ExtensionReturns
<1> QED
  BY <1>1, <1>2, <1>3, <1>4, <1>5, <1>6, <1>7, <1>8, <1>9, <1>10, <1>11

LEMMA OtherStepMovesOn ==
  ASSUME Types, NEW r \in Runs,
         status[r] = "completed" => pc[r] = "done",
         \/ Timeout(r) \/ Interrupt(r) \/ Notice(r) \/ JournalFails(r)
         \/ TakeQueue(r) \/ Load(r) \/ Stage(r) \/ CheckAgain(r) \/ Compare(r) \/ GiveUp(r)
  PROVE  MovesOn(r) /\ OthersStay(r)
<1> USE DEF Types, TypeOK, MovesOn, OthersStay, MayComplete, Running, InWork, InLoop, Working
<1>1. CASE Timeout(r)
  BY <1>1 DEF Timeout
<1>2. CASE Interrupt(r)
  BY <1>2 DEF Interrupt
<1>3. CASE Notice(r)
  BY <1>3 DEF Notice
<1>4. CASE JournalFails(r)
  BY <1>4 DEF JournalFails
<1>5. CASE TakeQueue(r)
  BY <1>5 DEF TakeQueue
<1>6. CASE Load(r)
  BY <1>6 DEF Load
<1>7. CASE Stage(r)
  BY <1>7 DEF Stage
<1>8. CASE CheckAgain(r)
  BY <1>8 DEF CheckAgain
<1>9. CASE Compare(r)
  BY <1>9 DEF Compare
<1>10. CASE GiveUp(r)
  BY <1>10 DEF GiveUp
<1> QED
  BY <1>1, <1>2, <1>3, <1>4, <1>5, <1>6, <1>7, <1>8, <1>9, <1>10

LEMMA WorkKeepsReceipts ==
  ASSUME Receipts, Types', WorkerHome', NeverStarted', NEW r \in Runs, Work(r)
  PROVE  Receipts'
<1>1. CASE Persist(r)
  <2>1. Rec(r)'
    <3> USE <1>1 DEF Receipts, Persist, Types, TypeOK, JobKnown
    <3>1. Prefix(r)' /\ Known(r)'
      BY DEF Rec, Prefix, Known, MayComplete, Running
    <3>2. Truth(r)'
      BY DEF Rec, Truth, InHand, Open
    <3>3. InHand(r)'
      BY DEF Rec, InHand, WorkerHome, Left
    <3> QED
      BY <3>1, <3>2, <3>3 DEF Rec
  <2>2. OthersStay(r)
    BY <1>1 DEF Persist, OthersStay, Receipts, Types, TypeOK
  <2> QED
    BY <2>1, <2>2, OneRun
<1>2. CASE ~Persist(r)
  BY <1>2, OtherStepMovesOn, OneRunMovesOn DEF Work, Receipts, Rec, Known
<1> QED
  BY <1>1, <1>2

\* One receipt is written: call i of run r has phase p now.
LEMMA OneReceipt ==
  ASSUME Types, NEW r \in Runs, NEW i \in Slots, NEW p, Receipt(r, i, p)
  PROVE  /\ call'[r][i] = p /\ \A j \in Slots \ {i} : call'[r][j] = call[r][j]
         /\ \A q \in Runs \ {r} : call'[q] = call[q]
         /\ status' = status
BY DEF Types, TypeOK

LEMMA PrefixStays ==
  ASSUME NEW r \in Runs, Prefix(r), \A j \in Slots : call'[r][j] = "absent" <=> call[r][j] = "absent"
  PROVE  Prefix(r)'
BY DEF Prefix

LEMMA AnswerKeepsReceipts ==
  ASSUME Receipts, Types', WorkerHome', NeverStarted', NEW r \in Runs, NEW n \in 0..MaxTurn,
         Answer(r, n)
  PROVE  Receipts'
<1> USE DEF Receipts, Types, TypeOK
<1>0. Rec(r) /\ Prefix(r)
  BY DEF Rec
<1>1. Used(r) \in Nat /\ \A i \in Slots : call[r][i] = "absent" <=> i > Used(r)
  BY <1>0, UsedSlots
<1> DEFINE u == Used(r)
           p == IF Running(r) THEN "prepared" ELSE "notsent"
<1>2. \A i \in Slots : call'[r][i] = IF i \in (u + 1)..(u + n) THEN p ELSE call[r][i]
  BY DEF Answer
<1>3. /\ UNCHANGED <<status, worker, job, changed, result>> /\ pc[r] = "answer" /\ pc'[r] = "turn"
      /\ OthersStay(r)
  BY DEF Answer, OthersStay
<1>9. u \in Nat /\ n \in Nat /\ p # "absent"
      /\ \A i \in Slots : call[r][i] = "absent" <=> i > u
  BY <1>1, AgentLoopAssumption
<1> HIDE DEF u, p
<1>10. \A i \in Slots : i \in Int
  BY AgentLoopAssumption DEF Slots
<1>4. \A i \in Slots : call'[r][i] = "absent" <=> i > u + n
  <2> SUFFICES ASSUME NEW i \in Slots PROVE call'[r][i] = "absent" <=> i > u + n
    OBVIOUS
  <2>1. CASE i \in (u + 1)..(u + n)
    BY <1>9, <1>10, <1>2, <2>1
  <2>2. CASE i \notin (u + 1)..(u + n)
    <3>1. i > u <=> i > u + n
      BY <1>9, <1>10, <2>2
    <3> QED
      BY <1>9, <1>2, <2>2, <3>1
  <2> QED
    BY <2>1, <2>2
<1>5. Prefix(r)'
  BY <1>9, <1>10, <1>4 DEF Prefix
<1>6. Truth(r)'
  <2>1. \A i \in (u + 1)..(u + n) : i \in Slots => call[r][i] = "absent"
    BY <1>9
  <2> QED
    BY <1>0, <1>2, <1>3, <2>1 DEF Rec, Truth, p
<1>7. InHand(r)'
  BY <1>3 DEF InHand, WorkerHome, Left
<1>8. Known(r)'
  BY <1>0, <1>2, <1>3 DEF Rec, Known, MayComplete, Running, InWork, InLoop, Open, p
<1> QED
  BY <1>3, <1>5, <1>6, <1>7, <1>8, OneRun DEF Rec

LEMMA AdmitKeepsReceipts ==
  ASSUME Receipts, Types', WorkerHome', NeverStarted', NEW r \in Runs, Admit(r)
  PROVE  Receipts'
<1> USE DEF Receipts, Types, TypeOK
<1>1. /\ UNCHANGED <<status, worker, job, changed>> /\ pc[r] = "turn"
      /\ pc'[r] \in {"retain", "calls"} \/ (pc'[r] = "closing" /\ result'[r] = "error")
      /\ OthersStay(r)
  BY DEF Admit, OthersStay
<1>2. \A i \in Slots : call'[r][i] \in {call[r][i], "notsent"}
                       /\ (call'[r][i] # call[r][i] => call[r][i] = "prepared")
  BY DEF Admit, Proposed
<1>3. Rec(r)
  OBVIOUS
<1>4. Prefix(r)'
  BY <1>2, <1>3, PrefixStays DEF Rec
<1>5. Truth(r)'
  BY <1>1, <1>2, <1>3 DEF Rec, Truth
<1>6. InHand(r)'
  BY <1>1 DEF InHand, WorkerHome, Left
<1>7. Known(r)'
  BY <1>1, <1>2, <1>3 DEF Rec, Known, MayComplete, Running, InWork, InLoop, Open
<1> QED
  BY <1>1, <1>4, <1>5, <1>6, <1>7, OneRun DEF Rec

LEMMA CallKeepsReceipts ==
  ASSUME Receipts, Types', WorkerHome', NeverStarted', NEW r \in Runs, Call(r)
  PROVE  Receipts'
<1> USE DEF Receipts, Types, TypeOK
<1>0. Rec(r)
  OBVIOUS
<1> SUFFICES ASSUME NEW i \in Slots,
                    NextCall(r, i) \/ Mark(r, i) \/ Dispatch(r, i) \/ NotSent(r, i)
             PROVE  Receipts'
  BY DEF Call
\* A prepared call is not sent.
<1>1. ASSUME Receipt(r, i, "notsent"), call[r][i] = "prepared",
             UNCHANGED <<worker, job, changed>>, OthersStay(r),
             pc[r] \in {"calls", "remote"},
             pc'[r] = "calls" \/ (pc'[r] = "closing" /\ result'[r] = "error")
      PROVE  Receipts'
  <2>1. /\ call'[r][i] = "notsent" /\ \A j \in Slots \ {i} : call'[r][j] = call[r][j]
        /\ status' = status
    BY <1>1, OneReceipt
  <2>2. Prefix(r)'
    BY <1>0, <1>1, <2>1, PrefixStays DEF Rec
  <2>3. Truth(r)'
    BY <1>0, <1>1, <2>1 DEF Rec, Truth
  <2>4. InHand(r)'
    BY <1>1 DEF InHand, WorkerHome, Left
  <2>5. Known(r)'
    BY <1>0, <1>1, <2>1 DEF Rec, Known, MayComplete, Running, InWork, InLoop, Open
  <2> QED
    BY <1>1, <2>2, <2>3, <2>4, <2>5, OneRun DEF Rec
<1>2. CASE NextCall(r, i) /\ ~Receipt(r, i, "notsent")
  <2>1. MovesOn(r) /\ OthersStay(r)
    BY <1>0, <1>2 DEF NextCall, MovesOn, OthersStay, MayComplete, Running, InWork, InLoop, Rec, Known
  <2> QED
    BY <2>1, OneRunMovesOn
<1>3. CASE NextCall(r, i) /\ Receipt(r, i, "notsent")
  <2>1. OthersStay(r) /\ pc[r] = "calls" /\ UNCHANGED <<worker, job, changed>>
    BY <1>3 DEF NextCall, OthersStay
  <2>2. call[r][i] = "prepared" /\ (pc'[r] = "calls" \/ (pc'[r] = "closing" /\ result'[r] = "error"))
    BY <1>3 DEF NextCall, IsNext
  <2> QED
    BY <1>1, <1>3, <2>1, <2>2
<1>4. CASE NotSent(r, i)
  <2>1. OthersStay(r) /\ pc[r] = "remote" /\ UNCHANGED <<worker, job, changed>>
    BY <1>4 DEF NotSent, OthersStay
  <2>2. call[r][i] = "prepared" /\ (pc'[r] = "calls" \/ (pc'[r] = "closing" /\ result'[r] = "error"))
    BY <1>4 DEF NotSent, IsNext
  <2> QED
    BY <1>1, <1>4, <2>1, <2>2 DEF NotSent
<1>5. CASE Mark(r, i) \/ Dispatch(r, i)
  <2>1. /\ call'[r][i] = "dispatched" /\ \A j \in Slots \ {i} : call'[r][j] = call[r][j]
        /\ status' = status /\ call[r][i] = "prepared" /\ <<r, i>> \notin changed
    BY <1>0, <1>5, OneReceipt DEF Mark, Dispatch, IsNext, Rec, Truth
  <2>2. /\ job'[r] = i /\ worker[r] = "none" /\ pc[r] \in {"mark", "remote"}
        /\ \/ pc'[r] = "local" /\ worker'[r] = "started" /\ changed' = changed
           \/ pc'[r] = "wire" /\ worker'[r] = "none" /\ changed' = changed \cup {<<r, i>>}
    <3>0. pc[r] \in {"mark", "remote"} /\ worker[r] = "none"
      BY <1>5 DEF Mark, Dispatch, WorkerHome, Left
    <3>1. CASE Mark(r, i)
      BY <3>0, <3>1 DEF Mark
    <3>2. CASE Dispatch(r, i)
      BY <3>0, <3>2 DEF Dispatch
    <3> QED
      BY <1>5, <3>1, <3>2
  <2>3. OthersStay(r)
    BY <1>5 DEF Mark, Dispatch, OthersStay
  <2>4. Prefix(r)'
    BY <1>0, <2>1, PrefixStays DEF Rec
  <2>5. Truth(r)'
    <3>1. \A j \in Slots \ {i} : <<r, j>> \in changed' <=> <<r, j>> \in changed
      BY <2>2
    <3> QED
      BY <1>0, <2>1, <3>1 DEF Rec, Truth
  <2>6. InHand(r)'
    BY <2>1, <2>2 DEF InHand, Open
  <2>7. Known(r)'
    BY <1>0, <2>1, <2>2 DEF Rec, Known, MayComplete, Running, InWork, InLoop, Open
  <2> QED
    BY <2>3, <2>4, <2>5, <2>6, <2>7, OneRun DEF Rec
<1> QED
  BY <1>2, <1>3, <1>4, <1>5

\* The outcome of the call in hand is recorded.
LEMMA OutcomeKeepsReceipts ==
  ASSUME Receipts, Types', WorkerHome', NeverStarted', NEW r \in Runs,
         Collect(r) \/ \E phase \in {"replied", "unknown"} : Reply(r, phase)
  PROVE  Receipts'
<1> USE DEF Receipts, Types, TypeOK
<1>1. Rec(r) /\ job[r] \in Slots /\ call[r][job[r]] \in Open
  BY DEF Collect, Reply, JobKnown, Rec, InHand
<1>2. PICK p \in {"committed", "refused", "replied", "unknown"} :
        /\ Receipt(r, job[r], p)
        /\ p \in {"committed", "replied"} => <<r, job[r]>> \in changed
        /\ p = "refused" => <<r, job[r]>> \notin changed
  BY <1>1 DEF Collect, LocalReply, Reply, Rec, InHand
<1>3. /\ call'[r][job[r]] = p /\ \A j \in Slots \ {job[r]} : call'[r][j] = call[r][j]
      /\ status' = status
  BY <1>1, <1>2, OneReceipt
<1>4. /\ UNCHANGED <<job, changed>> /\ worker'[r] = "none" /\ pc[r] \in {"local", "wire"}
      /\ \/ pc'[r] = "calls" /\ (p = "unknown" => ~Running(r))
         \/ pc'[r] = "closing" /\ result'[r] = "error"
  <2>1. CASE Collect(r)
    <3>1. p # "unknown"
      BY <1>1, <1>3, <2>1 DEF Collect, LocalReply
    <3> QED
      BY <2>1, <3>1 DEF Collect
  <2>2. ASSUME NEW phase \in {"replied", "unknown"}, Reply(r, phase)
        PROVE  /\ UNCHANGED <<job, changed, worker>> /\ pc[r] = "wire"
               /\ \/ pc'[r] = "calls" /\ p # "unknown"
                  \/ pc'[r] = "closing" /\ result'[r] = "error"
    <3>1. p = phase
      BY <1>1, <1>3, <2>2 DEF Reply
    <3> QED
      BY <2>2, <3>1 DEF Reply, GoesOn
  <2>3. CASE \E phase \in {"replied", "unknown"} : Reply(r, phase)
    BY <2>2, <2>3, ZenonT(60) DEF WorkerHome, Left
  <2> QED
    BY <2>1, <2>3
<1>5. OthersStay(r)
  BY DEF Collect, Reply, OthersStay
<1>6. Prefix(r)'
  BY <1>1, <1>3, PrefixStays DEF Rec, Open
<1>7. Truth(r)'
  BY <1>1, <1>2, <1>3, <1>4 DEF Rec, Truth
<1>8. InHand(r)'
  BY <1>4 DEF InHand
<1>9. Known(r)'
  <2>1. status'[r] # "completed"
    BY <1>1, <1>3, <1>4 DEF Rec, Known
  <2>2. Running(r) => \A j \in Slots \ {job[r]} : call'[r][j] \notin Open
    BY <1>1, <1>3, <1>4 DEF Rec, Known
  <2>3. MayComplete(r)' => Running(r) /\ p # "unknown"
    BY <1>3, <1>4 DEF MayComplete, Running, InWork, InLoop
  <2>4. p # "unknown" => p \notin Open
    BY DEF Open
  <2>5. MayComplete(r)' => \A j \in Slots : call'[r][j] \notin Open
    BY <1>3, <2>2, <2>3, <2>4
  <2> QED
    BY <1>4, <2>1, <2>5 DEF Known
<1> QED
  BY <1>5, <1>6, <1>7, <1>8, <1>9, OneRun DEF Rec

\* A run that is ended by its task
LEMMA ClosedRun ==
  ASSUME Receipts, Types', WorkerHome', NeverStarted', NEW r \in Runs,
         pc[r] \in {"closing", "aborting"}, pc' = [pc EXCEPT ![r] = "done"],
         UNCHANGED <<worker, job, result, changed>>,
         NEW end \in {"completed", "failed", "canceled"},
         EndRuns({r}, end) \/ NoWrite,
         end = "completed" => MayComplete(r)
  PROVE  Receipts'
<1> USE DEF Receipts, Types, TypeOK
<1>1. OthersStay(r)
  BY DEF EndRuns, OthersStay
<1>2. CASE EndRuns({r}, end)
  <2>1. call'[r] = SettledCalls(call[r]) /\ status'[r] = end /\ pc'[r] = "done"
    BY <1>2 DEF EndRuns
  <2> QED
    BY <1>1, <2>1, EndedRun, OneRun
<1>3. CASE NoWrite
  <2>1. MovesOn(r)
    BY <1>3 DEF MovesOn, MayComplete, Running, Rec, Known, InWork, InLoop
  <2> QED
    BY <1>1, <2>1, OneRunMovesOn
<1> QED
  BY <1>2, <1>3

LEMMA ClosingKeepsReceipts ==
  ASSUME Receipts, Types', WorkerHome', NeverStarted', NEW r \in Runs, Abort(r) \/ Settle(r)
  PROVE  Receipts'
<1>1. /\ pc[r] \in {"closing", "aborting"} /\ pc' = [pc EXCEPT ![r] = "done"]
      /\ UNCHANGED <<worker, job, result, changed>>
  BY DEF Abort, Settle
<1>2. \E end \in {"completed", "failed", "canceled"} :
        (EndRuns({r}, end) \/ NoWrite) /\ (end = "completed" => MayComplete(r))
  <2>1. CASE Abort(r)
    BY <2>1 DEF Abort
  <2>2. CASE Settle(r)
    BY <2>2 DEF Settle, MaySettle, Authorized, MayComplete
  <2> QED
    BY <2>1, <2>2
<1> QED
  BY <1>1, <1>2, ClosedRun

LEMMA OthersKeepReceipts ==
  ASSUME Receipts, Types', WorkerHome', NeverStarted', SettleAny \/ Others
  PROVE  Receipts'
<1> USE DEF Receipts, Types, TypeOK
<1> SUFFICES ASSUME NEW r \in Runs PROVE Rec(r)'
  OBVIOUS
<1>1. UNCHANGED <<pc, worker, job, result, changed>> /\ Rec(r)
  BY DEF SettleAny, SettlePlugins, Others, Cancel, RevokeLease, ChangePlugins, Foreign
<1>2. CASE call'[r] = call[r] /\ status'[r] = status[r]
  BY <1>1, <1>2, Elsewhere
<1>3. CASE Running(r) /\ call'[r] = SettledCalls(call[r]) /\ status'[r] = "canceled"
  <2>1. pc[r] \notin {"idle", "preflight"}
    BY <1>3 DEF NeverStarted, Running
  <2> QED
    BY <1>1, <1>3, <2>1, EndedRun
<1>4. CASE SettleAny
  <2>1. \/ call'[r] = call[r] /\ status'[r] = status[r]
        \/ Running(r) /\ call'[r] = SettledCalls(call[r]) /\ status'[r] = "canceled"
    BY <1>4 DEF SettleAny, SettlePlugins
  <2> QED
    BY <1>2, <1>3, <2>1
<1>5. ASSUME NEW q \in Runs, Cancel(q) PROVE Rec(r)'
  <2>1. \/ call'[r] = call[r] /\ status'[r] = status[r]
        \/ Running(r) /\ call'[r] = SettledCalls(call[r]) /\ status'[r] = "canceled"
    BY <1>5 DEF Cancel, EndRuns
  <2> QED
    BY <1>2, <1>3, <2>1
<1>6. CASE Others /\ \A q \in Runs : ~Cancel(q)
  <2>1. call' = call /\ status' = status
    BY <1>6 DEF Others, RevokeLease, ChangePlugins, Foreign
  <2> QED
    BY <1>2, <2>1
<1> QED
  BY <1>4, <1>5, <1>6

LEMMA InitReceipts == Init => Receipts
<1> SUFFICES ASSUME Init, NEW r \in Runs PROVE Rec(r)
  BY InitTyped, ZenonT(60) DEF Init, Receipts, WorkerHome, NeverStarted
<1> USE DEF Init
<1>1. Prefix(r) /\ Truth(r)
  BY DEF Prefix, Truth
<1>2. InHand(r) /\ Known(r)
  BY DEF InHand, Known, Running, Open
<1> QED
  BY <1>1, <1>2 DEF Rec

LEMMA NextKeepsReceipts ==
  ASSUME Receipts, Life, Edits, [Next]_vars
  PROVE  Receipts'
<1>0. /\ Types' /\ WorkerHome' /\ NeverStarted' /\ Types /\ NeverStarted
      /\ \A q \in Runs : Known(q)
  BY NextKeepsLife, NextKeepsEdits DEF Life, Edits, Receipts, Rec
<1>1. CASE Next
  <2>1. ASSUME NEW r \in Runs, Begin(r) PROVE Receipts'
    BY <1>0, <2>1, BeginMovesOn, OneRunMovesOn
  <2>2. ASSUME NEW r \in Runs, Step(r) PROVE Receipts'
    <3>0. status[r] = "completed" => pc[r] = "done"
      BY <1>0 DEF Known
    <3>1. CASE \/ Attach(r) \/ Prepare(r) \/ Top(r) \/ Send(r) \/ AnswerFails(r) \/ TurnEnds(r)
               \/ MarkFails(r) \/ Poll(r) \/ RemoteEnds(r) \/ Retain(r)
               \/ \E with \in {"answer", "error"} : ExtensionReturns(r, with)
      BY <1>0, <3>0, <3>1, StepMovesOn, OneRunMovesOn
    <3>2. CASE \E n \in 0..MaxTurn : Answer(r, n)
      BY <1>0, <3>2, AnswerKeepsReceipts
    <3>3. CASE Admit(r) \/ Call(r)
      BY <1>0, <3>3, AdmitKeepsReceipts, CallKeepsReceipts
    <3>4. CASE Collect(r) \/ \E phase \in {"replied", "unknown"} : Reply(r, phase)
      BY <1>0, <3>4, OutcomeKeepsReceipts
    <3>5. CASE Abort(r) \/ Settle(r)
      BY <1>0, <3>5, ClosingKeepsReceipts
    <3> QED
      BY <2>2, <3>1, <3>2, <3>3, <3>4, <3>5 DEF Step
  <2>3. ASSUME NEW r \in Runs, Work(r) PROVE Receipts'
    BY <1>0, <2>3, WorkKeepsReceipts
  <2>4. ASSUME NEW r \in Runs,
               Timeout(r) \/ Interrupt(r) \/ Notice(r) \/ JournalFails(r)
        PROVE  Receipts'
    BY <1>0, <2>4, OtherStepMovesOn, OneRunMovesOn DEF Known
  <2>5. CASE SettleAny \/ Others
    BY <1>0, <2>5, OthersKeepReceipts
  <2> QED
    BY <1>1, <2>1, <2>2, <2>3, <2>4, <2>5 DEF Next
<1>2. CASE UNCHANGED vars
  BY <1>0, <1>2, Elsewhere DEF vars, Receipts
<1> QED
  BY <1>1, <1>2

LEMMA ReceiptsAreTrue == Receipts => ReceiptsTrue
BY DEF Receipts, ReceiptsTrue, Rec, Truth, Known

\* What the receipts of a run say of the world outside is true, and a run that completed
\* knows the outcome of each of its calls (agent_execution.rs:44), for any number of runs,
\* calls and rounds.
THEOREM ReceiptsAlwaysTrue == Spec => []ReceiptsTrue
<1>1. Spec => [](Receipts /\ Life /\ Edits)
  BY InitReceipts, InitLife, InitEdits, NextKeepsReceipts, NextKeepsLife, NextKeepsEdits, PTL DEF Spec
<1> QED
  BY <1>1, ReceiptsAreTrue, PTL

-----------------------------------------------------------------------------
(* The calls implement the abstract ledger.                                *)

\* One call took a step the ledger allows.
Allowed(r, i) ==
  \/ EntryOf(r, i)' = EntryOf(r, i)
  \/ Ledger!Move(EntryOf(r, i), EntryOf(r, i)')

\* What the ledger sees of a call, apart from what its receipt says
SameMade(r, i) == <<r, i>> \in changed' <=> <<r, i>> \in changed
NotMade(r, i)  == <<r, i>> \notin changed
Unmade(r, i)   == <<r, i>> \notin changed'
WillMake(r, i) == worker'[r] \in Working /\ job'[r] = i

\* The parts of an entry, and those of the next state
LEMMA Parts ==
  ASSUME NEW r \in Runs, NEW i \in Slots
  PROVE  /\ \A b \in BOOLEAN : (MayMake(r, i) <=> b) =>
               EntryOf(r, i) = Ledger!At(SaysOf(call[r][i]), b, Made(r, i))
         /\ \A b \in BOOLEAN : (WillMake(r, i) <=> b) =>
               EntryOf(r, i)' = Ledger!At(SaysOf(call'[r][i]), b, Made(r, i)')
<1>1. MayMake(r, i) \in BOOLEAN /\ WillMake(r, i) \in BOOLEAN
  BY DEF MayMake, WillMake
<1>2. EntryOf(r, i) = Ledger!At(SaysOf(call[r][i]), MayMake(r, i), Made(r, i))
  BY DEF EntryOf, Ledger!At
<1>3. EntryOf(r, i)' = Ledger!At(SaysOf(call'[r][i]), WillMake(r, i), Made(r, i)')
  BY DEF EntryOf, MayMake, WillMake, Ledger!At
<1>4. ASSUME NEW b \in BOOLEAN, MayMake(r, i) <=> b PROVE MayMake(r, i) = b
  BY <1>1, <1>4
<1>5. ASSUME NEW b \in BOOLEAN, WillMake(r, i) <=> b PROVE WillMake(r, i) = b
  BY <1>1, <1>5
<1> QED  BY <1>2, <1>3, <1>4, <1>5

LEMMA AllowedStill ==
  ASSUME NEW r \in Runs, NEW i \in Slots,
         SaysOf(call'[r][i]) = SaysOf(call[r][i]), SameMade(r, i),
         WillMake(r, i) => MayMake(r, i)
  PROVE  Allowed(r, i)
<1>1. Made(r, i)' = Made(r, i)
  BY DEF SameMade, Made
<1>2. CASE MayMake(r, i) /\ WillMake(r, i)
  BY <1>1, <1>2, Parts DEF Allowed
<1>3. CASE ~MayMake(r, i)
  BY <1>1, <1>3, Parts DEF Allowed
<1>4. CASE MayMake(r, i) /\ ~WillMake(r, i)
  BY <1>1, <1>4, Parts, Ledger!GrantedMove DEF Allowed
<1> QED  BY <1>2, <1>3, <1>4

LEMMA AllowedSaid ==
  ASSUME NEW r \in Runs, NEW i \in Slots, SameMade(r, i), ~WillMake(r, i),
         \/ /\ ~MayMake(r, i)
            /\ \/ call[r][i] = "absent" /\ call'[r][i] = "prepared"
               \/ call[r][i] = "absent" /\ call'[r][i] = "notsent"
               \/ call[r][i] = "prepared" /\ call'[r][i] = "notsent"
         \/ call[r][i] \in Open /\ call'[r][i] \in {"committed", "refused", "replied"}
  PROVE  Allowed(r, i)
<1>1. Made(r, i)' = Made(r, i)
  BY DEF SameMade, Made
<1>2. CASE ~MayMake(r, i) /\ call[r][i] = "absent" /\ call'[r][i] = "prepared"
  <2>1. SaysOf(call[r][i]) = "nothing" /\ SaysOf(call'[r][i]) = "open"
    BY <1>2 DEF SaysOf
  <2> QED  BY <1>1, <1>2, <2>1, Parts, Ledger!EntryMove DEF Allowed
<1>3. CASE ~MayMake(r, i) /\ call[r][i] = "absent" /\ call'[r][i] = "notsent"
  <2>1. SaysOf(call[r][i]) = "nothing" /\ SaysOf(call'[r][i]) = "never"
    BY <1>3 DEF SaysOf
  <2> QED  BY <1>1, <1>3, <2>1, Parts, Ledger!EntryMove DEF Allowed
<1>4. CASE ~MayMake(r, i) /\ call[r][i] = "prepared" /\ call'[r][i] = "notsent"
  <2>1. SaysOf(call[r][i]) = "open" /\ SaysOf(call'[r][i]) = "never"
    BY <1>4 DEF SaysOf
  <2> QED  BY <1>1, <1>4, <2>1, Parts, Ledger!EntryMove DEF Allowed
<1>5. CASE call[r][i] \in Open /\ call'[r][i] \in {"committed", "refused", "replied"}
  <2>1. SaysOf(call[r][i]) = "sent" /\ SaysOf(call'[r][i]) = "answered"
    BY <1>5 DEF SaysOf, Open
  <2>2. CASE MayMake(r, i)
    BY <1>1, <2>1, <2>2, Parts, Ledger!EntryMove DEF Allowed
  <2>3. CASE ~MayMake(r, i)
    BY <1>1, <2>1, <2>3, Parts, Ledger!EntryMove DEF Allowed
  <2> QED  BY <2>2, <2>3
<1> QED  BY <1>2, <1>3, <1>4, <1>5

\* A call is granted to a worker, or granted and made at once; and a worker makes it.
LEMMA AllowedGranted ==
  ASSUME NEW r \in Runs, NEW i \in Slots, ~MayMake(r, i), NotMade(r, i),
         call[r][i] = "prepared", call'[r][i] = "dispatched",
         WillMake(r, i) <=> Unmade(r, i)
  PROVE  Allowed(r, i)
<1>1. SaysOf(call[r][i]) = "open" /\ SaysOf(call'[r][i]) = "sent" /\ Made(r, i) = 0
  BY DEF SaysOf, Made, NotMade
<1>2. CASE WillMake(r, i)
  <2>1. Made(r, i)' = 0
    BY <1>2 DEF Unmade, Made
  <2>2. EntryOf(r, i) = Ledger!At("open", FALSE, 0) /\ EntryOf(r, i)' = Ledger!At("sent", TRUE, 0)
    BY <1>1, <1>2, <2>1, Parts
  <2> QED  BY <2>2, Ledger!EntryMove DEF Allowed
<1>3. CASE ~WillMake(r, i)
  <2>1. Made(r, i)' = 0 + 1
    BY <1>3 DEF Unmade, Made
  <2>2. /\ EntryOf(r, i) = Ledger!At("open", FALSE, 0)
        /\ EntryOf(r, i)' = Ledger!At("sent", FALSE, 0 + 1)
    BY <1>1, <1>3, <2>1, Parts
  <2> QED  BY <2>2, Ledger!EntryMove DEF Allowed
<1> QED  BY <1>2, <1>3

LEMMA AllowedMade ==
  ASSUME NEW r \in Runs, NEW i \in Slots, MayMake(r, i), ~WillMake(r, i),
         NotMade(r, i), ~Unmade(r, i), call'[r][i] = call[r][i]
  PROVE  Allowed(r, i)
<1>1. Made(r, i) = 0 /\ Made(r, i)' = 0 + 1
  BY DEF NotMade, Unmade, Made
<1> QED  BY <1>1, Parts, Ledger!GrantedMove DEF Allowed

\* A run whose task only moves on, and a run of somebody else's step
LEMMA MovedOnAllowed ==
  ASSUME NEW r \in Runs, MovesOn(r), NEW i \in Slots
  PROVE  Allowed(r, i)
BY AllowedStill DEF MovesOn, SameMade, WillMake, MayMake

LEMMA OthersAllowed ==
  ASSUME NEW r \in Runs, OthersStay(r), \A i \in Slots : Allowed(r, i)
  PROVE  \A q \in Runs, i \in Slots : Allowed(q, i)
<1>1. ASSUME NEW q \in Runs \ {r}, NEW i \in Slots PROVE Allowed(q, i)
  BY <1>1, AllowedStill DEF OthersStay, SameMade, WillMake, MayMake
<1> QED  BY <1>1

AllAllowed == \A r \in Runs, i \in Slots : Allowed(r, i)

\* Some of a run's prepared calls are settled as not sent, those that were sent may lose
\* their answer, while the workers go on.
LEMMA SettledAllowed ==
  ASSUME NEW r \in Runs, Rec(r), NEW i \in Slots, SameMade(r, i),
         worker'[r] = worker[r], job'[r] = job[r],
         \/ call'[r][i] = call[r][i]
         \/ call[r][i] = "prepared" /\ call'[r][i] = "notsent"
         \/ call[r][i] = "dispatched" /\ call'[r][i] = "unknown"
  PROVE  Allowed(r, i)
<1>1. WillMake(r, i) => MayMake(r, i)
  BY DEF WillMake, MayMake
<1>2. CASE call'[r][i] = call[r][i]
  BY <1>1, <1>2, AllowedStill
<1>3. CASE call[r][i] = "dispatched" /\ call'[r][i] = "unknown"
  BY <1>1, <1>3, AllowedStill DEF SaysOf
<1>4. CASE call[r][i] = "prepared" /\ call'[r][i] = "notsent"
  <2>1. ~MayMake(r, i)
    BY <1>4 DEF Rec, InHand, MayMake, Working, Open
  <2> QED  BY <1>1, <1>4, <2>1, AllowedSaid
<1> QED  BY <1>2, <1>3, <1>4

LEMMA PersistAllowed ==
  ASSUME Receipts, NEW r \in Runs, Persist(r)
  PROVE  AllAllowed
<1> USE DEF Receipts, Types, TypeOK
<1>1. /\ worker[r] = "compared" /\ worker'[r] = "saved" /\ job' = job /\ call' = call
      /\ changed' = changed \cup {<<r, job[r]>>} /\ OthersStay(r)
  BY DEF Persist, OthersStay
<1>2. NotMade(r, job[r])
  BY <1>1 DEF Rec, InHand, NotMade
<1>3. ASSUME NEW i \in Slots PROVE Allowed(r, i)
  <2>1. CASE i = job[r]
    BY <1>1, <1>2, <2>1, AllowedMade DEF MayMake, WillMake, Unmade, Working
  <2>2. CASE i # job[r]
    BY <1>1, <2>2, AllowedStill DEF MayMake, WillMake, SameMade
  <2> QED  BY <2>1, <2>2
<1> QED  BY <1>1, <1>3, OthersAllowed DEF AllAllowed

LEMMA AnswerAllowed ==
  ASSUME Receipts, NEW r \in Runs, NEW n \in 0..MaxTurn, Answer(r, n)
  PROVE  AllAllowed
<1> USE DEF Receipts, Types, TypeOK
<1>1. /\ UNCHANGED <<worker, job, changed>> /\ worker[r] = "none" /\ OthersStay(r)
  BY DEF Answer, OthersStay, WorkerHome, Left
<1>2. Used(r) \in Nat /\ \A i \in Slots : call[r][i] = "absent" <=> i > Used(r)
  BY UsedSlots DEF Rec
<1>3. ASSUME NEW i \in Slots PROVE Allowed(r, i)
  <2>1. call'[r][i] = IF i \in (Used(r) + 1)..(Used(r) + n)
                        THEN IF Running(r) THEN "prepared" ELSE "notsent" ELSE call[r][i]
    BY DEF Answer
  <2>2. ~MayMake(r, i) /\ ~WillMake(r, i) /\ SameMade(r, i)
    BY <1>1 DEF MayMake, WillMake, SameMade, Working
  <2>3. CASE i \in (Used(r) + 1)..(Used(r) + n)
    <3>1. call[r][i] = "absent"
      BY <1>2, <2>3
    <3> QED  BY <2>1, <2>2, <2>3, <3>1, AllowedSaid
  <2>4. CASE i \notin (Used(r) + 1)..(Used(r) + n)
    BY <2>1, <2>2, <2>4, AllowedStill
  <2> QED  BY <2>3, <2>4
<1> QED  BY <1>1, <1>3, OthersAllowed DEF AllAllowed

LEMMA AdmitAllowed ==
  ASSUME Receipts, NEW r \in Runs, Admit(r)
  PROVE  AllAllowed
<1> USE DEF Receipts, Types, TypeOK
<1>1. UNCHANGED <<worker, job, changed>> /\ OthersStay(r)
  BY DEF Admit, OthersStay
<1>2. ASSUME NEW i \in Slots PROVE Allowed(r, i)
  <2>1. call'[r][i] = call[r][i] \/ (call[r][i] = "prepared" /\ call'[r][i] = "notsent")
    BY DEF Admit, Proposed
  <2> QED  BY <1>1, <2>1, SettledAllowed DEF SameMade
<1> QED  BY <1>1, <1>2, OthersAllowed DEF AllAllowed

LEMMA CallAllowed ==
  ASSUME Receipts, NEW r \in Runs, Call(r)
  PROVE  AllAllowed
<1> USE DEF Receipts, Types, TypeOK
<1> SUFFICES ASSUME NEW k \in Slots,
                    NextCall(r, k) \/ Mark(r, k) \/ Dispatch(r, k) \/ NotSent(r, k)
             PROVE  AllAllowed
  BY DEF Call
<1>0. /\ OthersStay(r) /\ worker[r] = "none" /\ call[r][k] = "prepared" /\ NotMade(r, k)
  <2>1. OthersStay(r)
    <3>1. CASE NextCall(r, k)
      BY <3>1 DEF NextCall, OthersStay
    <3>2. CASE Mark(r, k)
      BY <3>2 DEF Mark, OthersStay
    <3>3. CASE Dispatch(r, k)
      BY <3>3 DEF Dispatch, OthersStay
    <3>4. CASE NotSent(r, k)
      BY <3>4 DEF NotSent, OthersStay
    <3> QED  BY <3>1, <3>2, <3>3, <3>4
  <2>2. pc[r] \in {"calls", "mark", "remote"} /\ call[r][k] = "prepared"
    BY DEF NextCall, Mark, Dispatch, NotSent, IsNext
  <2>3. worker[r] = "none" /\ NotMade(r, k)
    BY <2>2 DEF WorkerHome, Left, Rec, Truth, NotMade
  <2> QED  BY <2>1, <2>2, <2>3
<1>1. CASE NextCall(r, k) \/ NotSent(r, k)
  <2>1. UNCHANGED <<worker, job, changed>>
    BY <1>1 DEF NextCall, NotSent
  <2>2. \A i \in Slots : call'[r][i] = call[r][i] \/ (i = k /\ call'[r][i] = "notsent")
    BY <1>1 DEF NextCall, NotSent
  <2>3. \A i \in Slots : Allowed(r, i)
    BY <1>0, <2>1, <2>2, SettledAllowed DEF SameMade
  <2> QED  BY <1>0, <2>3, OthersAllowed DEF AllAllowed
<1>2. CASE Mark(r, k) \/ Dispatch(r, k)
  <2>1. /\ call'[r][k] = "dispatched" /\ \A j \in Slots \ {k} : call'[r][j] = call[r][j]
    BY <1>2, OneReceipt DEF Mark, Dispatch
  <2>2. /\ job'[r] = k
        /\ \/ worker'[r] = "started" /\ changed' = changed
           \/ worker'[r] = "none" /\ changed' = changed \cup {<<r, k>>}
    <3>1. CASE Mark(r, k)
      BY <3>1 DEF Mark
    <3>2. CASE Dispatch(r, k)
      BY <1>0, <3>2 DEF Dispatch
    <3> QED  BY <1>2, <3>1, <3>2
  <2>3. Allowed(r, k)
    <3>1. ~MayMake(r, k) /\ (WillMake(r, k) <=> Unmade(r, k))
      BY <1>0, <2>2 DEF MayMake, WillMake, Unmade, NotMade, Working
    <3> QED  BY <1>0, <2>1, <3>1, AllowedGranted
  <2>4. ASSUME NEW j \in Slots \ {k} PROVE Allowed(r, j)
    <3>1. SameMade(r, j)
      BY <2>2 DEF SameMade
    <3>2. ~WillMake(r, j)
      BY <2>2 DEF WillMake
    <3>3. j \in Slots /\ SaysOf(call'[r][j]) = SaysOf(call[r][j])
      BY <2>1
    <3> QED  BY <3>1, <3>2, <3>3, AllowedStill
  <2>5. \A i \in Slots : Allowed(r, i)
    <3> SUFFICES ASSUME NEW i \in Slots PROVE Allowed(r, i)
      OBVIOUS
    <3>1. CASE i = k
      BY <2>3, <3>1
    <3>2. CASE i # k
      BY <2>4, <3>2
    <3> QED  BY <3>1, <3>2
  <2> QED  BY <1>0, <2>5, OthersAllowed, Zenon DEF AllAllowed
<1> QED  BY <1>1, <1>2

LEMMA OutcomeAllowed ==
  ASSUME Receipts, NEW r \in Runs,
         Collect(r) \/ \E phase \in {"replied", "unknown"} : Reply(r, phase)
  PROVE  AllAllowed
<1> USE DEF Receipts, Types, TypeOK
<1>1. job[r] \in Slots /\ call[r][job[r]] \in Open /\ OthersStay(r)
  <2>1. job[r] \in Slots /\ call[r][job[r]] \in Open
    BY DEF Collect, Reply, JobKnown, Rec, InHand
  <2>2. CASE Collect(r)
    BY <2>1, <2>2 DEF Collect, OthersStay
  <2>3. CASE \E phase \in {"replied", "unknown"} : Reply(r, phase)
    BY <2>1, <2>3 DEF Reply, OthersStay
  <2> QED  BY <2>2, <2>3
<1>2. PICK p \in {"committed", "refused", "replied", "unknown"} : Receipt(r, job[r], p)
  BY DEF Collect, LocalReply, Reply
<1>3. call'[r][job[r]] = p /\ \A j \in Slots \ {job[r]} : call'[r][j] = call[r][j]
  BY <1>1, <1>2, OneReceipt
<1>4. UNCHANGED <<job, changed>> /\ worker'[r] = "none"
  <2>1. CASE Collect(r)
    BY <2>1 DEF Collect
  <2>2. CASE \E phase \in {"replied", "unknown"} : Reply(r, phase)
    <3>1. pc[r] = "wire" /\ UNCHANGED <<worker, job, changed>>
      BY <2>2 DEF Reply
    <3> QED  BY <3>1 DEF WorkerHome, Left
  <2> QED  BY <2>1, <2>2
<1>5. ASSUME NEW i \in Slots PROVE Allowed(r, i)
  <2>1. SameMade(r, i) /\ ~WillMake(r, i)
    BY <1>4 DEF SameMade, WillMake, Working
  <2>2. CASE i = job[r] /\ p # "unknown"
    BY <1>1, <1>3, <2>1, <2>2, AllowedSaid
  <2>3. CASE i = job[r] /\ p = "unknown"
    <3>1. SaysOf(call[r][i]) = "sent" /\ SaysOf(call'[r][i]) = "sent"
      BY <1>1, <1>3, <2>3 DEF SaysOf, Open
    <3> QED  BY <2>1, <3>1, AllowedStill
  <2>4. CASE i # job[r]
    BY <1>3, <2>1, <2>4, AllowedStill
  <2> QED  BY <2>2, <2>3, <2>4
<1> QED  BY <1>1, <1>5, OthersAllowed DEF AllAllowed

\* Who ends runs settles their receipts, and leaves the workers to themselves.
LEMMA EndingAllowed ==
  ASSUME Receipts, UNCHANGED <<worker, job, changed>>,
         \A r \in Runs : call'[r] = call[r] \/ call'[r] = SettledCalls(call[r])
  PROVE  AllAllowed
<1> SUFFICES ASSUME NEW r \in Runs, NEW i \in Slots PROVE Allowed(r, i)
  BY DEF AllAllowed
<1>1. call[r] \in [Slots -> Phases] /\ Rec(r)
  BY DEF Receipts, Types, TypeOK
<1>2. \/ call'[r][i] = call[r][i]
      \/ call[r][i] = "prepared" /\ call'[r][i] = "notsent"
      \/ call[r][i] = "dispatched" /\ call'[r][i] = "unknown"
  BY <1>1, SettledCallsAre
<1> QED  BY <1>1, <1>2, SettledAllowed DEF SameMade

LEMMA AbortOrSettleAllowed ==
  ASSUME Receipts, NEW r \in Runs, Abort(r) \/ Settle(r)
  PROVE  AllAllowed
<1>1. UNCHANGED <<worker, job, changed>>
  BY DEF Abort, Settle
<1>2. call' = call \/ \E end \in Statuses : EndRuns({r}, end)
  BY DEF Abort, Settle, Statuses
<1>3. \A q \in Runs : call'[q] = call[q] \/ call'[q] = SettledCalls(call[q])
  BY <1>2 DEF EndRuns
<1> QED  BY <1>1, <1>3, EndingAllowed

LEMMA OthersMoveAllowed ==
  ASSUME Receipts, SettleAny \/ Others
  PROVE  AllAllowed
<1>1. UNCHANGED <<worker, job, changed>>
  BY DEF SettleAny, SettlePlugins, Others, Cancel, RevokeLease, ChangePlugins, Foreign
<1>2. ASSUME NEW q \in Runs PROVE call'[q] = call[q] \/ call'[q] = SettledCalls(call[q])
  <2>1. CASE SettleAny
    BY <2>1 DEF SettleAny, SettlePlugins
  <2>2. CASE Others
    BY <2>2 DEF Others, Cancel, EndRuns, RevokeLease, ChangePlugins, Foreign
  <2> QED  BY <2>1, <2>2
<1> QED  BY <1>1, <1>2, EndingAllowed

LEMMA NextAllowed ==
  ASSUME Receipts, [Next]_vars
  PROVE  AllAllowed
<1>0. Types /\ NeverStarted /\ \A q \in Runs : Known(q)
  BY DEF Receipts, Rec
<1>a. \A q \in Runs : status[q] = "completed" => pc[q] = "done"
  BY <1>0 DEF Known
<1>1. ASSUME NEW r \in Runs, MovesOn(r), OthersStay(r) PROVE AllAllowed
  BY <1>1, MovedOnAllowed, OthersAllowed DEF AllAllowed
<1>2. CASE Next
  <2>1. ASSUME NEW r \in Runs, Begin(r) PROVE AllAllowed
    BY <1>0, <1>1, <2>1, BeginMovesOn
  <2>2. ASSUME NEW r \in Runs, Step(r) PROVE AllAllowed
    <3>1. CASE \/ Attach(r) \/ Prepare(r) \/ Top(r) \/ Send(r) \/ AnswerFails(r) \/ TurnEnds(r)
               \/ MarkFails(r) \/ Poll(r) \/ RemoteEnds(r) \/ Retain(r)
               \/ \E with \in {"answer", "error"} : ExtensionReturns(r, with)
      BY <1>0, <1>a, <1>1, <3>1, StepMovesOn
    <3>2. CASE \E n \in 0..MaxTurn : Answer(r, n)
      BY <3>2, AnswerAllowed
    <3>3. CASE Admit(r) \/ Call(r)
      BY <3>3, AdmitAllowed, CallAllowed
    <3>4. CASE Collect(r) \/ \E phase \in {"replied", "unknown"} : Reply(r, phase)
      BY <3>4, OutcomeAllowed
    <3>5. CASE Abort(r) \/ Settle(r)
      BY <3>5, AbortOrSettleAllowed
    <3> QED  BY <2>2, <3>1, <3>2, <3>3, <3>4, <3>5 DEF Step
  <2>3. ASSUME NEW r \in Runs, Work(r) PROVE AllAllowed
    BY <1>0, <1>a, <1>1, <2>3, PersistAllowed, OtherStepMovesOn DEF Work
  <2>4. ASSUME NEW r \in Runs,
               Timeout(r) \/ Interrupt(r) \/ Notice(r) \/ JournalFails(r)
        PROVE  AllAllowed
    BY <1>0, <1>a, <1>1, <2>4, OtherStepMovesOn
  <2>5. CASE SettleAny \/ Others
    BY <2>5, OthersMoveAllowed
  <2> QED  BY <1>2, <2>1, <2>2, <2>3, <2>4, <2>5 DEF Next
<1>3. CASE UNCHANGED vars
  <2>1. UNCHANGED <<call, worker, job, changed>>
    BY <1>3 DEF vars
  <2> QED  BY <2>1, EndingAllowed
<1> QED  BY <1>2, <1>3

LEMMA LedgerOfType == Types => LedgerOf \in [Runs \X Slots -> Ledger!Entry]
<1>1. ASSUME Types, NEW r \in Runs, NEW i \in Slots PROVE EntryOf(r, i) \in Ledger!Entry
  <2>1. SaysOf(call[r][i]) \in Ledger!Says
    <3>1. call[r][i] \in Phases
      BY <1>1 DEF Types, TypeOK
    <3> QED  BY <3>1 DEF Phases, SaysOf, Ledger!Says
  <2>2. MayMake(r, i) \in BOOLEAN /\ Made(r, i) \in Nat
    BY DEF MayMake, Made
  <2> QED  BY <2>1, <2>2 DEF EntryOf, Ledger!Entry
<1> QED  BY <1>1 DEF LedgerOf

LEMMA LedgerInit == Init => Ledger!Init
<1>1. ASSUME Init, NEW r \in Runs, NEW i \in Slots
      PROVE  EntryOf(r, i) = Ledger!At("nothing", FALSE, 0)
  <2>1. call[r][i] = "absent" /\ worker[r] = "none" /\ changed = {}
    BY <1>1 DEF Init
  <2>2. SaysOf(call[r][i]) = "nothing" /\ ~MayMake(r, i) /\ Made(r, i) = 0
    BY <2>1 DEF SaysOf, MayMake, Made, Working
  <2> QED  BY <2>2, Parts
<1> QED  BY <1>1 DEF LedgerOf, Ledger!Init

LEMMA LedgerStep == Receipts /\ Types' /\ [Next]_vars => [Ledger!Next]_LedgerOf
<1> SUFFICES ASSUME Receipts, Types', [Next]_vars PROVE Ledger!Next
  OBVIOUS
<1>1. LedgerOf' \in [Runs \X Slots -> Ledger!Entry]
  <2>1. Types' => (LedgerOf \in [Runs \X Slots -> Ledger!Entry])'
    BY LedgerOfType, PTL
  <2> QED  BY <2>1
<1>2. ASSUME NEW c \in Runs \X Slots
      PROVE  LedgerOf'[c] = LedgerOf[c] \/ Ledger!Move(LedgerOf[c], LedgerOf'[c])
  <2>1. c[1] \in Runs /\ c[2] \in Slots
    OBVIOUS
  <2>2. LedgerOf[c] = EntryOf(c[1], c[2]) /\ LedgerOf'[c] = EntryOf(c[1], c[2])'
    BY DEF LedgerOf
  <2> QED  BY <2>1, <2>2, NextAllowed DEF AllAllowed, Allowed
<1> QED  BY <1>1, <1>2 DEF Ledger!Next

\* The calls of the runs implement the abstract ledger: whatever ends a run, a call that
\* was refused or not granted is never made, and one that was granted is made at most
\* once, by the worker that was started for it or in the step that granted it.
THEOREM CallsImplementLedger == Spec => ImplementsLedger
<1>1. Spec => [](Receipts /\ Life /\ Edits)
  BY InitReceipts, InitLife, InitEdits, NextKeepsReceipts, NextKeepsLife, NextKeepsEdits, PTL DEF Spec
<1>2. Receipts => Types
  BY DEF Receipts
<1> QED  BY <1>1, <1>2, LedgerInit, LedgerStep, PTL DEF Spec, ImplementsLedger, Ledger!Spec

-----------------------------------------------------------------------------
(* How far a run has come: the round it is in, the leg of the round, the   *)
(* calls of the turn that are still to be made, and within one call the    *)
(* place.  No step goes back, so a run has only so many: that it takes     *)
(* them is what RunsEnd adds, under fairness.                              *)

LegOf(at) ==
  CASE at = "idle" -> 0
    [] at = "preflight" -> 1
    [] at = "attach" -> 2
    [] at \in {"context", "extension"} -> 3
    [] at = "top" -> 4
    [] at = "send" -> 5
    [] at = "answer" -> 6
    [] at = "turn" -> 7
    [] at \in {"calls", "mark", "local", "remote", "wire"} -> 8
    [] at = "retain" -> 9
    [] at \in {"closing", "aborting"} -> 10
    [] at = "done" -> 11

PlaceOf(at) ==
  CASE at \in {"local", "wire"} -> 0
    [] at = "calls" -> 1
    [] at \in {"mark", "remote"} -> 2
    [] OTHER -> 3

NextRound(r) == round'[r] = round[r] + 1 /\ round[r] + 1 < MaxRounds
NextLeg(r) == round'[r] = round[r] /\ LegOf(pc[r]) < LegOf(pc'[r])
SameLeg(r) == round'[r] = round[r] /\ LegOf(pc[r]) = LegOf(pc'[r])
NextCallMade(r) ==
  SameLeg(r) /\ Proposed(r)' \subseteq Proposed(r) /\ Proposed(r)' # Proposed(r)
NextPlace(r) ==
  SameLeg(r) /\ Proposed(r)' = Proposed(r) /\ PlaceOf(pc[r]) < PlaceOf(pc'[r])

Advances(r) == NextRound(r) \/ NextLeg(r) \/ NextCallMade(r) \/ NextPlace(r)
Stays(r) == UNCHANGED <<pc[r], round[r], Proposed(r)>>

\* A run only goes forward: to a next round, of which there are MaxRounds, to a later leg
\* of its round, or on through the calls its turn proposed.
RunsGoForward == [][\A r \in Runs : Advances(r) \/ Stays(r)]_vars

\* Settled receipts propose nothing.
LEMMA SettledProposeNothing ==
  ASSUME Types, NEW r \in Runs, pc'[r] = pc[r], round'[r] = round[r],
         call'[r] \in {call[r], SettledCalls(call[r])}
  PROVE  Advances(r) \/ Stays(r)
<1>1. CASE call'[r] = call[r]
  BY <1>1 DEF Stays, Proposed
<1>2. CASE call'[r] = SettledCalls(call[r])
  <2>1. call[r] \in [Slots -> Phases]
    BY DEF Types, TypeOK
  <2>2. \A i \in Slots : call'[r][i] # "prepared"
    BY <1>2, <2>1, SettledCallsAre
  <2>3. Proposed(r)' = {}
    BY <2>2 DEF Proposed
  <2>4. SameLeg(r)
    BY DEF SameLeg
  <2> QED
    BY <2>3, <2>4 DEF Advances, NextCallMade, Stays
<1> QED
  BY <1>1, <1>2

LEMMA NotOfOthers ==
  ASSUME Types, NEW r \in Runs, NEW q \in Runs \ {r}, pc'[q] = pc[q], round'[q] = round[q],
         call'[q] = call[q]
  PROVE  Advances(q) \/ Stays(q)
BY SettledProposeNothing

LEMMA BeginGoesForward ==
  ASSUME Types, NEW r \in Runs, Begin(r), NEW q \in Runs
  PROVE  Advances(q) \/ Stays(q)
<1>0. UNCHANGED <<round, call>>
  BY DEF Begin, Preflight, Start, SetupFails, Refuse
<1>1. CASE q = r
  <2>1. LegOf(pc[r]) < LegOf(pc'[r])
    BY DEF Begin, Preflight, Start, SetupFails, Refuse, LegOf, Types, TypeOK
  <2> QED
    BY <1>0, <1>1, <2>1 DEF Advances, NextLeg
<1>2. CASE q # r
  <2>1. pc'[q] = pc[q]
    BY <1>2 DEF Begin, Preflight, Start, SetupFails, Refuse, Types, TypeOK
  <2> QED
    BY <1>0, <1>2, <2>1, NotOfOthers
<1> QED
  BY <1>1, <1>2

\* The steps of a task that lead to another leg
LEMMA LegsGoForward ==
  ASSUME Types, NEW r \in Runs,
         \/ Attach(r) \/ Prepare(r) \/ Top(r) \/ Send(r) \/ AnswerFails(r) \/ MarkFails(r)
         \/ Poll(r) \/ RemoteEnds(r) \/ Retain(r)
         \/ \E with \in {"answer", "error"} : ExtensionReturns(r, with)
         \/ \E n \in 0..MaxTurn : Answer(r, n)
         \/ Admit(r) \/ Timeout(r) \/ Interrupt(r) \/ JournalFails(r) \/ Abort(r) \/ Settle(r)
  PROVE  round' = round /\ LegOf(pc[r]) < LegOf(pc'[r]) /\ \A q \in Runs \ {r} : pc'[q] = pc[q]
<1> USE DEF Types, TypeOK, LegOf
<1>1. CASE Attach(r)
  BY <1>1 DEF Attach
<1>2. CASE Prepare(r) \/ Top(r) \/ Send(r)
  BY <1>2 DEF Prepare, Top, Send
<1>3. CASE AnswerFails(r) \/ MarkFails(r) \/ RemoteEnds(r) \/ Retain(r)
  BY <1>3 DEF AnswerFails, MarkFails, RemoteEnds, Retain
<1>4. CASE Poll(r)
  BY <1>4 DEF Poll
<1>5. CASE \E with \in {"answer", "error"} : ExtensionReturns(r, with)
  BY <1>5 DEF ExtensionReturns
<1>6. CASE \E n \in 0..MaxTurn : Answer(r, n)
  BY <1>6 DEF Answer
<1>7. CASE Admit(r)
  <2>1. round' = round /\ pc[r] = "turn" /\ \E at \in {"closing", "retain", "calls"} : pc' = [pc EXCEPT ![r] = at]
    BY <1>7 DEF Admit
  <2> QED
    BY <2>1
<1>8. CASE Timeout(r) \/ JournalFails(r)
  BY <1>8 DEF Timeout, JournalFails, InLoop
<1>9. CASE Interrupt(r)
  BY <1>9 DEF Interrupt, InWork, InLoop
<1>10. CASE Abort(r) \/ Settle(r)
  BY <1>10 DEF Abort, Settle
<1> QED
  BY <1>1, <1>2, <1>3, <1>4, <1>5, <1>6, <1>7, <1>8, <1>9, <1>10

\* No step of a task writes the receipts of another run.
LEMMA OthersReceiptsStay ==
  ASSUME Types, NEW r \in Runs, Step(r) \/ Timeout(r) \/ Interrupt(r) \/ JournalFails(r),
         NEW q \in Runs \ {r}
  PROVE  call'[q] = call[q]
<1> USE DEF Types, TypeOK
<1>1. CASE Abort(r) \/ Settle(r)
  BY <1>1 DEF Abort, Settle, EndRuns
<1>2. CASE Call(r)
  BY <1>2 DEF Call, NextCall, Mark, Dispatch, NotSent
<1>3. CASE \/ Attach(r) \/ Prepare(r) \/ Top(r) \/ Send(r) \/ AnswerFails(r) \/ TurnEnds(r)
           \/ MarkFails(r) \/ Poll(r) \/ RemoteEnds(r) \/ Retain(r)
           \/ \E with \in {"answer", "error"} : ExtensionReturns(r, with)
  BY <1>3 DEF Attach, Prepare, Top, Send, AnswerFails, TurnEnds, MarkFails, Poll, RemoteEnds,
              Retain, ExtensionReturns
<1>4. CASE \/ Collect(r) \/ Admit(r) \/ \E n \in 0..MaxTurn : Answer(r, n)
           \/ \E phase \in {"replied", "unknown"} : Reply(r, phase)
  BY <1>4 DEF Collect, Admit, Answer, Reply
<1>5. CASE Timeout(r) \/ Interrupt(r) \/ JournalFails(r)
  BY <1>5 DEF Timeout, Interrupt, JournalFails
<1> QED
  BY <1>1, <1>2, <1>3, <1>4, <1>5 DEF Step

\* A receipt that is written takes its call out of the proposed ones.
LEMMA CallsGoForward ==
  ASSUME Types, NEW r \in Runs, NEW i \in Slots, NEW phase, Receipt(r, i, phase),
         phase # "prepared", round'[r] = round[r],
         LegOf(pc[r]) < LegOf(pc'[r]) \/ LegOf(pc[r]) = LegOf(pc'[r]),
         call[r][i] # "prepared" => PlaceOf(pc[r]) < PlaceOf(pc'[r])
  PROVE  Advances(r)
<1>1. call'[r][i] = phase /\ \A j \in Slots \ {i} : call'[r][j] = call[r][j]
  BY DEF Types, TypeOK
<1>2. Proposed(r)' = Proposed(r) \ {i}
  BY <1>1 DEF Proposed
<1>3. CASE LegOf(pc[r]) < LegOf(pc'[r])
  BY <1>3 DEF Advances, NextLeg
<1>4. CASE LegOf(pc[r]) = LegOf(pc'[r]) /\ call[r][i] = "prepared"
  BY <1>2, <1>4 DEF Advances, NextCallMade, SameLeg, Proposed
<1>5. CASE LegOf(pc[r]) = LegOf(pc'[r]) /\ call[r][i] # "prepared"
  BY <1>2, <1>5 DEF Advances, NextPlace, SameLeg, Proposed
<1> QED
  BY <1>3, <1>4, <1>5

LEMMA TurnLegs ==
  ASSUME NEW from \in {"calls", "mark", "local", "remote", "wire"}, NEW to \in {"calls", "closing"}
  PROVE  LegOf(from) < LegOf(to) \/ LegOf(from) = LegOf(to)
BY DEF LegOf

LEMMA TurnGoesForward ==
  ASSUME Types, NEW r \in Runs,
         \/ Call(r) \/ TurnEnds(r) \/ Collect(r)
         \/ \E phase \in {"replied", "unknown"} : Reply(r, phase)
  PROVE  /\ Advances(r)
         /\ \A q \in Runs \ {r} : pc'[q] = pc[q] /\ round'[q] = round[q]
<1> USE DEF Types, TypeOK
<1>1. ASSUME NEW i \in Slots, NextCall(r, i) PROVE Advances(r)
  <2>0. pc[r] = "calls" /\ round' = round /\ call[r][i] = "prepared"
    BY <1>1 DEF NextCall, IsNext
  <2>1. CASE Receipt(r, i, "notsent") /\ Goto(r, "calls")
    BY <2>0, <2>1, CallsGoForward
  <2>2. CASE call' = call /\ \E at \in {"mark", "remote"} : pc' = [pc EXCEPT ![r] = at]
    <3>1. PlaceOf(pc[r]) < PlaceOf(pc'[r]) /\ LegOf(pc[r]) = LegOf(pc'[r])
      BY <2>0, <2>2 DEF PlaceOf, LegOf
    <3>2. Proposed(r)' = Proposed(r)
      BY <2>2 DEF Proposed
    <3> QED  BY <2>0, <3>1, <3>2 DEF Advances, NextPlace, SameLeg
  <2>3. CASE pc' = [pc EXCEPT ![r] = "closing"]
    BY <2>0, <2>3 DEF Advances, NextLeg, LegOf
  <2> QED  BY <1>1, <2>1, <2>2, <2>3 DEF NextCall
<1>2. ASSUME NEW i \in Slots, Mark(r, i) \/ Dispatch(r, i) PROVE Advances(r)
  <2>1. /\ round' = round /\ call[r][i] = "prepared" /\ Receipt(r, i, "dispatched")
        /\ LegOf(pc[r]) = LegOf(pc'[r])
    BY <1>2 DEF Mark, Dispatch, IsNext, LegOf
  <2> QED  BY <2>1, CallsGoForward
<1>3. ASSUME NEW i \in Slots, NotSent(r, i) PROVE Advances(r)
  <2>1. round' = round /\ call[r][i] = "prepared" /\ Receipt(r, i, "notsent") /\ pc[r] = "remote"
    BY <1>3 DEF NotSent, IsNext
  <2>2. pc'[r] \in {"calls", "closing"}
    BY <1>3 DEF NotSent
  <2>3. LegOf(pc[r]) < LegOf(pc'[r]) \/ LegOf(pc[r]) = LegOf(pc'[r])
    BY <2>1, <2>2, TurnLegs
  <2>4. CASE LegOf(pc[r]) < LegOf(pc'[r])
    BY <2>1, <2>4 DEF Advances, NextLeg
  <2>5. CASE LegOf(pc[r]) = LegOf(pc'[r])
    BY <2>1, <2>5, CallsGoForward
  <2> QED  BY <2>3, <2>4, <2>5
<1>4. CASE TurnEnds(r)
  BY <1>4 DEF TurnEnds, Advances, NextRound, InTurn
<1>5. ASSUME NEW phase \in {"committed", "refused", "replied", "unknown"},
             pc[r] \in {"local", "wire"}, job[r] \in Slots, round' = round,
             Receipt(r, job[r], phase), pc'[r] \in {"calls", "closing"}
      PROVE  Advances(r)
  <2>1. PlaceOf(pc[r]) < PlaceOf(pc'[r])
    BY <1>5 DEF PlaceOf
  <2>2. LegOf(pc[r]) < LegOf(pc'[r]) \/ LegOf(pc[r]) = LegOf(pc'[r])
    BY <1>5 DEF LegOf
  <2> QED  BY <1>5, <2>1, <2>2, CallsGoForward
<1>6. ASSUME Collect(r) PROVE Advances(r)
  <2>1. PICK phase \in {"committed", "refused"} : phase = LocalReply(r)
    BY DEF LocalReply
  <2>2. job[r] \in Slots
    BY <1>6 DEF Collect, JobKnown
  <2>3. round' = round /\ pc[r] = "local" /\ Receipt(r, job[r], phase)
    BY <1>6, <2>1 DEF Collect
  <2>4. pc'[r] \in {"calls", "closing"}
    BY <1>6 DEF Collect
  <2> QED  BY <1>5, <2>1, <2>2, <2>3, <2>4
<1>7. ASSUME NEW phase \in {"replied", "unknown"}, Reply(r, phase) PROVE Advances(r)
  <2>1. job[r] \in Slots
    BY <1>7 DEF Reply, JobKnown
  <2>2. round' = round /\ pc[r] = "wire" /\ Receipt(r, job[r], phase)
    BY <1>7 DEF Reply
  <2>3. pc'[r] \in {"calls", "closing"}
    BY <1>7 DEF Reply
  <2> QED  BY <1>5, <2>1, <2>2, <2>3
<1>8. \A q \in Runs \ {r} : pc'[q] = pc[q] /\ round'[q] = round[q]
  BY DEF Call, NextCall, Mark, Dispatch, NotSent, TurnEnds, Collect, Reply
<1> QED
  BY <1>1, <1>2, <1>3, <1>4, <1>6, <1>7, <1>8 DEF Call

LEMMA NextGoesForward ==
  ASSUME Types, [Next]_vars, NEW q \in Runs
  PROVE  Advances(q) \/ Stays(q)
<1>1. ASSUME NEW r \in Runs, Begin(r) PROVE Advances(q) \/ Stays(q)
  BY <1>1, BeginGoesForward
<1>2. ASSUME NEW r \in Runs, Step(r) \/ Timeout(r) \/ Interrupt(r) \/ JournalFails(r)
      PROVE  Advances(q) \/ Stays(q)
  <2>1. /\ Advances(r)
        /\ \A p \in Runs \ {r} : pc'[p] = pc[p] /\ round'[p] = round[p]
    BY <1>2, LegsGoForward, TurnGoesForward DEF Step, Advances, NextLeg
  <2>2. \A p \in Runs \ {r} : call'[p] = call[p]
    BY <1>2, OthersReceiptsStay
  <2>3. q # r => Advances(q) \/ Stays(q)
    BY <2>1, <2>2, NotOfOthers
  <2> QED  BY <2>1, <2>3
<1>3. ASSUME NEW r \in Runs, Work(r) \/ Notice(r) PROVE Advances(q) \/ Stays(q)
  <2>1. UNCHANGED <<pc, round, call>>
    BY <1>3 DEF Work, TakeQueue, Load, Stage, CheckAgain, Compare, Persist, GiveUp, Notice
  <2> QED  BY <2>1, SettledProposeNothing
<1>4. CASE SettleAny \/ Others \/ UNCHANGED vars
  <2>1. UNCHANGED <<pc, round>>
    BY <1>4 DEF SettleAny, SettlePlugins, Others, Cancel, RevokeLease, ChangePlugins, Foreign, vars
  <2>2. call'[q] \in {call[q], SettledCalls(call[q])}
    BY <1>4 DEF SettleAny, SettlePlugins, Others, Cancel, EndRuns, RevokeLease, ChangePlugins, Foreign, vars
  <2> QED  BY <2>1, <2>2, SettledProposeNothing
<1> QED
  BY <1>1, <1>2, <1>3, <1>4 DEF Next

\* Neither the loop of a run nor its calls can go on for ever: whatever the model proposes
\* and whoever cancels, revokes or fails meanwhile, each step of a run uses up one of
\* finitely many (agent_loop.rs:15).
THEOREM RunsOnlyGoForward == Spec => RunsGoForward
<1>1. Types /\ [Next]_vars => [\A r \in Runs : Advances(r) \/ Stays(r)]_vars
  BY NextGoesForward
<1> QED
  BY <1>1, InitTyped, NextTyped, PTL DEF Spec, RunsGoForward
=============================================================================
