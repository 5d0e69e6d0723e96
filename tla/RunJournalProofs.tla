-------------------------- MODULE RunJournalProofs --------------------------
(***************************************************************************)
(* Proofs about RunJournal, for every set of scenes, runs and agents and   *)
(* every value of the limits.  First the types, and that the journal       *)
(* implements the call ledger, from which the honesty of the receipts      *)
(* follows.  Then the other safety invariants: a transaction moves the     *)
(* journal in two ways only, it rewrites receipts of one run or it ends    *)
(* the runs of some scenes, and the invariants follow from what those      *)
(* moves do to one record and one receipt.                                 *)
(***************************************************************************)
EXTENDS RunJournal, TLAPS, FiniteSetTheorems

-----------------------------------------------------------------------------
(* The operators keep their types.                                         *)

\* A run is recorded in a scene that is under observation.
RecordsPlaced == \A r \in Runs : record[r].status # "absent" => record[r].scene \in Scenes

TypeInv == TypeOK /\ RecordsPlaced

Trace == [Slots -> StepStatus]

\* The status of a step is one the trace can show, whatever the receipt.
LEMMA SyncType ==
  ASSUME NEW steps \in Trace, NEW evs, NEW which
  PROVE  Sync(steps, evs, which) \in Trace
BY DEF Sync, StatusOf, Trace, StepStatus

LEMMA SettleStepsType ==
  ASSUME NEW steps \in Trace
  PROVE  SettleSteps(steps) \in Trace
BY DEF SettleSteps, Trace, StepStatus

LEMMA SettleAtEndType ==
  ASSUME NEW e \in Event
  PROVE  SettleAtEnd(e) \in Event
BY DEF SettleAtEnd, Event, Phases

LEMMA BumpType ==
  ASSUME NEW rec \in Record, NEW evs
  PROVE  /\ Bump(rec, evs) \in Record
         /\ Bump(rec, evs).status = rec.status
         /\ Bump(rec, evs).scene = rec.scene
<1>1. SettledPrefix(evs) \in SUBSET Slots
  BY DEF SettledPrefix
<1>2. rec.rev + 1 \in Nat
  BY DEF Record
<1> HIDE DEF Slots
<1> QED  BY <1>1, <1>2 DEF Bump, Record

LEMMA OccupiedType ==
  ASSUME NEW scn \in SceneState, NEW r \in Runs
  PROVE  Occupied(scn, r) \in SceneState
BY DEF Occupied, SceneState

LEMMA EmptiedType ==
  ASSUME NEW scn \in SceneState
  PROVE  Emptied(scn) \in SceneState
BY DEF Emptied, SceneState

\* What a transaction that writes receipts of one run leaves behind.
LEMMA WriteType ==
  ASSUME TypeInv, NEW r \in Runs, NEW evs \in [Slots -> Event], Write(r, evs)
  PROVE  /\ event' \in [Runs -> [Slots -> Event]]
         /\ record' \in [Runs -> Record]
         /\ liveSteps' \in [Scenes -> Trace]
         /\ toolSteps' \in [Runs -> Trace]
         /\ RecordsPlaced'
         /\ UNCHANGED <<up, held, active, scenes, server>>
<1> USE DEF TypeInv, TypeOK, Write
<1>1. event' \in [Runs -> [Slots -> Event]]
  OBVIOUS
<1>2. record' \in [Runs -> Record] /\ RecordsPlaced'
  <2>1. record' = [record EXCEPT ![r] = Bump(record[r], evs)]
    OBVIOUS
  <2>2. record[r] \in Record
    OBVIOUS
  <2> QED  BY <2>1, <2>2, BumpType DEF RecordsPlaced
<1>3. liveSteps' \in [Scenes -> Trace]
  <2> DEFINE s == record[r].scene
             new == Sync(liveSteps[s], evs, {i \in Slots : evs[i] # event[r][i]})
  <2>1. liveSteps' = liveSteps \/ liveSteps' = [liveSteps EXCEPT ![s] = new]
    OBVIOUS
  <2>2. s \in Scenes => new \in Trace
    BY SyncType DEF Trace
  <2> HIDE DEF new
  <2> QED  BY <2>1, <2>2 DEF Trace
<1>4. toolSteps' \in [Runs -> Trace]
  <2> DEFINE new == Sync(toolSteps[r], evs, {i \in Slots : evs[i] # event[r][i]})
  <2>1. toolSteps' = toolSteps \/ toolSteps' = [toolSteps EXCEPT ![r] = new]
    OBVIOUS
  <2>2. new \in Trace
    BY SyncType DEF Trace
  <2> HIDE DEF new
  <2> QED  BY <2>1, <2>2 DEF Trace
<1> QED  BY <1>1, <1>2, <1>3, <1>4

\* What a transaction that ends the runs of some scenes leaves behind.
LEMMA EndRunsType ==
  ASSUME TypeInv,
         NEW S \in SUBSET Scenes, NEW status \in EndStatus,
         NEW scs \in [Scenes -> SceneState],
         NEW recs \in [Runs -> Record],
         \A r \in Runs : recs[r].status # "absent" => recs[r].scene \in Scenes,
         NEW evs \in [Runs -> [Slots -> Event]],
         EndRuns(S, status, scs, recs, evs)
  PROVE  /\ scenes' \in [Scenes -> SceneState]
         /\ event' \in [Runs -> [Slots -> Event]]
         /\ record' \in [Runs -> Record]
         /\ liveSteps' \in [Scenes -> Trace]
         /\ toolSteps' \in [Runs -> Trace]
         /\ RecordsPlaced'
<1> DEFINE ended == {r \in Runs : recs[r].status = "running" /\ \E s \in S : scs[s].run = r}
           final == [r \in Runs |-> IF r \in ended
                                    THEN [i \in Slots |-> SettleAtEnd(evs[r][i])]
                                    ELSE evs[r]]
           steps(s) == Sync(SettleSteps(liveSteps[s]), final[scs[s].run], Slots)
<1>1. scenes' \in [Scenes -> SceneState]
  <2>1. scenes' = [s \in Scenes |-> IF s \in S THEN [scs[s] EXCEPT !.status = status]
                                               ELSE scs[s]]
    BY DEF EndRuns
  <2>2. ASSUME NEW s \in Scenes PROVE [scs[s] EXCEPT !.status = status] \in SceneState
    <3>1. scs[s] \in SceneState
      OBVIOUS
    <3> QED  BY <3>1 DEF SceneState, EndStatus
  <2> QED  BY <2>1, <2>2
<1>2. final \in [Runs -> [Slots -> Event]]
  BY SettleAtEndType
<1>3. event' \in [Runs -> [Slots -> Event]]
  BY <1>2 DEF EndRuns
<1>4. record' \in [Runs -> Record] /\ RecordsPlaced'
  <2> DEFINE new(r) == [Bump(recs[r], final[r]) EXCEPT !.status = status]
  <2>1. record' = [r \in Runs |-> IF r \in ended THEN new(r) ELSE recs[r]]
    BY DEF EndRuns
  <2>2. ASSUME NEW r \in Runs, r \in ended
        PROVE  new(r) \in Record /\ new(r).scene \in Scenes
    <3>1. Bump(recs[r], final[r]) \in Record
      BY BumpType
    <3>2. Bump(recs[r], final[r]).scene \in Scenes
      BY BumpType, <2>2
    <3> HIDE DEF final
    <3> QED  BY <3>1, <3>2 DEF Record
  <2> HIDE DEF new, ended
  <2> QED  BY <2>1, <2>2 DEF RecordsPlaced
<1>5. ASSUME NEW s \in Scenes
      PROVE  steps(s) \in Trace
  <2>1. SettleSteps(liveSteps[s]) \in Trace
    BY SettleStepsType DEF TypeInv, TypeOK, Trace
  <2> HIDE DEF final
  <2> QED  BY <2>1, SyncType
<1>6. liveSteps' \in [Scenes -> Trace]
  <2>1. liveSteps' = [s \in Scenes |-> IF s \in S THEN steps(s) ELSE liveSteps[s]]
    BY DEF EndRuns
  <2> HIDE DEF steps
  <2> QED  BY <2>1, <1>5 DEF TypeInv, TypeOK, Trace
<1>7. toolSteps' \in [Runs -> Trace]
  <2>1. toolSteps' = [r \in Runs |-> IF r \in ended THEN steps(recs[r].scene)
                                                    ELSE toolSteps[r]]
    BY DEF EndRuns
  <2>2. \A r \in ended : recs[r].scene \in Scenes
    OBVIOUS
  <2> HIDE DEF steps, ended
  <2> QED  BY <2>1, <2>2, <1>5 DEF TypeInv, TypeOK, Trace
<1> QED  BY <1>1, <1>3, <1>4, <1>6, <1>7

LEMMA NoEventType == NoEvent \in Event
BY ConstantsAssumption DEF NoEvent, Event, Phases, Answers, Rounds

LEMMA ModelEventType ==
  ASSUME NEW n \in Rounds
  PROVE  ModelEvent(n) \in Event
BY ConstantsAssumption DEF ModelEvent, NoEvent, Event, Phases, Answers, Rounds

LEMMA ToolEventType ==
  ASSUME NEW n \in Rounds, NEW call \in Calls, NEW r
  PROVE  ToolEvent(n, ProposedPhase(r), call) \in Event
<1>1. call.binding \in AllBindings /\ call.serverRev \in Nat
  BY ConstantsAssumption DEF Calls
<1>2. ProposedPhase(r) \in Phases
  BY DEF ProposedPhase, Phases
<1>3. NoEvent \in Event
  BY NoEventType
<1> HIDE DEF Calls
<1> QED  BY <1>1, <1>2, <1>3 DEF ToolEvent, Event

LEMMA NewRecordType ==
  ASSUME NEW s \in Scenes, NEW k \in Kinds
  PROVE  /\ NewRecord(s, k) \in Record
         /\ NewRecord(s, k).scene = s
BY DEF NewRecord, NoRecord, Record, Kinds

-----------------------------------------------------------------------------
(* Type correctness.                                                       *)

LEMMA TypeInit == Init => TypeInv
<1> SUFFICES ASSUME Init PROVE TypeInv
  OBVIOUS
<1>1. record \in [Runs -> Record] /\ RecordsPlaced
  BY DEF Init, NoRecord, Record, Kinds, RecordsPlaced
<1>2. scenes \in [Scenes -> SceneState]
  BY DEF Init, SceneState
<1>3. event \in [Runs -> [Slots -> Event]]
  BY NoEventType DEF Init
<1>4. /\ liveSteps \in [Scenes -> [Slots -> StepStatus]]
      /\ toolSteps \in [Runs -> [Slots -> StepStatus]]
  BY DEF Init, NoSteps, StepStatus
<1>5. effects \in [Runs -> [Slots -> Nat]]
  BY DEF Init
<1>6. server \in [present: BOOLEAN, enabled: BOOLEAN, rev: Nat, grants: SUBSET Agents]
  BY DEF Init
<1>7. up \in BOOLEAN /\ held \subseteq Runs /\ permit \subseteq Runs \X Slots
      /\ active \in Scenes \cup {Elsewhere}
  BY DEF Init
<1> QED  BY <1>1, <1>2, <1>3, <1>4, <1>5, <1>6, <1>7 DEF TypeInv, TypeOK

\* Steps that end runs without writing anything else keep the types.
LEMMA EndRunsPlainType ==
  ASSUME TypeInv, NEW S \in SUBSET Scenes, NEW status \in EndStatus,
         EndRuns(S, status, scenes, record, event)
  PROVE  /\ scenes' \in [Scenes -> SceneState]
         /\ event' \in [Runs -> [Slots -> Event]]
         /\ record' \in [Runs -> Record]
         /\ liveSteps' \in [Scenes -> Trace]
         /\ toolSteps' \in [Runs -> Trace]
         /\ RecordsPlaced'
BY EndRunsType DEF TypeInv, TypeOK, RecordsPlaced

LEMMA TypeScene == TypeInv /\ SceneAction => TypeInv'
<1> SUFFICES ASSUME TypeInv, SceneAction PROVE TypeInv'
  OBVIOUS
<1> USE DEF Trace
<1>1. ASSUME NEW s \in Scenes, NEW r \in Runs, NEW k \in StartKinds, BeginRun(s, r, k)
      PROVE  TypeInv'
  <2>1. NewRecord(s, k) \in Record /\ NewRecord(s, k).scene = s
    BY NewRecordType, ConstantsAssumption DEF Kinds
  <2>2. record' \in [Runs -> Record] /\ RecordsPlaced'
    BY <1>1, <2>1 DEF BeginRun, TypeInv, TypeOK, RecordsPlaced
  <2>3. scenes' \in [Scenes -> SceneState]
    BY <1>1, OccupiedType DEF BeginRun, TypeInv, TypeOK
  <2>4. liveSteps' \in [Scenes -> [Slots -> StepStatus]]
    BY <1>1 DEF BeginRun, TypeInv, TypeOK, NoSteps, StepStatus
  <2>5. held' \subseteq Runs
    BY <1>1 DEF BeginRun, TypeInv, TypeOK
  <2> QED  BY <1>1, <2>2, <2>3, <2>4, <2>5 DEF BeginRun, TypeInv, TypeOK
<1>2. ASSUME NEW s \in Scenes, NEW status \in Endings, EndRun(s, status)
      PROVE  TypeInv'
  <2>1. EndRuns({s}, status, scenes, record, event) /\ status \in EndStatus
    BY <1>2, ConstantsAssumption DEF EndRun, EndStatus
  <2> QED  BY <1>2, <2>1, EndRunsPlainType DEF EndRun, hostVars, TypeInv, TypeOK
<1>3. ASSUME NEW S \in SUBSET Scenes, RevokeRuns(S)
      PROVE  TypeInv'
  <2>1. EndRuns(S, "canceled", scenes, record, event) /\ "canceled" \in EndStatus
    BY <1>3 DEF RevokeRuns, EndStatus
  <2> QED  BY <1>3, <2>1, EndRunsPlainType DEF RevokeRuns, hostVars, TypeInv, TypeOK
<1>4. ASSUME NEW s \in Scenes, CloseScene(s)
      PROVE  TypeInv'
  <2> DEFINE scs == [scenes EXCEPT ![s].closed = TRUE]
  <2>1. EndRuns(RunsOf(s), "canceled", scs, record, event) /\ "canceled" \in EndStatus
    BY <1>4 DEF CloseScene, EndStatus
  <2>2. scs \in [Scenes -> SceneState] /\ RunsOf(s) \in SUBSET Scenes
    BY ZenonT(60) DEF TypeInv, TypeOK, SceneState, RunsOf
  <2>3. active' \in Scenes \cup {Elsewhere}
    BY <1>4 DEF CloseScene, TypeInv, TypeOK
  <2>4. /\ record \in [Runs -> Record]
        /\ \A r \in Runs : record[r].status # "absent" => record[r].scene \in Scenes
        /\ event \in [Runs -> [Slots -> Event]]
    BY DEF TypeInv, TypeOK, RecordsPlaced
  <2> HIDE DEF scs
  <2>5. /\ scenes' \in [Scenes -> SceneState]
        /\ event' \in [Runs -> [Slots -> Event]]
        /\ record' \in [Runs -> Record]
        /\ liveSteps' \in [Scenes -> Trace]
        /\ toolSteps' \in [Runs -> Trace]
        /\ RecordsPlaced'
    BY <2>1, <2>2, <2>4, EndRunsType
  <2> QED  BY <1>4, <2>3, <2>5 DEF CloseScene, hostVars, TypeInv, TypeOK
<1>5. ASSUME NEW s \in Scenes, ActivateScene(s)
      PROVE  TypeInv'
  BY <1>5, ZenonT(60) DEF ActivateScene, hostVars, traceVars, TypeInv, TypeOK, SceneState, RecordsPlaced
<1>6. CASE LeaveScene
  BY <1>6 DEF LeaveScene, hostVars, traceVars, TypeInv, TypeOK, RecordsPlaced
<1>7. ASSUME NEW s \in Scenes, NewConversation(s)
      PROVE  TypeInv'
  <2>1. scenes' \in [Scenes -> SceneState]
    BY <1>7, EmptiedType DEF NewConversation, TypeInv, TypeOK
  <2>2. liveSteps' \in [Scenes -> [Slots -> StepStatus]]
    BY <1>7 DEF NewConversation, TypeInv, TypeOK, NoSteps, StepStatus
  <2> QED  BY <1>7, <2>1, <2>2 DEF NewConversation, hostVars, TypeInv, TypeOK, RecordsPlaced
<1>8. ASSUME NEW from \in Runs, NEW new \in Runs, NEW selected \in SUBSET Slots,
             BeginContinuation(from, new, selected)
      PROVE  TypeInv'
  <2> DEFINE src == Canonical(from)
             s == record[src].scene
             rec == [NewRecord(s, "continuation") EXCEPT
                       !.source = src, !.sourceRev = record[src].rev,
                       !.sourceCheckpoint = record[src].checkpoint, !.selected = selected]
  <2>1. src \in Runs
    BY DEF Canonical, TypeInv, TypeOK, Record
  <2>2. s \in Scenes
    BY <1>8, <2>1 DEF BeginContinuation, Continuable, TypeInv, RecordsPlaced, EndStatus
  <2>3. rec \in Record /\ rec.scene = s
    <3>1. record[src] \in Record
      BY <2>1 DEF TypeInv, TypeOK
    <3>2. NewRecord(s, "continuation") \in Record /\ NewRecord(s, "continuation").scene = s
      BY <2>2, NewRecordType DEF Kinds
    <3> HIDE DEF src, s
    <3> QED  BY <2>1, <3>1, <3>2 DEF Record
  <2> HIDE DEF src, s, rec
  <2>4. record' = [record EXCEPT ![new] = rec]
    BY <1>8 DEF BeginContinuation, rec, src, s
  <2>5. record' \in [Runs -> Record] /\ RecordsPlaced'
    BY <2>2, <2>3, <2>4 DEF TypeInv, TypeOK, RecordsPlaced
  <2>6. scenes' = [scenes EXCEPT ![s] = Occupied(scenes[s], new)]
    BY <1>8 DEF BeginContinuation, src, s
  <2>7. scenes' \in [Scenes -> SceneState]
    BY <2>2, <2>6, OccupiedType DEF TypeInv, TypeOK
  <2>8. liveSteps' \in [Scenes -> [Slots -> StepStatus]]
    BY <1>8 DEF BeginContinuation, TypeInv, TypeOK, NoSteps, StepStatus
  <2>9. held' \subseteq Runs
    BY <1>8 DEF BeginContinuation, TypeInv, TypeOK
  <2> QED  BY <1>8, <2>5, <2>7, <2>8, <2>9 DEF BeginContinuation, TypeInv, TypeOK
<1> QED  BY <1>1, <1>2, <1>3, <1>4, <1>5, <1>6, <1>7, <1>8 DEF SceneAction

\* A receipt's own fields keep their types under the edits the actions make.
LEMMA EditedType ==
  ASSUME NEW e \in Event
  PROVE  /\ \A ph \in Phases : [e EXCEPT !.phase = ph] \in Event
         /\ \A b \in BOOLEAN :
              [e EXCEPT !.phase = "responded", !.selectable = b] \in Event
         /\ \A reply \in Replies \cup {LocalResult} : Answered(e, reply) \in Event
<1>1. \A ph \in Phases : [e EXCEPT !.phase = ph] \in Event
  BY DEF Event
<1>2. \A b \in BOOLEAN : [e EXCEPT !.phase = "responded", !.selectable = b] \in Event
  BY DEF Event, Phases
<1>3. ASSUME NEW reply \in Replies \cup {LocalResult}
      PROVE  Answered(e, reply) \in Event
  <2>1. reply \in Replies => reply.answer \in Answers /\ reply.selectable \in BOOLEAN
    BY ConstantsAssumption DEF Answers
  <2>2. LocalResult.answer \in Answers /\ LocalResult.selectable \in BOOLEAN
    BY DEF LocalResult, Answers
  <2>3. reply.answer \in Answers /\ reply.selectable \in BOOLEAN
    BY <2>1, <2>2
  <2> QED  BY <2>3 DEF Answered, Event, Phases
<1> QED  BY <1>1, <1>2, <1>3

\* The receipts an action writes are receipts.
LEMMA OneWriteType ==
  ASSUME TypeInv, NEW r \in Runs, NEW i \in Slots, NEW e \in Event
  PROVE  [event[r] EXCEPT ![i] = e] \in [Slots -> Event]
BY DEF TypeInv, TypeOK

LEMMA TurnType ==
  ASSUME TypeInv, NEW r \in Runs, NEW i \in Slots, NEW last \in Nat, NEW n \in Nat,
         NEW selectable \in BOOLEAN, NEW calls \in [1..n -> Calls]
  PROVE  WithTurn(r, i, last, calls, selectable) \in [Slots -> Event]
<1>1. \A j \in Slots : event[r][j] \in Event
  BY DEF TypeInv, TypeOK
<1>2. [event[r][i] EXCEPT !.phase = "responded", !.selectable = selectable] \in Event
  BY <1>1, EditedType
<1>3. Len(calls) = n
  BY DEF Calls
<1>4. ASSUME NEW j \in Slots, j \in (last + 1)..(last + Len(calls))
      PROVE  ToolEvent(event[r][i].round, ProposedPhase(r), calls[j - last]) \in Event
  <2>1. calls[j - last] \in Calls
    BY <1>3, <1>4 DEF Slots
  <2>2. event[r][i].round \in Rounds
    BY <1>1 DEF Event
  <2> QED  BY <2>1, <2>2, ToolEventType
<1> QED  BY <1>1, <1>2, <1>4 DEF WithTurn

\* A transaction on the receipts of one run keeps the types, whatever it does to
\* the host's memory of grants.
LEMMA WriteKeepsType ==
  ASSUME TypeInv, NEW r \in Runs, NEW evs \in [Slots -> Event], Write(r, evs),
         permit' \subseteq Runs \X Slots, effects' \in [Runs -> [Slots -> Nat]]
  PROVE  TypeInv'
BY WriteType DEF TypeInv, TypeOK, Trace

LEMMA TypeReceipt == TypeInv /\ ReceiptAction => TypeInv'
<1> SUFFICES ASSUME TypeInv, ReceiptAction PROVE TypeInv'
  OBVIOUS
<1>a. /\ permit \subseteq Runs \X Slots
      /\ effects \in [Runs -> [Slots -> Nat]]
      /\ \A r \in Runs, i \in Slots : event[r][i] \in Event
  BY DEF TypeInv, TypeOK
<1>b. \A r \in Runs, i \in Slots :
         [effects EXCEPT ![r][i] = @ + 1] \in [Runs -> [Slots -> Nat]]
  BY <1>a
<1>1. ASSUME NEW r \in Runs, NEW n \in Rounds, BeginModelRequest(r, n)
      PROVE  TypeInv'
  <2>1. PICK last \in 0..(MaxEvents - 1) :
          /\ Write(r, [event[r] EXCEPT ![last + 1] = ModelEvent(n)])
          /\ permit' = permit \cup {<<r, last + 1>>}
    BY <1>1 DEF BeginModelRequest
  <2>2. last + 1 \in Slots
    BY ConstantsAssumption DEF Slots
  <2>3. permit' \subseteq Runs \X Slots
    BY <1>a, <2>1, <2>2
  <2> HIDE DEF Slots
  <2>4. [event[r] EXCEPT ![last + 1] = ModelEvent(n)] \in [Slots -> Event]
    BY <2>2, OneWriteType, ModelEventType
  <2> QED  BY <1>1, <1>a, <2>1, <2>3, <2>4, WriteKeepsType DEF BeginModelRequest
<1>2. ASSUME NEW r \in Runs, NEW i \in Slots, NEW n \in 0..MaxCalls,
             NEW selectable \in BOOLEAN, NEW calls \in [1..n -> Calls],
             RecordModelTurn(r, i, calls, selectable)
      PROVE  TypeInv'
  <2> DEFINE turn(last) == WithTurn(r, i, last, calls, selectable)
  <2>1. PICK last \in 0..(MaxEvents - Len(calls)) : Write(r, turn(last))
    BY <1>2 DEF RecordModelTurn
  <2>2. last \in Nat /\ n \in Nat
    BY ConstantsAssumption
  <2>3. turn(last) \in [Slots -> Event]
    BY <2>2, TurnType
  <2> HIDE DEF turn
  <2> QED  BY <1>2, <1>a, <2>1, <2>3, WriteKeepsType DEF RecordModelTurn
<1>3. ASSUME NEW r \in Runs, NEW i \in Slots, MarkToolDispatched(r, i)
      PROVE  TypeInv'
  <2>1. [event[r] EXCEPT ![i].phase = "dispatched"] \in [Slots -> Event]
    BY <1>a, EditedType DEF Phases, TypeInv, TypeOK
  <2>2. permit' \subseteq Runs \X Slots
    BY <1>3, <1>a DEF MarkToolDispatched
  <2> QED  BY <1>3, <1>a, <2>1, <2>2, WriteKeepsType DEF MarkToolDispatched
<1>4. ASSUME NEW r \in Runs, NEW i \in Slots, Perform(r, i)
      PROVE  TypeInv'
  <2>1. permit' \subseteq Runs \X Slots
    BY <1>4, <1>a DEF Perform
  <2>2. effects' \in [Runs -> [Slots -> Nat]]
    BY <1>4, <1>b DEF Perform
  <2> QED  BY <1>4, <2>1, <2>2 DEF Perform, traceVars, TypeInv, TypeOK, RecordsPlaced
<1>5. ASSUME NEW r \in Runs, NEW i \in Slots, RecordToolNotSent(r, i)
      PROVE  TypeInv'
  <2>1. [event[r] EXCEPT ![i].phase = "notsent"] \in [Slots -> Event]
    BY <1>a, EditedType DEF Phases, TypeInv, TypeOK
  <2> QED  BY <1>5, <1>a, <2>1, WriteKeepsType DEF RecordToolNotSent
<1>6. ASSUME NEW r \in Runs, NEW i \in Slots, RecordRequestUnknown(r, i)
      PROVE  TypeInv'
  <2>1. [event[r] EXCEPT ![i].phase = "unknown"] \in [Slots -> Event]
    BY <1>a, EditedType DEF Phases, TypeInv, TypeOK
  <2>2. permit' \subseteq Runs \X Slots
    BY <1>6, <1>a DEF RecordRequestUnknown
  <2> QED  BY <1>6, <1>a, <2>1, <2>2, WriteKeepsType DEF RecordRequestUnknown
<1>7. ASSUME NEW r \in Runs, NEW i \in Slots, NEW reply \in Replies,
             RecordToolResponse(r, i, reply)
      PROVE  TypeInv'
  <2>1. [event[r] EXCEPT ![i] = Answered(event[r][i], reply)] \in [Slots -> Event]
    BY <1>a, EditedType, OneWriteType
  <2>2. permit' \subseteq Runs \X Slots
    BY <1>7, <1>a DEF RecordToolResponse
  <2> QED  BY <1>7, <1>a, <2>1, <2>2, WriteKeepsType DEF RecordToolResponse
<1>8. ASSUME NEW r \in Runs, NEW i \in Slots, LocalCommit(r, i)
      PROVE  TypeInv'
  <2>1. [event[r] EXCEPT ![i] = Answered(event[r][i], LocalResult)] \in [Slots -> Event]
    BY <1>a, EditedType, OneWriteType
  <2>2. effects' \in [Runs -> [Slots -> Nat]]
    BY <1>8, <1>b DEF LocalCommit
  <2> QED  BY <1>8, <1>a, <2>1, <2>2, WriteKeepsType DEF LocalCommit
<1>9. ASSUME NEW r \in Runs, NEW i \in Slots, NEW S \in SUBSET Scenes,
             ForgetWithReceipt(r, i, S)
      PROVE  TypeInv'
  <2> DEFINE mine == [event[r] EXCEPT ![i] = Answered(@, LocalResult)]
             recs == [record EXCEPT ![r] = Bump(@, mine)]
             evs == [event EXCEPT ![r] = mine]
  <2>1. EndRuns(S, "canceled", scenes, recs, evs) /\ "canceled" \in EndStatus
    BY <1>9 DEF ForgetWithReceipt, EndStatus
  <2>2. recs \in [Runs -> Record]
        /\ \A q \in Runs : recs[q].status # "absent" => recs[q].scene \in Scenes
    <3>1. /\ Bump(record[r], mine) \in Record
          /\ Bump(record[r], mine).scene = record[r].scene
          /\ Bump(record[r], mine).status = record[r].status
      BY BumpType DEF TypeInv, TypeOK
    <3> HIDE DEF mine
    <3> QED  BY <3>1 DEF TypeInv, TypeOK, RecordsPlaced
  <2>3. evs \in [Runs -> [Slots -> Event]]
    <3>1. mine \in [Slots -> Event]
      BY <1>a, EditedType, OneWriteType
    <3> HIDE DEF mine
    <3> QED  BY <3>1 DEF TypeInv, TypeOK
  <2>4. effects' \in [Runs -> [Slots -> Nat]]
    BY <1>9, <1>b DEF ForgetWithReceipt
  <2> HIDE DEF recs, evs
  <2>5. /\ scenes' \in [Scenes -> SceneState]
        /\ event' \in [Runs -> [Slots -> Event]]
        /\ record' \in [Runs -> Record]
        /\ liveSteps' \in [Scenes -> Trace]
        /\ toolSteps' \in [Runs -> Trace]
        /\ RecordsPlaced'
    BY <2>1, <2>2, <2>3, EndRunsType DEF TypeInv, TypeOK
  <2> QED  BY <1>9, <2>4, <2>5 DEF ForgetWithReceipt, Trace, TypeInv, TypeOK
<1> QED  BY <1>1, <1>2, <1>3, <1>4, <1>5, <1>6, <1>7, <1>8, <1>9 DEF ReceiptAction

LEMMA TypeServer == TypeInv /\ ServerAction => TypeInv'
<1> SUFFICES ASSUME TypeInv, ServerAction PROVE TypeInv'
  OBVIOUS
<1> DEFINE Registration == [present: BOOLEAN, enabled: BOOLEAN, rev: Nat,
                            grants: SUBSET Agents]
<1>a. server \in Registration
  BY DEF TypeInv, TypeOK
<1>c. [server EXCEPT !.rev = @ + 1] \in Registration
  BY <1>a
<1>b. ASSUME NEW changed \in Registration, ChangeServer(changed)
      PROVE  TypeInv'
  <2>1. EndRuns(Relying(changed), "canceled", scenes, record, event)
        /\ "canceled" \in EndStatus
    BY <1>b DEF ChangeServer, EndStatus
  <2>2. Relying(changed) \in SUBSET Scenes
    BY DEF Relying
  <2> QED  BY <1>b, <2>1, <2>2, EndRunsPlainType
           DEF ChangeServer, hostVars, Trace, TypeInv, TypeOK
<1>1. CASE RediscoverServer
  <2>1. [server EXCEPT !.rev = @ + 1, !.grants = {}] \in Registration
    BY <1>c
  <2> QED  BY <1>1, <1>b, <2>1 DEF RediscoverServer
<1>2. ASSUME NEW a \in Agents, NEW granted \in BOOLEAN, SetMcpGrants(a, granted)
      PROVE  TypeInv'
  <2> DEFINE grants == IF granted THEN server.grants \cup {a} ELSE server.grants \ {a}
  <2>1. grants \in SUBSET Agents
    BY <1>a
  <2>2. ChangeServer([server EXCEPT !.rev = @ + 1, !.grants = grants])
    BY <1>2 DEF SetMcpGrants
  <2> HIDE DEF grants
  <2>3. [server EXCEPT !.rev = @ + 1, !.grants = grants] \in Registration
    BY <1>c, <2>1
  <2> QED  BY <1>b, <2>2, <2>3
<1>3. ASSUME NEW enabled \in BOOLEAN, SetMcpEnabled(enabled)
      PROVE  TypeInv'
  <2>1. [server EXCEPT !.rev = @ + 1, !.enabled = enabled] \in Registration
    BY <1>c
  <2> QED  BY <1>3, <1>b, <2>1 DEF SetMcpEnabled
<1>4. CASE RemoveMcpServer
  <2>1. [server EXCEPT !.present = FALSE] \in Registration
    BY <1>a
  <2> QED  BY <1>4, <1>b, <2>1 DEF RemoveMcpServer
<1> QED  BY <1>1, <1>2, <1>3, <1>4 DEF ServerAction

LEMMA TypeStep == TypeInv /\ [Next]_vars => TypeInv'
<1> SUFFICES ASSUME TypeInv, [Next]_vars PROVE TypeInv'
  OBVIOUS
<1>1. CASE SceneAction
  BY <1>1, TypeScene
<1>2. CASE ReceiptAction
  BY <1>2, TypeReceipt
<1>3. CASE ServerAction
  BY <1>3, TypeServer
<1>4. CASE Crash
  BY <1>4 DEF Crash, traceVars, TypeInv, TypeOK, RecordsPlaced
<1>5. CASE Open
  <2>1. EndRuns({s \in Scenes : Running(s)}, "interrupted", scenes, record, event)
        /\ "interrupted" \in EndStatus
    BY <1>5 DEF Open, EndStatus
  <2> QED  BY <1>5, <2>1, EndRunsPlainType DEF Open, Trace, TypeInv, TypeOK
<1>6. CASE UNCHANGED vars
  BY <1>6 DEF vars, TypeInv, TypeOK, RecordsPlaced
<1> QED  BY <1>1, <1>2, <1>3, <1>4, <1>5, <1>6 DEF Next

\* Every reachable state is well typed, and a run that is recorded is recorded in
\* a scene.
THEOREM TypeCorrect == Spec => []TypeOK
<1>1. Init => TypeInv
  BY TypeInit
<1>2. TypeInv /\ [Next]_vars => TypeInv'
  BY TypeStep
<1>3. TypeInv => TypeOK
  BY DEF TypeInv
<1> QED  BY <1>1, <1>2, <1>3, PTL DEF Spec

-----------------------------------------------------------------------------
(* The journal implements the ledger.                                      *)

\* One receipt took a step the ledger allows.
Allowed(q, j) ==
  \/ EntryOf(q, j)' = EntryOf(q, j)
  \/ Ledger!Move(EntryOf(q, j), EntryOf(q, j)')

\* What the ledger needs to know of a receipt's step.
LEMMA AllowedStill ==
  ASSUME NEW q \in Runs, NEW j \in Slots,
         SaysOf(event'[q][j]) = SaysOf(event[q][j]),
         <<q, j>> \in permit' <=> <<q, j>> \in permit,
         effects'[q][j] = effects[q][j]
  PROVE  Allowed(q, j)
BY DEF Allowed, EntryOf

LEMMA AllowedPropose ==
  ASSUME NEW q \in Runs, NEW j \in Slots,
         SaysOf(event[q][j]) = "nothing",
         SaysOf(event'[q][j]) \in {"open", "never"},
         <<q, j>> \in permit' <=> <<q, j>> \in permit,
         effects'[q][j] = effects[q][j]
  PROVE  Allowed(q, j)
BY DEF Allowed, EntryOf, Ledger!Move, Ledger!Propose, Ledger!At

LEMMA AllowedGrant ==
  ASSUME NEW q \in Runs, NEW j \in Slots,
         SaysOf(event[q][j]) \in {"nothing", "open"},
         SaysOf(event'[q][j]) = "sent",
         <<q, j>> \in permit',
         effects'[q][j] = effects[q][j]
  PROVE  Allowed(q, j)
BY DEF Allowed, EntryOf, Ledger!Move, Ledger!Propose, Ledger!Grant, Ledger!At

LEMMA AllowedRefuse ==
  ASSUME NEW q \in Runs, NEW j \in Slots,
         SaysOf(event[q][j]) = "open",
         SaysOf(event'[q][j]) = "never",
         <<q, j>> \in permit' <=> <<q, j>> \in permit,
         effects'[q][j] = effects[q][j]
  PROVE  Allowed(q, j)
BY DEF Allowed, EntryOf, Ledger!Move, Ledger!Refuse, Ledger!At

LEMMA AllowedCommit ==
  ASSUME NEW q \in Runs, NEW j \in Slots,
         SaysOf(event[q][j]) = "open",
         SaysOf(event'[q][j]) = "answered",
         <<q, j>> \in permit' <=> <<q, j>> \in permit,
         effects'[q][j] = effects[q][j] + 1
  PROVE  Allowed(q, j)
BY DEF Allowed, EntryOf, Ledger!Move, Ledger!Commit, Ledger!At

LEMMA AllowedAnswer ==
  ASSUME NEW q \in Runs, NEW j \in Slots,
         SaysOf(event[q][j]) = "sent",
         SaysOf(event'[q][j]) = "answered",
         <<q, j>> \notin permit',
         effects'[q][j] = effects[q][j]
  PROVE  Allowed(q, j)
<1>1. (<<q, j>> \in permit') = FALSE
  OBVIOUS
<1>2. EntryOf(q, j)' = Ledger!Answer(EntryOf(q, j))
  BY <1>1, Zenon DEF EntryOf, Ledger!Answer, Ledger!At
<1> QED  BY <1>2 DEF Allowed, EntryOf, Ledger!Move

LEMMA AllowedHappen ==
  ASSUME NEW q \in Runs, NEW j \in Slots,
         SaysOf(event'[q][j]) = SaysOf(event[q][j]),
         <<q, j>> \in permit, <<q, j>> \notin permit',
         effects'[q][j] = effects[q][j] + 1
  PROVE  Allowed(q, j)
<1>1. (<<q, j>> \in permit') = FALSE
  OBVIOUS
<1>2. EntryOf(q, j)' = Ledger!Happen(EntryOf(q, j))
  BY <1>1, Zenon DEF EntryOf, Ledger!Happen, Ledger!At
<1> QED  BY <1>2 DEF Allowed, EntryOf, Ledger!Move

LEMMA AllowedGiveUp ==
  ASSUME NEW q \in Runs, NEW j \in Slots,
         SaysOf(event'[q][j]) = SaysOf(event[q][j]),
         <<q, j>> \notin permit',
         effects'[q][j] = effects[q][j]
  PROVE  Allowed(q, j)
<1>1. CASE <<q, j>> \in permit
  <2>1. (<<q, j>> \in permit') = FALSE
    OBVIOUS
  <2>2. EntryOf(q, j)' = Ledger!GiveUp(EntryOf(q, j))
    BY <2>1, Zenon DEF EntryOf, Ledger!GiveUp, Ledger!At
  <2> QED  BY <1>1, <2>2 DEF Allowed, EntryOf, Ledger!Move
<1>2. CASE <<q, j>> \notin permit
  BY <1>2, AllowedStill
<1> QED  BY <1>1, <1>2

\* How the two kinds of transaction move the receipts.
LEMMA SettleSays ==
  ASSUME NEW e \in Event
  PROVE  \/ SaysOf(SettleAtEnd(e)) = SaysOf(e)
         \/ SaysOf(e) = "open" /\ SaysOf(SettleAtEnd(e)) = "never"
<1>1. CASE e.phase = "prepared"
  BY <1>1 DEF SettleAtEnd, SaysOf, Event
<1>2. CASE e.phase = "dispatched"
  BY <1>2 DEF SettleAtEnd, SaysOf, Event
<1>3. CASE e.phase \notin {"prepared", "dispatched"}
  BY <1>3 DEF SettleAtEnd
<1> QED  BY <1>1, <1>2, <1>3

LEMMA EndRunsReceipts ==
  ASSUME NEW S, NEW status, NEW scs, NEW recs, NEW evs,
         EndRuns(S, status, scs, recs, evs),
         NEW q \in Runs, NEW j \in Slots
  PROVE  event'[q][j] \in {evs[q][j], SettleAtEnd(evs[q][j])}
BY DEF EndRuns

LEMMA WriteReceipts ==
  ASSUME TypeInv, NEW r \in Runs, NEW evs, Write(r, evs), NEW q \in Runs
  PROVE  event'[q] = IF q = r THEN evs ELSE event[q]
BY DEF Write, TypeInv, TypeOK

LEMMA WriteOne ==
  ASSUME TypeInv, NEW r \in Runs, NEW i \in Slots, NEW e,
         Write(r, [event[r] EXCEPT ![i] = e]),
         NEW q \in Runs, NEW j \in Slots
  PROVE  event'[q][j] = IF q = r /\ j = i THEN e ELSE event[q][j]
<1>1. event'[q] = IF q = r THEN [event[r] EXCEPT ![i] = e] ELSE event[q]
  BY WriteReceipts
<1>2. event[r] \in [Slots -> Event]
  BY DEF TypeInv, TypeOK
<1> QED  BY <1>1, <1>2

LEMMA EndRunsAllowed ==
  ASSUME TypeInv, NEW S, NEW status, NEW scs, NEW recs,
         EndRuns(S, status, scs, recs, event),
         UNCHANGED <<permit, effects>>,
         NEW q \in Runs, NEW j \in Slots
  PROVE  Allowed(q, j)
<1>1. event[q][j] \in Event
  BY DEF TypeInv, TypeOK
<1>2. event'[q][j] \in {event[q][j], SettleAtEnd(event[q][j])}
  BY EndRunsReceipts
<1>3. \/ SaysOf(event'[q][j]) = SaysOf(event[q][j])
      \/ SaysOf(event[q][j]) = "open" /\ SaysOf(event'[q][j]) = "never"
  BY <1>1, <1>2, SettleSays
<1> QED  BY <1>3, AllowedStill, AllowedRefuse

LEMMA QuietAllowed ==
  ASSUME UNCHANGED <<event, permit, effects>>, NEW q \in Runs, NEW j \in Slots
  PROVE  Allowed(q, j)
BY AllowedStill

LEMMA SceneAllowed ==
  ASSUME TypeInv, SceneAction, NEW q \in Runs, NEW j \in Slots
  PROVE  Allowed(q, j)
<1>1. CASE \E s \in Scenes, r \in Runs, k \in StartKinds : BeginRun(s, r, k)
  BY <1>1, QuietAllowed DEF BeginRun
<1>2. CASE \E s \in Scenes, status \in Endings : EndRun(s, status)
  BY <1>2, EndRunsAllowed DEF EndRun, hostVars
<1>3. CASE \E S \in SUBSET Scenes : RevokeRuns(S)
  BY <1>3, EndRunsAllowed DEF RevokeRuns, hostVars
<1>4. CASE \E s \in Scenes : CloseScene(s)
  BY <1>4, EndRunsAllowed DEF CloseScene, hostVars
<1>5. CASE \E s \in Scenes : ActivateScene(s)
  BY <1>5, QuietAllowed DEF ActivateScene, hostVars
<1>6. CASE LeaveScene
  BY <1>6, QuietAllowed DEF LeaveScene, hostVars
<1>7. CASE \E s \in Scenes : NewConversation(s)
  BY <1>7, QuietAllowed DEF NewConversation, hostVars
<1>8. CASE \E from, new \in Runs, selected \in SUBSET Slots :
             BeginContinuation(from, new, selected)
  BY <1>8, QuietAllowed DEF BeginContinuation
<1> QED  BY <1>1, <1>2, <1>3, <1>4, <1>5, <1>6, <1>7, <1>8 DEF SceneAction

LEMMA ServerAllowed ==
  ASSUME TypeInv, ServerAction, NEW q \in Runs, NEW j \in Slots
  PROVE  Allowed(q, j)
<1>1. \E changed : ChangeServer(changed)
  BY DEF ServerAction, RediscoverServer, SetMcpGrants, SetMcpEnabled, RemoveMcpServer
<1> QED  BY <1>1, EndRunsAllowed DEF ChangeServer, hostVars

\* The fields an edit of a receipt's phase leaves it with.
LEMMA EditedSays ==
  ASSUME NEW e \in Event
  PROVE  /\ SaysOf([e EXCEPT !.phase = "dispatched"]) = "sent"
         /\ SaysOf([e EXCEPT !.phase = "unknown"]) = "sent"
         /\ SaysOf([e EXCEPT !.phase = "notsent"]) = "never"
BY DEF SaysOf, Event

LEMMA RespondedSays ==
  ASSUME NEW e \in Event, NEW b
  PROVE  SaysOf([e EXCEPT !.phase = "responded", !.selectable = b]) = "answered"
BY DEF SaysOf, Event

LEMMA AnsweredSays ==
  ASSUME NEW e \in Event, NEW reply
  PROVE  SaysOf(Answered(e, reply)) = "answered"
BY DEF SaysOf, Answered, Event

LEMMA NewEventSays ==
  /\ \A n : SaysOf(ModelEvent(n)) = "sent"
  /\ \A n, call, r : SaysOf(ToolEvent(n, ProposedPhase(r), call)) \in {"open", "never"}
BY DEF SaysOf, ModelEvent, ToolEvent, ProposedPhase, NoEvent

LEMMA ReceiptAllowed ==
  ASSUME TypeInv, ReceiptAction, NEW q \in Runs, NEW j \in Slots
  PROVE  Allowed(q, j)
<1>a. /\ \A r \in Runs, i \in Slots : event[r][i] \in Event
      /\ \A r \in Runs : DOMAIN event[r] = Slots
      /\ effects \in [Runs -> [Slots -> Nat]]
      /\ permit \subseteq Runs \X Slots
  BY DEF TypeInv, TypeOK
<1>1. ASSUME NEW r \in Runs, NEW n \in Rounds, BeginModelRequest(r, n)
      PROVE  Allowed(q, j)
  <2>1. PICK last \in 0..(MaxEvents - 1) :
          /\ IsLast(event[r], last)
          /\ Write(r, [event[r] EXCEPT ![last + 1] = ModelEvent(n)])
          /\ permit' = permit \cup {<<r, last + 1>>}
    BY <1>1 DEF BeginModelRequest
  <2>2. UNCHANGED effects
    BY <1>1 DEF BeginModelRequest
  <2>3. last + 1 \in Slots
    BY ConstantsAssumption DEF Slots
  <2>4. event[r][last + 1].phase = "absent"
    BY <2>1, <2>3 DEF IsLast
  <2>a. event'[q][j] = IF q = r /\ j = last + 1 THEN ModelEvent(n) ELSE event[q][j]
    BY <2>1, <2>3, WriteOne
  <2>5. CASE q = r /\ j = last + 1
    <3>1. event'[q][j] = ModelEvent(n)
      BY <2>a, <2>5
    <3>2. SaysOf(event[q][j]) = "nothing" /\ SaysOf(event'[q][j]) = "sent"
      BY <2>4, <2>5, <3>1, NewEventSays DEF SaysOf
    <3> QED  BY <2>1, <2>2, <2>5, <3>2, AllowedGrant
  <2>6. CASE ~(q = r /\ j = last + 1)
    <3>1. event'[q][j] = event[q][j]
      BY <2>a, <2>6
    <3>2. <<q, j>> \in permit' <=> <<q, j>> \in permit
      BY <2>1, <2>6
    <3> QED  BY <2>2, <3>1, <3>2, AllowedStill
  <2> QED  BY <2>5, <2>6
<1>2. ASSUME NEW r \in Runs, NEW i \in Slots, NEW n \in 0..MaxCalls,
             NEW selectable \in BOOLEAN, NEW calls \in [1..n -> Calls],
             RecordModelTurn(r, i, calls, selectable)
      PROVE  Allowed(q, j)
  <2>1. PICK last \in 0..(MaxEvents - Len(calls)) :
          /\ IsLast(event[r], last)
          /\ Write(r, WithTurn(r, i, last, calls, selectable))
    BY <1>2 DEF RecordModelTurn
  <2>2. UNCHANGED <<permit, effects>> /\ <<r, i>> \notin permit
        /\ event[r][i].phase \in {"dispatched", "unknown"}
    BY <1>2 DEF RecordModelTurn, Answerable
  <2>3. event'[q] = IF q = r THEN WithTurn(r, i, last, calls, selectable) ELSE event[q]
    BY <2>1, WriteReceipts
  <2>4. CASE q = r /\ j = i
    <3>1. event'[q][j] = [event[r][i] EXCEPT !.phase = "responded", !.selectable = selectable]
      BY <2>3, <2>4 DEF WithTurn
    <3>2. SaysOf(event'[q][j]) = "answered"
      <4> DEFINE e == [event[r][i] EXCEPT !.phase = "responded", !.selectable = selectable]
      <4>1. SaysOf(e) = "answered"
        BY <1>a, RespondedSays
      <4> HIDE DEF e
      <4> QED  BY <3>1, <4>1 DEF e
    <3>3. SaysOf(event[q][j]) = "sent"
      BY <2>2, <2>4 DEF SaysOf
    <3> QED  BY <2>2, <2>4, <3>2, <3>3, AllowedAnswer
  <2>5. CASE q = r /\ j # i /\ j \in (last + 1)..(last + Len(calls))
    <3>1. event'[q][j] = ToolEvent(event[r][i].round, ProposedPhase(r), calls[j - last])
      BY <2>3, <2>5 DEF WithTurn
    <3>2. SaysOf(event'[q][j]) \in {"open", "never"}
      BY <3>1, NewEventSays
    <3>3. last \in Int /\ j \in Int /\ ~(j <= last)
      BY <2>5 DEF Slots
    <3>4. SaysOf(event[q][j]) = "nothing"
      BY <2>1, <2>5, <3>3 DEF IsLast, SaysOf
    <3> QED  BY <2>2, <3>2, <3>4, AllowedPropose
  <2>6. CASE q # r \/ (j # i /\ j \notin (last + 1)..(last + Len(calls)))
    <3>1. event'[q][j] = event[q][j]
      BY <2>3, <2>6 DEF WithTurn
    <3> QED  BY <2>2, <3>1, AllowedStill
  <2> QED  BY <2>4, <2>5, <2>6
<1>3. ASSUME NEW r \in Runs, NEW i \in Slots, NEW e,
             Write(r, [event[r] EXCEPT ![i] = e]), ~(q = r /\ j = i),
             <<q, j>> \in permit' <=> <<q, j>> \in permit,
             effects'[q][j] = effects[q][j]
      PROVE  Allowed(q, j)
  <2>1. event'[q][j] = event[q][j]
    BY <1>3, WriteOne, SMTT(30)
  <2> QED  BY <1>3, <2>1, AllowedStill
<1>4. ASSUME NEW r \in Runs, NEW i \in Slots, NEW e, Write(r, [event[r] EXCEPT ![i] = e])
      PROVE  event'[r][i] = e
  BY <1>4, WriteOne
<1>5. \A ph : \A r \in Runs, i \in Slots :
        [event[r] EXCEPT ![i].phase = ph] =
          [event[r] EXCEPT ![i] = [event[r][i] EXCEPT !.phase = ph]]
  OBVIOUS
<1>6. ASSUME NEW r \in Runs, NEW i \in Slots, MarkToolDispatched(r, i)
      PROVE  Allowed(q, j)
  <2> DEFINE e == [event[r][i] EXCEPT !.phase = "dispatched"]
  <2>1. /\ Write(r, [event[r] EXCEPT ![i] = e])
        /\ permit' = permit \cup {<<r, i>>} /\ UNCHANGED effects
        /\ event[r][i].phase = "prepared"
    BY <1>6, <1>5 DEF MarkToolDispatched, Unsent
  <2>2. CASE q = r /\ j = i
    <3>a. event'[q][j] = e
      BY <2>1, <2>2, <1>4
    <3>b. SaysOf(e) = "sent"
      BY <1>a, EditedSays
    <3>c. SaysOf(event[q][j]) = "open"
      BY <2>1, <2>2 DEF SaysOf
    <3> HIDE DEF e
    <3>1. SaysOf(event[q][j]) = "open" /\ SaysOf(event'[q][j]) = "sent"
      BY <3>a, <3>b, <3>c
    <3> QED  BY <2>1, <2>2, <3>1, AllowedGrant
  <2>3. CASE ~(q = r /\ j = i)
    <3>1. <<q, j>> \in permit' <=> <<q, j>> \in permit
      BY <2>1, <2>3
    <3> QED  BY <2>1, <2>3, <3>1, <1>3
  <2> QED  BY <2>2, <2>3
<1>7. ASSUME NEW r \in Runs, NEW i \in Slots, Perform(r, i)
      PROVE  Allowed(q, j)
  <2>1. /\ <<r, i>> \in permit /\ permit' = permit \ {<<r, i>>} /\ UNCHANGED event
        /\ effects' = [effects EXCEPT ![r][i] = @ + 1]
    BY <1>7 DEF Perform
  <2>2. CASE q = r /\ j = i
    <3>1. effects'[q][j] = effects[q][j] + 1
      BY <2>1, <2>2, <1>a
    <3> QED  BY <2>1, <2>2, <3>1, AllowedHappen
  <2>3. CASE ~(q = r /\ j = i)
    <3>1. effects'[q][j] = effects[q][j]
      BY <2>1, <2>3, <1>a
    <3>2. <<q, j>> \in permit' <=> <<q, j>> \in permit
      BY <2>1, <2>3
    <3> QED  BY <2>1, <3>1, <3>2, AllowedStill
  <2> QED  BY <2>2, <2>3
<1>8. ASSUME NEW r \in Runs, NEW i \in Slots, RecordToolNotSent(r, i)
      PROVE  Allowed(q, j)
  <2> DEFINE e == [event[r][i] EXCEPT !.phase = "notsent"]
  <2>1. /\ Write(r, [event[r] EXCEPT ![i] = e]) /\ UNCHANGED <<permit, effects>>
        /\ event[r][i].phase = "prepared"
    BY <1>8, <1>5 DEF RecordToolNotSent, Unsent
  <2>2. CASE q = r /\ j = i
    <3>a. event'[q][j] = e
      BY <2>1, <2>2, <1>4
    <3>b. SaysOf(e) = "never"
      BY <1>a, EditedSays
    <3>c. SaysOf(event[q][j]) = "open"
      BY <2>1, <2>2 DEF SaysOf
    <3> HIDE DEF e
    <3>1. SaysOf(event[q][j]) = "open" /\ SaysOf(event'[q][j]) = "never"
      BY <3>a, <3>b, <3>c
    <3> QED  BY <2>1, <3>1, AllowedRefuse
  <2> QED  BY <2>1, <2>2, <1>3
<1>9. ASSUME NEW r \in Runs, NEW i \in Slots, RecordRequestUnknown(r, i)
      PROVE  Allowed(q, j)
  <2> DEFINE e == [event[r][i] EXCEPT !.phase = "unknown"]
  <2>1. /\ Write(r, [event[r] EXCEPT ![i] = e]) /\ UNCHANGED effects
        /\ permit' = permit \ {<<r, i>>} /\ event[r][i].phase = "dispatched"
    BY <1>9, <1>5 DEF RecordRequestUnknown
  <2>2. CASE q = r /\ j = i
    <3>a. event'[q][j] = e
      BY <2>1, <2>2, <1>4
    <3>b. SaysOf(e) = "sent"
      BY <1>a, EditedSays
    <3>c. SaysOf(event[q][j]) = "sent"
      BY <2>1, <2>2 DEF SaysOf
    <3> HIDE DEF e
    <3>1. SaysOf(event[q][j]) = "sent" /\ SaysOf(event'[q][j]) = "sent"
      BY <3>a, <3>b, <3>c
    <3> QED  BY <2>1, <2>2, <3>1, AllowedGiveUp
  <2>3. CASE ~(q = r /\ j = i)
    <3>1. <<q, j>> \in permit' <=> <<q, j>> \in permit
      BY <2>1, <2>3
    <3> QED  BY <2>1, <2>3, <3>1, <1>3
  <2> QED  BY <2>2, <2>3
<1>10. ASSUME NEW r \in Runs, NEW i \in Slots, NEW reply \in Replies,
              RecordToolResponse(r, i, reply)
       PROVE  Allowed(q, j)
  <2> DEFINE e == Answered(event[r][i], reply)
  <2>1. /\ Write(r, [event[r] EXCEPT ![i] = e]) /\ UNCHANGED effects
        /\ permit' = permit \ {<<r, i>>}
        /\ event[r][i].phase \in {"dispatched", "unknown"}
    BY <1>10 DEF RecordToolResponse, Answerable
  <2>2. CASE q = r /\ j = i
    <3>1. SaysOf(event[q][j]) = "sent"
      BY <2>1, <2>2 DEF SaysOf
    <3>a. event'[q][j] = e
      BY <2>1, <2>2, <1>4
    <3>b. SaysOf(e) = "answered"
      BY <1>a, AnsweredSays
    <3> HIDE DEF e
    <3>2. SaysOf(event'[q][j]) = "answered"
      BY <3>a, <3>b
    <3> QED  BY <2>1, <2>2, <3>1, <3>2, AllowedAnswer
  <2>3. CASE ~(q = r /\ j = i)
    <3>1. <<q, j>> \in permit' <=> <<q, j>> \in permit
      BY <2>1, <2>3
    <3> QED  BY <2>1, <2>3, <3>1, <1>3
  <2> QED  BY <2>2, <2>3
<1>11. ASSUME NEW r \in Runs, NEW i \in Slots, LocalCommit(r, i)
       PROVE  Allowed(q, j)
  <2> DEFINE e == Answered(event[r][i], LocalResult)
  <2>1. /\ Write(r, [event[r] EXCEPT ![i] = e]) /\ UNCHANGED permit
        /\ effects' = [effects EXCEPT ![r][i] = @ + 1]
        /\ event[r][i].phase = "prepared"
    BY <1>11 DEF LocalCommit, Unsent
  <2>2. CASE q = r /\ j = i
    <3>a. event'[q][j] = e
      BY <2>1, <2>2, <1>4
    <3>b. SaysOf(e) = "answered"
      BY <1>a, AnsweredSays
    <3>c. SaysOf(event[q][j]) = "open"
      BY <2>1, <2>2 DEF SaysOf
    <3> HIDE DEF e
    <3>1. SaysOf(event[q][j]) = "open" /\ SaysOf(event'[q][j]) = "answered"
      BY <3>a, <3>b, <3>c
    <3>2. effects'[q][j] = effects[q][j] + 1
      BY <2>1, <2>2, <1>a
    <3> QED  BY <2>1, <3>1, <3>2, AllowedCommit
  <2>3. CASE ~(q = r /\ j = i)
    <3>1. effects'[q][j] = effects[q][j]
      BY <2>1, <2>3, <1>a
    <3> QED  BY <2>1, <2>3, <3>1, <1>3
  <2> QED  BY <2>2, <2>3
<1>12. ASSUME NEW r \in Runs, NEW i \in Slots, NEW S \in SUBSET Scenes,
              ForgetWithReceipt(r, i, S)
       PROVE  Allowed(q, j)
  <2> DEFINE e == Answered(event[r][i], LocalResult)
             evs == [event EXCEPT ![r] = [event[r] EXCEPT ![i] = e]]
  <2>1. /\ \E recs : EndRuns(S, "canceled", scenes, recs, evs)
        /\ UNCHANGED permit
        /\ effects' = [effects EXCEPT ![r][i] = @ + 1]
        /\ event[r][i].phase = "prepared"
    BY <1>12 DEF ForgetWithReceipt, Unsent
  <2>2. event'[q][j] \in {evs[q][j], SettleAtEnd(evs[q][j])}
    BY <2>1, EndRunsReceipts
  <2>3. CASE q = r /\ j = i
    <3>1. evs[q][j] = e
      BY <2>3, <1>a DEF TypeInv, TypeOK
    <3>2. e \in Event
      BY <1>a, EditedType
    <3>3. SaysOf(e) = "answered"
      BY <1>a, AnsweredSays
    <3>4. SaysOf(event'[q][j]) = "answered"
      BY <2>2, <3>1, <3>2, <3>3, SettleSays
    <3>5. SaysOf(event[q][j]) = "open"
      BY <2>1, <2>3 DEF SaysOf
    <3>6. effects'[q][j] = effects[q][j] + 1
      BY <2>1, <2>3, <1>a
    <3> QED  BY <2>1, <3>4, <3>5, <3>6, AllowedCommit
  <2>4. CASE ~(q = r /\ j = i)
    <3>1. evs[q][j] = event[q][j]
      BY <2>4 DEF TypeInv, TypeOK
    <3>2. \/ SaysOf(event'[q][j]) = SaysOf(event[q][j])
          \/ SaysOf(event[q][j]) = "open" /\ SaysOf(event'[q][j]) = "never"
      BY <2>2, <3>1, <1>a, SettleSays
    <3>3. effects'[q][j] = effects[q][j]
      BY <2>1, <2>4, <1>a
    <3> QED  BY <2>1, <3>2, <3>3, AllowedStill, AllowedRefuse
  <2> QED  BY <2>3, <2>4
<1> QED  BY <1>1, <1>2, <1>6, <1>7, <1>8, <1>9, <1>10, <1>11, <1>12 DEF ReceiptAction

LEMMA StepAllowed ==
  ASSUME TypeInv, [Next]_vars, NEW q \in Runs, NEW j \in Slots
  PROVE  Allowed(q, j)
<1>1. CASE SceneAction
  BY <1>1, SceneAllowed
<1>2. CASE ReceiptAction
  BY <1>2, ReceiptAllowed
<1>3. CASE ServerAction
  BY <1>3, ServerAllowed
<1>4. CASE Crash
  <2>1. UNCHANGED <<event, effects>> /\ permit' = {}
    BY <1>4 DEF Crash
  <2>2. <<q, j>> \notin permit'
    BY <2>1
  <2> QED  BY <2>1, <2>2, AllowedGiveUp
<1>5. CASE Open
  BY <1>5, EndRunsAllowed DEF Open
<1>6. CASE UNCHANGED vars
  BY <1>6, QuietAllowed DEF vars
<1> QED  BY <1>1, <1>2, <1>3, <1>4, <1>5, <1>6 DEF Next

LEMMA LedgerOfType == TypeInv => LedgerOf \in [Runs \X Slots -> Ledger!Entry]
<1> SUFFICES ASSUME TypeInv, NEW q \in Runs, NEW j \in Slots
             PROVE  EntryOf(q, j) \in Ledger!Entry
  BY DEF LedgerOf
<1>1. SaysOf(event[q][j]) \in Ledger!Says
  <2>1. event[q][j].phase \in Phases
    BY DEF TypeInv, TypeOK, Event
  <2> QED  BY <2>1 DEF SaysOf, Phases, Ledger!Says
<1>2. effects[q][j] \in Nat
  BY DEF TypeInv, TypeOK
<1>3. (<<q, j>> \in permit) \in BOOLEAN
  OBVIOUS
<1> QED  BY <1>1, <1>2, <1>3 DEF EntryOf, Ledger!Entry

LEMMA LedgerInit == Init => Ledger!Init
<1> SUFFICES ASSUME Init PROVE LedgerOf = [c \in Runs \X Slots |-> Ledger!At("nothing", FALSE, 0)]
  BY DEF Ledger!Init
<1>1. ASSUME NEW q \in Runs, NEW j \in Slots
      PROVE  EntryOf(q, j) = Ledger!At("nothing", FALSE, 0)
  <2>1. SaysOf(event[q][j]) = "nothing"
    BY DEF Init, SaysOf, NoEvent
  <2>2. (<<q, j>> \in permit) = FALSE
    BY DEF Init
  <2>3. effects[q][j] = 0
    BY DEF Init
  <2> QED  BY <2>1, <2>2, <2>3, Zenon DEF EntryOf, Ledger!At
<1> QED  BY <1>1 DEF LedgerOf

LEMMA LedgerStep == TypeInv /\ [Next]_vars => [Ledger!Next]_LedgerOf
<1> SUFFICES ASSUME TypeInv, [Next]_vars PROVE Ledger!Next
  OBVIOUS
<1>1. LedgerOf' \in [Runs \X Slots -> Ledger!Entry]
  <2>1. TypeInv'
    BY TypeStep
  <2>2. (TypeInv => LedgerOf \in [Runs \X Slots -> Ledger!Entry])'
    BY LedgerOfType, PTL
  <2> QED  BY <2>1, <2>2
<1>2. ASSUME NEW c \in Runs \X Slots
      PROVE  LedgerOf'[c] = LedgerOf[c] \/ Ledger!Move(LedgerOf[c], LedgerOf'[c])
  <2>1. c[1] \in Runs /\ c[2] \in Slots
    OBVIOUS
  <2>2. Allowed(c[1], c[2])
    BY <2>1, StepAllowed
  <2>3. LedgerOf[c] = EntryOf(c[1], c[2]) /\ LedgerOf'[c] = EntryOf(c[1], c[2])'
    BY DEF LedgerOf
  <2> QED  BY <2>2, <2>3 DEF Allowed
<1> QED  BY <1>1, <1>2 DEF Ledger!Next

\* Every behaviour of the journal is one of the abstract ledger: whatever the
\* host, a cancellation, a late answer or a crash does, a receipt only moves as
\* the ledger allows.
THEOREM JournalImplementsLedger == Spec => ImplementsLedger
<1>1. TypeInv /\ [Next]_vars => TypeInv'
  BY TypeStep
<1> QED  BY <1>1, TypeInit, LedgerInit, LedgerStep, PTL DEF Spec, ImplementsLedger, Ledger!Spec

-----------------------------------------------------------------------------
(* What the ledger promises, the journal keeps.                            *)

LEMMA JournalHonest == Spec => []Ledger!Honest
BY JournalImplementsLedger, Ledger!LedgerHonest, PTL DEF ImplementsLedger

LEMMA HonestMeans ==
  ASSUME TypeInv, Ledger!Honest, NEW r \in Runs, NEW i \in Slots
  PROVE  /\ SaysOf(event[r][i]) \in {"nothing", "open", "never"} =>
              effects[r][i] = 0
         /\ <<r, i>> \in permit => SaysOf(event[r][i]) = "sent"
         /\ effects[r][i] + (IF <<r, i>> \in permit THEN 1 ELSE 0) <= 1
<1> DEFINE e == LedgerOf[<<r, i>>]
<1>1. /\ e.says = SaysOf(event[r][i])
      /\ e.may = (<<r, i>> \in permit)
      /\ e.done = effects[r][i]
  BY DEF LedgerOf, EntryOf
<1>2. /\ e.says \in {"nothing", "open", "never"} => e.done = 0
      /\ e.may => e.says = "sent"
      /\ e.done + (IF e.may THEN 1 ELSE 0) <= 1
  BY DEF Ledger!Honest
<1> HIDE DEF e
<1> QED  BY <1>1, <1>2

\* A call whose receipt says it was never sent had no effect and never will: not
\* after a cancellation between the grant and the request, not after a crash.
THEOREM NeverSentIsTrue == Spec => []NotSentIsTrue
<1>1. TypeInv /\ [Next]_vars => TypeInv'
  BY TypeStep
<1>2. TypeInv /\ Ledger!Honest => NotSentIsTrue
  BY HonestMeans DEF NotSentIsTrue, SaysOf
<1> QED  BY <1>1, <1>2, TypeInit, JournalHonest, PTL DEF Spec

\* No request recorded in the journal is made twice, whatever is retried, answered
\* late or recovered.
THEOREM NeverTwice == Spec => []AtMostOnce
<1>1. TypeInv /\ [Next]_vars => TypeInv'
  BY TypeStep
<1>2. TypeInv /\ Ledger!Honest => AtMostOnce
  BY HonestMeans DEF AtMostOnce
<1> QED  BY <1>1, <1>2, TypeInit, JournalHonest, PTL DEF Spec

-----------------------------------------------------------------------------
(* The inductive invariant, receipt by receipt and record by record.       *)

\* A run without a record has no receipts.
Blank(r) == record[r].status = "absent" => \A j \in Slots : event[r][j].phase = "absent"

\* The fields of a receipt that its phase decides.
Shaped(e) ==
  /\ e.phase = "absent" <=> e.kind = "none"
  /\ e.selectable => e.phase = "responded"

Closed(r, j) == Pending(event[r][j]) => record[r].status = "running"

Evidence(r, j) ==
  record[r].kind = "continuation" /\ event[r][j].kind = "tool" =>
    event[r][j].phase \in {"prepared", "notsent"}

ReceiptsOK ==
  \A r \in Runs : /\ Blank(r)
                  /\ \A j \in Slots : Shaped(event[r][j]) /\ Closed(r, j) /\ Evidence(r, j)

Covered(r) == record[r].checkpoint = SettledPrefix(event[r])

Sourced(r) ==
  IF record[r].kind = "continuation"
  THEN LET src == record[r].source IN
       /\ src \in Runs /\ record[src].status # "absent"
       /\ record[src].kind # "continuation"
       /\ record[src].scene = record[r].scene
       /\ record[r].sourceRev <= record[src].rev
       /\ record[r].sourceCheckpoint \subseteq record[src].checkpoint
       /\ record[r].selected \subseteq Selectable(event[src])
  ELSE record[r].source = NoRun

RecordsOK == \A r \in Runs : Covered(r) /\ Sourced(r)

\* The run of a scene is recorded in it.
ScenesPlaced ==
  \A s \in Scenes : scenes[s].run \in Runs => /\ record[scenes[s].run].scene = s
                                              /\ record[scenes[s].run].status # "absent"

Core == TypeInv /\ ReceiptsOK /\ RecordsOK /\ ScenesPlaced /\ RunningAgrees

-----------------------------------------------------------------------------
(* The moves of a record and of a receipt.                                 *)

\* What a record says of its run's origin never changes.
Kept(r) ==
  /\ record'[r].scene = record[r].scene
  /\ record'[r].kind = record[r].kind
  /\ record'[r].source = record[r].source
  /\ record'[r].sourceRev = record[r].sourceRev
  /\ record'[r].sourceCheckpoint = record[r].sourceCheckpoint
  /\ record'[r].selected = record[r].selected

Idle(r) == record'[r] = record[r] /\ event'[r] = event[r]

\* The record of a new run, and of a run that continues from src.
Opened(r) ==
  /\ record[r].status = "absent" /\ event'[r] = event[r]
  /\ record'[r].status = "running" /\ record'[r].scene \in Scenes
  /\ record'[r].checkpoint = {} /\ record'[r].rev = 1
  /\ IF record'[r].kind = "continuation"
     THEN \E src \in Runs \ {r} :
            /\ record'[r].source = src /\ record[src].status # "absent"
            /\ record[src].kind # "continuation"
            /\ record'[r].scene = record[src].scene
            /\ record'[r].sourceRev = record[src].rev
            /\ record'[r].sourceCheckpoint = record[src].checkpoint
            /\ record'[r].selected \subseteq Selectable(event[src])
     ELSE record'[r].source = NoRun

Moved(r) ==
  /\ Kept(r) /\ record'[r].rev > record[r].rev
  /\ record'[r].checkpoint = SettledPrefix(event'[r])

Rewritten(r) ==
  /\ Moved(r) /\ record[r].status # "absent" /\ record'[r].status = record[r].status

Ended(r) ==
  /\ Moved(r) /\ record[r].status = "running" /\ record'[r].status \in EndStatus
  /\ \A j \in Slots : ~Pending(event'[r][j])

RecordMoves(r) == Idle(r) \/ Opened(r) \/ Rewritten(r) \/ Ended(r)

\* Receipt e of run r becomes f.
Asked(r, e, f) ==
  /\ e.phase = "absent" /\ f.kind = "model" /\ f.phase = "dispatched"
  /\ f.binding = "none" /\ ~f.selectable /\ record[r].status = "running"

Proposed(r, e, f) ==
  /\ e.phase = "absent" /\ f.kind = "tool" /\ f.phase = ProposedPhase(r)
  /\ ~f.selectable

Sent(r, e, f) ==
  /\ e.phase = "prepared" /\ f.phase = "dispatched"
  /\ f.kind = e.kind /\ ~f.selectable
  /\ record[r].status = "running" /\ MayAct(r)
  /\ f.binding = "mcp" => Granted(r, f)

Resolved(r, e, f) ==
  /\ e.phase \in {"prepared", "dispatched", "unknown"}
  /\ f.phase \in {"responded", "unknown", "notsent"}
  /\ e.phase = "unknown" => f.phase = "responded"
  /\ f.kind = e.kind /\ (f.selectable => f.phase = "responded")
  /\ record[r].kind = "continuation" /\ e.kind = "tool" /\ e.phase = "prepared" =>
       f.phase = "notsent"

ReceiptMoves(r, e, f) ==
  f = e \/ Asked(r, e, f) \/ Proposed(r, e, f) \/ Sent(r, e, f) \/ Resolved(r, e, f)

Moves ==
  \A r \in Runs : /\ RecordMoves(r)
                  /\ \A j \in Slots : ReceiptMoves(r, event[r][j], event'[r][j])

-----------------------------------------------------------------------------
(* The two kinds of transaction.                                           *)

LEMMA BumpFields ==
  ASSUME NEW rec \in Record, NEW evs
  PROVE  /\ Bump(rec, evs).rev = rec.rev + 1
         /\ Bump(rec, evs).checkpoint = SettledPrefix(evs)
         /\ Bump(rec, evs).status = rec.status
         /\ Bump(rec, evs).scene = rec.scene
         /\ Bump(rec, evs).kind = rec.kind
         /\ Bump(rec, evs).source = rec.source
         /\ Bump(rec, evs).sourceRev = rec.sourceRev
         /\ Bump(rec, evs).sourceCheckpoint = rec.sourceCheckpoint
         /\ Bump(rec, evs).selected = rec.selected
BY DEF Bump, Record

\* A transaction on the receipts of run r rewrites r and nothing else.
LEMMA WriteMoves ==
  ASSUME TypeInv, NEW r \in Runs, NEW evs \in [Slots -> Event], Write(r, evs),
         record[r].status # "absent",
         \A j \in Slots : ReceiptMoves(r, event[r][j], evs[j])
  PROVE  Moves
<1>1. /\ record' = [record EXCEPT ![r] = Bump(record[r], evs)]
      /\ event' = [event EXCEPT ![r] = evs]
  BY DEF Write
<1>2. /\ record \in [Runs -> Record] /\ event \in [Runs -> [Slots -> Event]]
      /\ record[r] \in Record /\ record[r].rev \in Nat
  BY DEF TypeInv, TypeOK, Record
<1>3. Rewritten(r)
  <2>1. record'[r] = Bump(record[r], evs) /\ event'[r] = evs
    BY <1>1, <1>2
  <2> QED  BY <1>2, <2>1, BumpFields DEF Rewritten, Moved, Kept
<1>4. \A q \in Runs \ {r} : Idle(q)
  BY <1>1, <1>2 DEF Idle
<1>5. event'[r] = evs
  BY <1>1, <1>2
<1> QED  BY <1>3, <1>4, <1>5 DEF Moves, RecordMoves, ReceiptMoves, Idle

\* One receipt of run r is rewritten.
LEMMA WriteOneMoves ==
  ASSUME TypeInv, NEW r \in Runs, NEW i \in Slots, NEW f \in Event,
         Write(r, [event[r] EXCEPT ![i] = f]),
         record[r].status # "absent", ReceiptMoves(r, event[r][i], f)
  PROVE  Moves
<1> DEFINE evs == [event[r] EXCEPT ![i] = f]
<1>1. evs \in [Slots -> Event]
  BY OneWriteType
<1>2. \A j \in Slots : evs[j] = IF j = i THEN f ELSE event[r][j]
  BY DEF TypeInv, TypeOK
<1>3. \A j \in Slots : ReceiptMoves(r, event[r][j], evs[j])
  BY <1>2 DEF ReceiptMoves
<1>4. Write(r, evs)
  OBVIOUS
<1> HIDE DEF evs
<1> QED  BY <1>1, <1>3, <1>4, WriteMoves

\* What the end of its run makes of a receipt.
LEMMA SettleMoves ==
  ASSUME NEW r, NEW e \in Event, Shaped(e)
  PROVE  /\ ReceiptMoves(r, e, SettleAtEnd(e))
         /\ ~Pending(SettleAtEnd(e))
         /\ SettleAtEnd(e).kind = e.kind
         /\ SettleAtEnd(e).round = e.round
         /\ Charged(SettleAtEnd(e)) <=> Charged(e)
<1>1. CASE e.phase = "prepared"
  <2>1. SettleAtEnd(e) = [e EXCEPT !.phase = "notsent"]
    BY <1>1 DEF SettleAtEnd
  <2> QED  BY <1>1, <2>1 DEF ReceiptMoves, Resolved, Shaped, Event, Pending, Charged
<1>2. CASE e.phase = "dispatched"
  <2>1. SettleAtEnd(e) = [e EXCEPT !.phase = "unknown"]
    BY <1>2 DEF SettleAtEnd
  <2> QED  BY <1>2, <2>1 DEF ReceiptMoves, Resolved, Shaped, Event, Pending, Charged
<1>3. CASE e.phase \notin {"prepared", "dispatched"}
  <2>1. SettleAtEnd(e) = e
    BY <1>3 DEF SettleAtEnd
  <2> QED  BY <1>3, <2>1 DEF ReceiptMoves, Pending
<1> QED  BY <1>1, <1>2, <1>3

\* Ending the runs of the scenes in S ends the running ones among their runs and
\* leaves every other run alone.
EndedBy(S, scs) == {r \in Runs : record[r].status = "running" /\ \E s \in S : scs[s].run = r}

LEMMA EndRunsRecords ==
  ASSUME TypeInv, NEW S, NEW status, NEW scs, EndRuns(S, status, scs, record, event),
         NEW q \in Runs
  PROVE  IF q \in EndedBy(S, scs)
         THEN /\ event'[q] = [j \in Slots |-> SettleAtEnd(event[q][j])]
              /\ record'[q] = [Bump(record[q], event'[q]) EXCEPT !.status = status]
         ELSE Idle(q)
BY DEF EndRuns, EndedBy, Idle

LEMMA EndedFields ==
  ASSUME NEW rec \in Record, NEW evs, NEW status
  PROVE  LET new == [Bump(rec, evs) EXCEPT !.status = status] IN
         /\ new.rev = rec.rev + 1
         /\ new.checkpoint = SettledPrefix(evs)
         /\ new.status = status
         /\ new.scene = rec.scene
         /\ new.kind = rec.kind
         /\ new.source = rec.source
         /\ new.sourceRev = rec.sourceRev
         /\ new.sourceCheckpoint = rec.sourceCheckpoint
         /\ new.selected = rec.selected
BY DEF Bump, Record

LEMMA EndRunsMoves ==
  ASSUME TypeInv, ReceiptsOK, NEW S, NEW status \in EndStatus, NEW scs,
         EndRuns(S, status, scs, record, event)
  PROVE  Moves
<1>1. ASSUME NEW q \in Runs, q \in EndedBy(S, scs)
      PROVE  Ended(q) /\ \A j \in Slots : ReceiptMoves(q, event[q][j], event'[q][j])
  <2>1. /\ event'[q] = [j \in Slots |-> SettleAtEnd(event[q][j])]
        /\ record'[q] = [Bump(record[q], event'[q]) EXCEPT !.status = status]
    BY <1>1, EndRunsRecords
  <2>2. record[q] \in Record /\ record[q].rev \in Nat /\ record[q].status = "running"
    BY <1>1 DEF TypeInv, TypeOK, Record, EndedBy
  <2>3. \A j \in Slots : event[q][j] \in Event /\ Shaped(event[q][j])
    BY DEF TypeInv, TypeOK, ReceiptsOK
  <2>4. \A j \in Slots : /\ ReceiptMoves(q, event[q][j], event'[q][j])
                         /\ ~Pending(event'[q][j])
    BY <2>1, <2>3, SettleMoves
  <2>5. Moved(q) /\ record'[q].status = status
    BY <2>1, <2>2, EndedFields DEF Moved, Kept
  <2> QED  BY <2>2, <2>4, <2>5 DEF Ended
<1>2. ASSUME NEW q \in Runs, q \notin EndedBy(S, scs)
      PROVE  Idle(q)
  BY <1>2, EndRunsRecords
<1> QED  BY <1>1, <1>2 DEF Moves, RecordMoves, ReceiptMoves, Idle

-----------------------------------------------------------------------------
(* Every step is made of such moves.                                       *)

LEMMA QuietMoves ==
  ASSUME UNCHANGED <<record, event>>
  PROVE  Moves
BY DEF Moves, RecordMoves, ReceiptMoves, Idle

\* A step that opens the record of a run, and touches no receipt.
LEMMA OpenMoves ==
  ASSUME TypeInv, NEW new \in Runs, NEW rec,
         UNCHANGED event, record' = [record EXCEPT ![new] = rec], Opened(new)
  PROVE  Moves
<1>1. \A q \in Runs \ {new} : Idle(q)
  BY DEF TypeInv, TypeOK, Idle
<1> QED  BY <1>1 DEF Moves, RecordMoves, ReceiptMoves, Idle

LEMMA NewRecordFields ==
  ASSUME NEW s, NEW k
  PROVE  /\ NewRecord(s, k).status = "running" /\ NewRecord(s, k).scene = s
         /\ NewRecord(s, k).kind = k /\ NewRecord(s, k).rev = 1
         /\ NewRecord(s, k).checkpoint = {} /\ NewRecord(s, k).source = NoRun
BY DEF NewRecord, NoRecord

\* Continuing from a run continues from its source, a recorded run that is not
\* itself a continuation.
LEMMA ContinuationMoves ==
  ASSUME Core, NEW from \in Runs, NEW new \in Runs, NEW selected \in SUBSET Slots,
         BeginContinuation(from, new, selected)
  PROVE  Moves
<1> DEFINE src == Canonical(from)
           s == record[src].scene
           base == NewRecord(s, "continuation")
           rec == [base EXCEPT !.source = src, !.sourceRev = record[src].rev,
                               !.sourceCheckpoint = record[src].checkpoint,
                               !.selected = selected]
<1>1. /\ src \in Runs /\ record[src].kind # "continuation"
      /\ record[src].status \in EndStatus
  <2>1. record[from].kind = "continuation" <=> record[from].source # NoRun
    BY ConstantsAssumption DEF Core, RecordsOK, Sourced
  <2>2. record[src].status \in EndStatus
    BY DEF BeginContinuation, Continuable
  <2>3. src \in Runs /\ record[src].kind # "continuation"
    <3>1. CASE record[from].source = NoRun
      BY <2>1, <3>1 DEF Canonical
    <3>2. CASE record[from].source # NoRun
      BY <2>1, <3>2 DEF Canonical, Core, RecordsOK, Sourced
    <3> QED  BY <3>1, <3>2
  <2> QED  BY <2>2, <2>3
<1>2. record[src].status # "absent" /\ s \in Scenes
  BY <1>1 DEF Core, TypeInv, RecordsPlaced, EndStatus
<1>3. /\ record[new].status = "absent" /\ UNCHANGED event
      /\ selected \subseteq Selectable(event[src])
      /\ record' = [record EXCEPT ![new] = rec]
  BY DEF BeginContinuation
<1>4. base \in Record
  BY <1>2, NewRecordType DEF Kinds
<1>5. /\ base.status = "running" /\ base.scene = s /\ base.kind = "continuation"
      /\ base.rev = 1 /\ base.checkpoint = {}
  BY NewRecordFields
<1> HIDE DEF base, src
<1>6. /\ rec.status = "running" /\ rec.scene = s /\ rec.kind = "continuation"
      /\ rec.rev = 1 /\ rec.checkpoint = {} /\ rec.source = src
      /\ rec.sourceRev = record[src].rev /\ rec.sourceCheckpoint = record[src].checkpoint
      /\ rec.selected = selected
  BY <1>4, <1>5 DEF Record
<1> HIDE DEF rec
<1>7. record'[new] = rec
  BY <1>3 DEF Core, TypeInv, TypeOK
<1>8. Opened(new)
  BY <1>1, <1>2, <1>3, <1>6, <1>7 DEF Opened
<1> QED  BY <1>3, <1>8, OpenMoves DEF Core

LEMMA SceneMoves == Core /\ SceneAction => Moves
<1> SUFFICES ASSUME Core, SceneAction PROVE Moves
  OBVIOUS
<1>a. TypeInv /\ ReceiptsOK
  BY DEF Core
<1>1. ASSUME NEW s \in Scenes, NEW r \in Runs, NEW k \in StartKinds, BeginRun(s, r, k)
      PROVE  Moves
  <2>1. /\ UNCHANGED event /\ record' = [record EXCEPT ![r] = NewRecord(s, k)]
        /\ record[r].status = "absent"
    BY <1>1 DEF BeginRun
  <2>2. k # "continuation"
    BY ConstantsAssumption
  <2>3. record'[r] = NewRecord(s, k)
    BY <1>a, <2>1 DEF TypeInv, TypeOK
  <2>4. Opened(r)
    BY <2>1, <2>2, <2>3, NewRecordFields DEF Opened
  <2> QED  BY <1>a, <2>1, <2>4, OpenMoves
<1>2. ASSUME NEW s \in Scenes, NEW status \in Endings, EndRun(s, status)
      PROVE  Moves
  <2>1. EndRuns({s}, status, scenes, record, event) /\ status \in EndStatus
    BY <1>2, ConstantsAssumption DEF EndRun, EndStatus
  <2> QED  BY <1>a, <2>1, EndRunsMoves
<1>3. CASE \E S \in SUBSET Scenes : RevokeRuns(S)
  BY <1>a, <1>3, EndRunsMoves DEF RevokeRuns, EndStatus
<1>4. CASE \E s \in Scenes : CloseScene(s)
  BY <1>a, <1>4, EndRunsMoves DEF CloseScene, EndStatus
<1>5. CASE \E s \in Scenes : ActivateScene(s)
  BY <1>5, QuietMoves DEF ActivateScene
<1>6. CASE LeaveScene
  BY <1>6, QuietMoves DEF LeaveScene
<1>7. CASE \E s \in Scenes : NewConversation(s)
  BY <1>7, QuietMoves DEF NewConversation
<1>8. CASE \E from, new \in Runs, selected \in SUBSET Slots :
             BeginContinuation(from, new, selected)
  BY <1>8, ContinuationMoves
<1> QED  BY <1>1, <1>2, <1>3, <1>4, <1>5, <1>6, <1>7, <1>8 DEF SceneAction

LEMMA ServerMoves == Core /\ ServerAction => Moves
<1> SUFFICES ASSUME Core, ServerAction PROVE Moves
  OBVIOUS
<1>1. \E changed : ChangeServer(changed)
  BY DEF ServerAction, RediscoverServer, SetMcpGrants, SetMcpEnabled, RemoveMcpServer
<1> QED  BY <1>1, EndRunsMoves DEF ChangeServer, EndStatus, Core

\* A receipt belongs to a run that has a record.
LEMMA LeasedRecorded ==
  ASSUME ReceiptsOK, NEW r \in Runs, NEW i \in Slots, Leased(r, i)
  PROVE  record[r].status # "absent"
BY DEF ReceiptsOK, Blank, Leased

LEMMA AnsweredFields ==
  ASSUME NEW e \in Event, NEW reply
  PROVE  /\ Answered(e, reply).phase = "responded"
         /\ Answered(e, reply).kind = e.kind
         /\ Answered(e, reply).round = e.round
BY DEF Answered, Event

LEMMA PhaseFields ==
  ASSUME NEW e \in Event, NEW ph
  PROVE  LET f == [e EXCEPT !.phase = ph] IN
         /\ f.phase = ph /\ f.kind = e.kind /\ f.selectable = e.selectable
         /\ f.binding = e.binding /\ f.serverRev = e.serverRev /\ f.round = e.round
BY DEF Event

-----------------------------------------------------------------------------
(* What a step may add to the calls charged and to the rounds asked.       *)

Charges(evs) == {j \in Slots : Charged(evs[j])}

Frugal(r) ==
  \/ Charges(event'[r]) \subseteq Charges(event[r])
  \/ /\ InBudget(event[r])
     /\ \E i \in Slots : Charges(event'[r]) \subseteq Charges(event[r]) \cup {i}

OfRound(e, n) == e.kind = "model" /\ e.round = n

\* At most one receipt becomes a request of a round, and no other one has it.
Single(r) ==
  \/ \A j \in Slots : \A n : OfRound(event'[r][j], n) => OfRound(event[r][j], n)
  \/ \E i \in Slots : \A j \in Slots \ {i} :
       event'[r][j] = event[r][j] /\ \A n : OfRound(event'[r][i], n) => ~OfRound(event[r][j], n)

Thrifty == \A r \in Runs : Frugal(r) /\ Single(r)

\* Receipt i of run r becomes f, as a request or an answer may.
OneReceipt(r, i, f) ==
  /\ Write(r, [event[r] EXCEPT ![i] = f])
  /\ record[r].status # "absent"
  /\ ReceiptMoves(r, event[r][i], f)
  /\ Charged(f) => Charged(event[r][i]) \/ InBudget(event[r])
  /\ \A n : OfRound(f, n) => OfRound(event[r][i], n)
                            \/ \A j \in Slots : ~OfRound(event[r][j], n)

LEMMA OneReceiptMoves ==
  ASSUME TypeInv, NEW r \in Runs, NEW i \in Slots, NEW f \in Event, OneReceipt(r, i, f)
  PROVE  Moves /\ Thrifty
<1>1. Moves
  BY WriteOneMoves DEF OneReceipt
<1>2. /\ \A q \in Runs \ {r} : event'[q] = event[q]
      /\ event'[r][i] = f /\ \A j \in Slots \ {i} : event'[r][j] = event[r][j]
  BY WriteReceipts, WriteOne DEF OneReceipt
<1>3. \A q \in Runs \ {r} : Frugal(q) /\ Single(q)
  BY <1>2 DEF Frugal, Single
<1>4. Frugal(r)
  <2>1. CASE InBudget(event[r])
    BY <1>2, <2>1 DEF Frugal, Charges
  <2>2. CASE ~InBudget(event[r])
    BY <1>2, <2>2 DEF Frugal, Charges, OneReceipt
  <2> QED  BY <2>1, <2>2
<1>5. Single(r)
  <2>1. CASE \A n : OfRound(f, n) => OfRound(event[r][i], n)
    BY <1>2, <2>1 DEF Single
  <2>2. CASE \E n : OfRound(f, n) /\ ~OfRound(event[r][i], n)
    <3>1. PICK m : OfRound(f, m) /\ ~OfRound(event[r][i], m)
      BY <2>2
    <3>2. \A j \in Slots : ~OfRound(event[r][j], m)
      BY <3>1 DEF OneReceipt
    <3>3. \A n : OfRound(f, n) => n = m
      BY <3>1 DEF OfRound
    <3> QED  BY <1>2, <3>2, <3>3 DEF Single
  <2> QED  BY <2>1, <2>2
<1> QED  BY <1>1, <1>3, <1>4, <1>5 DEF Thrifty

LEMMA QuietThrifty ==
  ASSUME UNCHANGED event
  PROVE  Thrifty
BY DEF Thrifty, Frugal, Single

LEMMA EndRunsThrifty ==
  ASSUME TypeInv, ReceiptsOK, NEW S, NEW status, NEW scs,
         EndRuns(S, status, scs, record, event)
  PROVE  Thrifty
<1>1. \A q \in Runs, j \in Slots :
        /\ Charged(event'[q][j]) <=> Charged(event[q][j])
        /\ event'[q][j].kind = event[q][j].kind
        /\ event'[q][j].round = event[q][j].round
  <2> SUFFICES ASSUME NEW q \in Runs, NEW j \in Slots
               PROVE  /\ Charged(event'[q][j]) <=> Charged(event[q][j])
                      /\ event'[q][j].kind = event[q][j].kind
                      /\ event'[q][j].round = event[q][j].round
    OBVIOUS
  <2>1. event'[q][j] \in {event[q][j], SettleAtEnd(event[q][j])}
    BY EndRunsReceipts
  <2>2. event[q][j] \in Event /\ Shaped(event[q][j])
    BY DEF TypeInv, TypeOK, ReceiptsOK
  <2> QED  BY <2>1, <2>2, SettleMoves
<1> QED  BY <1>1 DEF Thrifty, Frugal, Single, Charges, OfRound

-----------------------------------------------------------------------------
(* The actions on receipts.                                                *)

LEMMA RequestMoves ==
  ASSUME Core, NEW r \in Runs, NEW n \in Rounds, BeginModelRequest(r, n)
  PROVE  Moves /\ Thrifty
<1>1. PICK last \in 0..(MaxEvents - 1) :
        /\ IsLast(event[r], last)
        /\ Write(r, [event[r] EXCEPT ![last + 1] = ModelEvent(n)])
  BY DEF BeginModelRequest
<1> DEFINE i == last + 1
<1>2. i \in Slots
  BY ConstantsAssumption DEF Slots
<1>3. event[r][i].phase = "absent" /\ record[r].status = "running"
  BY <1>1, <1>2 DEF IsLast, BeginModelRequest, Live
<1>4. /\ ModelEvent(n).kind = "model" /\ ModelEvent(n).phase = "dispatched"
      /\ ModelEvent(n).binding = "none" /\ ModelEvent(n).selectable = FALSE
      /\ ModelEvent(n).round = n /\ ModelEvent(n) \in Event
  BY ModelEventType DEF ModelEvent, NoEvent
<1>5. ReceiptMoves(r, event[r][i], ModelEvent(n))
  BY <1>3, <1>4 DEF ReceiptMoves, Asked
<1>6. \A j \in Slots : ~OfRound(event[r][j], n)
  BY DEF BeginModelRequest, OfRound
<1>7. OneReceipt(r, i, ModelEvent(n))
  BY <1>1, <1>3, <1>4, <1>5, <1>6 DEF OneReceipt, Charged, OfRound
<1> HIDE DEF i
<1> QED  BY <1>2, <1>4, <1>7, OneReceiptMoves DEF Core

\* A phase is the only thing that changes of the receipt.
LEMMA PhaseMoves ==
  ASSUME Core, NEW r \in Runs, NEW i \in Slots, NEW ph \in Phases,
         Write(r, [event[r] EXCEPT ![i].phase = ph]), Leased(r, i),
         ReceiptMoves(r, event[r][i], [event[r][i] EXCEPT !.phase = ph]),
         Charged([event[r][i] EXCEPT !.phase = ph]) =>
           Charged(event[r][i]) \/ InBudget(event[r])
  PROVE  Moves /\ Thrifty
<1> DEFINE f == [event[r][i] EXCEPT !.phase = ph]
<1>1. event[r][i] \in Event
  BY DEF Core, TypeInv, TypeOK
<1>2. f \in Event /\ f.kind = event[r][i].kind /\ f.round = event[r][i].round
  BY <1>1, EditedType, PhaseFields
<1>3. Write(r, [event[r] EXCEPT ![i] = f])
  OBVIOUS
<1>4. record[r].status # "absent"
  BY LeasedRecorded DEF Core
<1> HIDE DEF f
<1>5. ReceiptMoves(r, event[r][i], f) /\ (Charged(f) => Charged(event[r][i]) \/ InBudget(event[r]))
  BY DEF f
<1>6. OneReceipt(r, i, f)
  BY <1>2, <1>3, <1>4, <1>5 DEF OneReceipt, OfRound
<1> QED  BY <1>2, <1>6, OneReceiptMoves DEF Core

\* The receipt gets its answer.
LEMMA AnswerMoves ==
  ASSUME Core, NEW r \in Runs, NEW i \in Slots, NEW reply \in Replies \cup {LocalResult},
         Write(r, [event[r] EXCEPT ![i] = Answered(@, reply)]), Leased(r, i),
         event[r][i].kind = "tool",
         \/ Answerable(event[r][i])
         \/ event[r][i].phase = "prepared" /\ InBudget(event[r])
            /\ record[r].kind # "continuation"
  PROVE  Moves /\ Thrifty
<1> DEFINE f == Answered(event[r][i], reply)
<1>1. event[r][i] \in Event
  BY DEF Core, TypeInv, TypeOK
<1>2. /\ f \in Event /\ f.phase = "responded" /\ f.kind = event[r][i].kind
      /\ f.round = event[r][i].round
  BY <1>1, EditedType, AnsweredFields
<1>3. Write(r, [event[r] EXCEPT ![i] = f])
  OBVIOUS
<1>4. record[r].status # "absent"
  BY LeasedRecorded DEF Core
<1> HIDE DEF f
<1>5. /\ ReceiptMoves(r, event[r][i], f)
      /\ Charged(f) => Charged(event[r][i]) \/ InBudget(event[r])
  <2>1. CASE Answerable(event[r][i])
    BY <1>2, <2>1 DEF ReceiptMoves, Resolved, Answerable, Charged
  <2>2. CASE event[r][i].phase = "prepared" /\ InBudget(event[r])
             /\ record[r].kind # "continuation"
    BY <1>2, <2>2 DEF ReceiptMoves, Resolved
  <2> QED  BY <2>1, <2>2
<1>6. OneReceipt(r, i, f)
  BY <1>2, <1>3, <1>4, <1>5 DEF OneReceipt, OfRound
<1> QED  BY <1>2, <1>6, OneReceiptMoves DEF Core

\* The answer to a model request, with the calls it proposes.
LEMMA TurnMoves ==
  ASSUME Core, NEW r \in Runs, NEW i \in Slots, NEW n \in 0..MaxCalls,
         NEW selectable \in BOOLEAN, NEW calls \in [1..n -> Calls],
         RecordModelTurn(r, i, calls, selectable)
  PROVE  Moves /\ Thrifty
<1> DEFINE turn(last) == WithTurn(r, i, last, calls, selectable)
           mine == [event[r][i] EXCEPT !.phase = "responded", !.selectable = selectable]
           call(last, j) == ToolEvent(event[r][i].round, ProposedPhase(r), calls[j - last])
<1>1. PICK last \in 0..(MaxEvents - Len(calls)) :
        IsLast(event[r], last) /\ Write(r, turn(last))
  BY DEF RecordModelTurn
<1>2. last \in Nat /\ n \in Nat
  BY ConstantsAssumption
<1>3. turn(last) \in [Slots -> Event]
  BY <1>2, TurnType DEF Core
<1>4. event[r][i] \in Event
  BY DEF Core, TypeInv, TypeOK
<1>5. /\ record[r].status # "absent"
      /\ event[r][i].kind = "model" /\ event[r][i].phase \in {"dispatched", "unknown"}
  BY LeasedRecorded DEF Core, RecordModelTurn, Answerable
<1>6. /\ mine.phase = "responded" /\ mine.kind = event[r][i].kind
      /\ mine.round = event[r][i].round
  BY <1>4 DEF Event
<1>7. \A j \in Slots : /\ call(last, j).kind = "tool" /\ ~call(last, j).selectable
                       /\ call(last, j).phase = ProposedPhase(r)
  BY DEF ToolEvent, NoEvent
<1>8. ASSUME NEW j \in Slots
      PROVE  \/ j = i /\ turn(last)[j] = mine
             \/ /\ j # i /\ event[r][j].phase = "absent"
                /\ turn(last)[j] = call(last, j)
             \/ j # i /\ turn(last)[j] = event[r][j]
  <2>1. CASE j = i
    BY <2>1 DEF WithTurn
  <2>2. CASE j # i /\ j \in (last + 1)..(last + Len(calls))
    <3>1. last \in Int /\ j \in Int /\ ~(j <= last)
      BY <2>2 DEF Slots
    <3>2. event[r][j].phase = "absent"
      BY <1>1, <2>2, <3>1 DEF IsLast
    <3> QED  BY <2>2, <3>2 DEF WithTurn
  <2>3. CASE j # i /\ j \notin (last + 1)..(last + Len(calls))
    BY <2>3 DEF WithTurn
  <2> QED  BY <2>1, <2>2, <2>3
<1> HIDE DEF turn, mine, call
<1>9. \A j \in Slots : ReceiptMoves(r, event[r][j], turn(last)[j])
  <2> SUFFICES ASSUME NEW j \in Slots PROVE ReceiptMoves(r, event[r][j], turn(last)[j])
    OBVIOUS
  <2>1. CASE j = i /\ turn(last)[j] = mine
    BY <1>5, <1>6, <2>1 DEF ReceiptMoves, Resolved
  <2>2. CASE event[r][j].phase = "absent" /\ turn(last)[j] = call(last, j)
    BY <1>7, <2>2 DEF ReceiptMoves, Proposed
  <2>3. CASE turn(last)[j] = event[r][j]
    BY <2>3 DEF ReceiptMoves
  <2> QED  BY <1>8, <2>1, <2>2, <2>3
<1>10. Moves
  BY <1>1, <1>3, <1>5, <1>9, WriteMoves DEF Core
<1>11. \A q \in Runs : event'[q] = IF q = r THEN turn(last) ELSE event[q]
  BY <1>1, WriteReceipts DEF Core
<1>12. ASSUME NEW j \in Slots
       PROVE  /\ Charged(turn(last)[j]) => Charged(event[r][j])
              /\ \A m : OfRound(turn(last)[j], m) => OfRound(event[r][j], m)
  <2>1. ProposedPhase(r) \in {"prepared", "notsent"}
    BY DEF ProposedPhase
  <2> QED  BY <1>5, <1>6, <1>7, <1>8, <2>1 DEF Charged, OfRound
<1>13. Thrifty
  BY <1>11, <1>12 DEF Thrifty, Frugal, Single, Charges
<1> QED  BY <1>10, <1>13

\* forget_external_evidence_with_receipt: the receipt of the call is answered and
\* bumped, then its run and the others that used the evidence are ended.
LEMMA ForgetMoves ==
  ASSUME Core, NEW r \in Runs, NEW i \in Slots, NEW S \in SUBSET Scenes,
         ForgetWithReceipt(r, i, S)
  PROVE  Moves /\ Thrifty
<1> DEFINE f == Answered(event[r][i], LocalResult)
           mine == [event[r] EXCEPT ![i] = f]
           recs == [record EXCEPT ![r] = Bump(record[r], mine)]
           evs == [event EXCEPT ![r] = mine]
           ended == {q \in Runs : recs[q].status = "running" /\ \E s \in S : scenes[s].run = q}
<1>1. /\ EndRuns(S, "canceled", scenes, recs, evs)
      /\ Leased(r, i) /\ Live(r) /\ record[r].scene \in S /\ InBudget(event[r])
      /\ event[r][i].kind = "tool" /\ event[r][i].phase = "prepared"
      /\ record[r].kind = "chat"
  BY DEF ForgetWithReceipt, Unsent
<1>2. /\ event[r][i] \in Event /\ record[r] \in Record /\ record[r].rev \in Nat
      /\ event \in [Runs -> [Slots -> Event]] /\ record \in [Runs -> Record]
      /\ \A q \in Runs, j \in Slots : event[q][j] \in Event /\ Shaped(event[q][j])
  BY DEF Core, TypeInv, TypeOK, Record, ReceiptsOK
<1>3. /\ f \in Event /\ f.phase = "responded" /\ f.kind = "tool"
      /\ f.round = event[r][i].round
  BY <1>1, <1>2, EditedType, AnsweredFields
<1>4. \A j \in Slots : mine[j] = IF j = i THEN f ELSE event[r][j]
  BY <1>2
<1> HIDE DEF f
<1>5. /\ recs[r] = Bump(record[r], mine) /\ evs[r] = mine
      /\ \A q \in Runs \ {r} : recs[q] = record[q] /\ evs[q] = event[q]
  BY <1>2
<1> HIDE DEF mine
<1>6. /\ recs[r] \in Record /\ recs[r].rev = record[r].rev + 1 /\ recs[r].status = "running"
      /\ recs[r].scene = record[r].scene /\ recs[r].kind = record[r].kind
      /\ recs[r].source = record[r].source /\ recs[r].sourceRev = record[r].sourceRev
      /\ recs[r].sourceCheckpoint = record[r].sourceCheckpoint
      /\ recs[r].selected = record[r].selected
  BY <1>1, <1>2, <1>5, BumpFields, BumpType DEF Live
<1> HIDE DEF recs, evs
<1>7. \A q \in Runs :
        IF q \in ended
        THEN /\ event'[q] = [j \in Slots |-> SettleAtEnd(evs[q][j])]
             /\ record'[q] = [Bump(recs[q], event'[q]) EXCEPT !.status = "canceled"]
        ELSE event'[q] = evs[q] /\ record'[q] = recs[q]
  BY <1>1 DEF EndRuns
<1>8. r \in ended
  BY <1>1, <1>6 DEF Live
<1>a. ASSUME NEW q \in Runs, NEW j \in Slots
      PROVE  /\ ReceiptMoves(q, event[q][j], SettleAtEnd(event[q][j]))
             /\ ~Pending(SettleAtEnd(event[q][j]))
             /\ Charged(SettleAtEnd(event[q][j])) <=> Charged(event[q][j])
             /\ SettleAtEnd(event[q][j]).kind = event[q][j].kind
             /\ SettleAtEnd(event[q][j]).round = event[q][j].round
  <2>1. event[q][j] \in Event /\ Shaped(event[q][j])
    BY <1>2
  <2> QED  BY <2>1, SettleMoves
<1>9. ASSUME NEW q \in Runs \ {r}
      PROVE  /\ RecordMoves(q)
             /\ \A j \in Slots : ReceiptMoves(q, event[q][j], event'[q][j])
             /\ \A j \in Slots : /\ Charged(event'[q][j]) <=> Charged(event[q][j])
                                 /\ event'[q][j].kind = event[q][j].kind
                                 /\ event'[q][j].round = event[q][j].round
  <2>1. CASE q \in ended
    <3>1. /\ event'[q] = [j \in Slots |-> SettleAtEnd(event[q][j])]
          /\ record'[q] = [Bump(record[q], event'[q]) EXCEPT !.status = "canceled"]
          /\ record[q].status = "running"
      BY <1>5, <1>7, <2>1
    <3>2. \A j \in Slots :
            /\ ReceiptMoves(q, event[q][j], event'[q][j]) /\ ~Pending(event'[q][j])
            /\ Charged(event'[q][j]) <=> Charged(event[q][j])
            /\ event'[q][j].kind = event[q][j].kind
            /\ event'[q][j].round = event[q][j].round
      BY <3>1, <1>a
    <3>3. record[q] \in Record /\ record[q].rev \in Nat
      BY <1>2 DEF Record
    <3>4. Moved(q) /\ record'[q].status = "canceled"
      BY <3>1, <3>3, EndedFields DEF Moved, Kept
    <3> QED  BY <3>1, <3>2, <3>4 DEF RecordMoves, Ended, EndStatus
  <2>2. CASE q \notin ended
    BY <1>5, <1>7, <2>2 DEF RecordMoves, Idle, ReceiptMoves
  <2> QED  BY <2>1, <2>2
<1>10. /\ event'[r] = [j \in Slots |-> SettleAtEnd(mine[j])]
       /\ record'[r] = [Bump(recs[r], event'[r]) EXCEPT !.status = "canceled"]
  BY <1>5, <1>7, <1>8
<1>11. event'[r][i] = f /\ \A j \in Slots \ {i} : event'[r][j] = SettleAtEnd(event[r][j])
  <2>1. SettleAtEnd(f) = f
    BY <1>3 DEF SettleAtEnd
  <2> QED  BY <1>4, <1>10, <2>1
<1>12. \A j \in Slots : ReceiptMoves(r, event[r][j], event'[r][j]) /\ ~Pending(event'[r][j])
  <2>1. ReceiptMoves(r, event[r][i], f) /\ ~Pending(f)
    BY <1>1, <1>3 DEF ReceiptMoves, Resolved, Pending
  <2> QED  BY <1>11, <1>a, <2>1
<1>13. Ended(r)
  <2>1. recs[r].rev \in Nat
    BY <1>2, <1>6
  <2>2. Moved(r) /\ record'[r].status = "canceled"
    BY <1>2, <1>6, <1>10, <2>1, EndedFields DEF Moved, Kept
  <2> QED  BY <1>1, <1>12, <2>2 DEF Ended, EndStatus, Live
<1>14. Frugal(r) /\ Single(r)
  <2>1. \A j \in Slots \ {i} : /\ Charged(event'[r][j]) <=> Charged(event[r][j])
                               /\ event'[r][j].kind = event[r][j].kind
                               /\ event'[r][j].round = event[r][j].round
    BY <1>11, <1>a
  <2>2. Frugal(r)
    BY <1>1, <2>1 DEF Frugal, Charges
  <2>3. Single(r)
    <3>1. \A j \in Slots : /\ event'[r][j].kind = event[r][j].kind
                           /\ event'[r][j].round = event[r][j].round
      <4>1. f.kind = event[r][i].kind /\ f.round = event[r][i].round
        BY <1>1, <1>3
      <4>2. \A j \in Slots \ {i} : /\ event'[r][j].kind = event[r][j].kind
                                   /\ event'[r][j].round = event[r][j].round
        BY <2>1
      <4>3. event'[r][i] = f
        BY <1>11
      <4> QED  BY <4>1, <4>2, <4>3
    <3> QED  BY <3>1 DEF Single, OfRound
  <2> QED  BY <2>2, <2>3
<1>15. \A q \in Runs \ {r} : Frugal(q) /\ Single(q)
  BY <1>9 DEF Frugal, Single, Charges, OfRound
<1> QED  BY <1>9, <1>12, <1>13, <1>14, <1>15 DEF Moves, RecordMoves, Thrifty

LEMMA ReceiptActionMoves == Core /\ ReceiptAction => Moves /\ Thrifty
<1> SUFFICES ASSUME Core, ReceiptAction PROVE Moves /\ Thrifty
  OBVIOUS
<1>a. \A r \in Runs, i \in Slots : event[r][i] \in Event /\ Shaped(event[r][i])
  BY DEF Core, TypeInv, TypeOK, ReceiptsOK
<1>1. CASE \E r \in Runs, n \in Rounds : BeginModelRequest(r, n)
  BY <1>1, RequestMoves
<1>2. CASE \E r \in Runs, i \in Slots, n \in 0..MaxCalls, selectable \in BOOLEAN :
             \E calls \in [1..n -> Calls] : RecordModelTurn(r, i, calls, selectable)
  BY <1>2, TurnMoves
<1>3. ASSUME NEW r \in Runs, NEW i \in Slots, MarkToolDispatched(r, i)
      PROVE  Moves /\ Thrifty
  <2> DEFINE f == [event[r][i] EXCEPT !.phase = "dispatched"]
  <2>1. /\ Write(r, [event[r] EXCEPT ![i].phase = "dispatched"]) /\ Leased(r, i) /\ Live(r)
        /\ event[r][i].phase = "prepared" /\ InBudget(event[r]) /\ MayAct(r)
        /\ event[r][i].binding = "mcp" => Granted(r, event[r][i])
    BY <1>3 DEF MarkToolDispatched, Unsent
  <2>2. /\ f.phase = "dispatched" /\ f.kind = event[r][i].kind
        /\ f.selectable = event[r][i].selectable /\ f.binding = event[r][i].binding
        /\ f.serverRev = event[r][i].serverRev
    BY <1>a, PhaseFields
  <2> HIDE DEF f
  <2>3. ~f.selectable
    BY <1>a, <2>1, <2>2 DEF Shaped
  <2>4. ReceiptMoves(r, event[r][i], f)
    BY <2>1, <2>2, <2>3 DEF ReceiptMoves, Sent, Granted, Live
  <2> QED  BY <2>1, <2>4, PhaseMoves DEF f, Phases
<1>4. CASE \E r \in Runs, i \in Slots : Perform(r, i)
  BY <1>4, QuietMoves, QuietThrifty DEF Perform
<1>5. ASSUME NEW r \in Runs, NEW i \in Slots, NEW ph \in {"notsent", "unknown"},
             Write(r, [event[r] EXCEPT ![i].phase = ph]), Leased(r, i),
             event[r][i].phase = IF ph = "notsent" THEN "prepared" ELSE "dispatched"
      PROVE  Moves /\ Thrifty
  <2> DEFINE f == [event[r][i] EXCEPT !.phase = ph]
  <2>1. f.phase = ph /\ f.kind = event[r][i].kind /\ f.selectable = event[r][i].selectable
    BY <1>a, PhaseFields
  <2> HIDE DEF f
  <2>2. ReceiptMoves(r, event[r][i], f)
    BY <1>5, <1>a, <2>1 DEF ReceiptMoves, Resolved, Shaped
  <2>3. Charged(f) => Charged(event[r][i])
    BY <1>5, <2>1 DEF Charged
  <2> QED  BY <1>5, <2>2, <2>3, PhaseMoves DEF f, Phases
<1>6. CASE \E r \in Runs, i \in Slots : RecordToolNotSent(r, i)
  BY <1>6, <1>5 DEF RecordToolNotSent, Unsent
<1>7. CASE \E r \in Runs, i \in Slots : RecordRequestUnknown(r, i)
  BY <1>7, <1>5 DEF RecordRequestUnknown
<1>8. CASE \E r \in Runs, i \in Slots, reply \in Replies : RecordToolResponse(r, i, reply)
  BY <1>8, AnswerMoves DEF RecordToolResponse
<1>9. CASE \E r \in Runs, i \in Slots : LocalCommit(r, i)
  BY <1>9, AnswerMoves DEF LocalCommit, Unsent
<1>10. CASE \E r \in Runs, i \in Slots, S \in SUBSET Scenes : ForgetWithReceipt(r, i, S)
  BY <1>10, ForgetMoves
<1> QED  BY <1>1, <1>2, <1>3, <1>4, <1>6, <1>7, <1>8, <1>9, <1>10 DEF ReceiptAction

LEMMA SceneThrifty == Core /\ SceneAction => Thrifty
<1> SUFFICES ASSUME Core, SceneAction PROVE Thrifty
  OBVIOUS
<1>1. UNCHANGED event \/ \E S, status, scs : EndRuns(S, status, scs, record, event)
  BY DEF SceneAction, BeginRun, EndRun, RevokeRuns, CloseScene, ActivateScene, LeaveScene,
         NewConversation, BeginContinuation
<1> QED  BY <1>1, QuietThrifty, EndRunsThrifty DEF Core

LEMMA StepMoves == Core /\ [Next]_vars => Moves /\ Thrifty
<1> SUFFICES ASSUME Core, [Next]_vars PROVE Moves /\ Thrifty
  OBVIOUS
<1>1. CASE SceneAction
  BY <1>1, SceneMoves, SceneThrifty
<1>2. CASE ReceiptAction
  BY <1>2, ReceiptActionMoves
<1>3. CASE ServerAction
  <2>1. \E changed : ChangeServer(changed)
    BY <1>3 DEF ServerAction, RediscoverServer, SetMcpGrants, SetMcpEnabled, RemoveMcpServer
  <2>2. Thrifty
    BY <2>1, EndRunsThrifty DEF ChangeServer, Core
  <2> QED  BY <1>3, <2>2, ServerMoves
<1>4. CASE Crash
  BY <1>4, QuietMoves, QuietThrifty DEF Crash
<1>5. CASE Open
  BY <1>5, EndRunsMoves, EndRunsThrifty DEF Open, EndStatus, Core
<1>6. CASE UNCHANGED vars
  BY <1>6, QuietMoves, QuietThrifty DEF vars
<1> QED  BY <1>1, <1>2, <1>3, <1>4, <1>5, <1>6 DEF Next

-----------------------------------------------------------------------------
(* What the moves preserve.                                                *)

LEMMA MovedReceiptsOK ==
  ASSUME Core, Moves
  PROVE  ReceiptsOK'
<1> SUFFICES ASSUME NEW r \in Runs
             PROVE  /\ Blank(r)'
                    /\ \A j \in Slots : Shaped(event[r][j])' /\ Closed(r, j)' /\ Evidence(r, j)'
  BY DEF ReceiptsOK
<1>1. /\ RecordMoves(r) /\ Blank(r)
      /\ \A j \in Slots : /\ ReceiptMoves(r, event[r][j], event'[r][j])
                          /\ Shaped(event[r][j]) /\ Closed(r, j) /\ Evidence(r, j)
  BY DEF Moves, Core, ReceiptsOK
<1>2. Blank(r)'
  BY <1>1 DEF Blank, RecordMoves, Idle, Opened, Rewritten, Ended, EndStatus
<1>3. ASSUME NEW j \in Slots
      PROVE  Shaped(event[r][j])'
  BY <1>1, <1>3 DEF Shaped, ReceiptMoves, Asked, Proposed, Sent, Resolved, ProposedPhase
<1>4. ASSUME NEW j \in Slots
      PROVE  Closed(r, j)'
  <2>1. CASE Idle(r)
    BY <1>1, <2>1 DEF Idle, Closed
  <2>2. CASE Opened(r)
    BY <2>2 DEF Opened, Closed
  <2>3. CASE Rewritten(r)
    BY <1>1, <2>3 DEF Rewritten, Closed, Pending, ReceiptMoves, Asked, Proposed, Sent,
                      Resolved, ProposedPhase
  <2>4. CASE Ended(r)
    BY <2>4 DEF Ended, Closed
  <2> QED  BY <1>1, <2>1, <2>2, <2>3, <2>4 DEF RecordMoves
<1>5. ASSUME NEW j \in Slots
      PROVE  Evidence(r, j)'
  <2>1. CASE Opened(r)
    BY <1>1, <2>1 DEF Opened, Evidence, Blank, Shaped
  <2>2. CASE Idle(r)
    BY <1>1, <2>2 DEF Idle, Evidence
  <2>3. CASE Rewritten(r) \/ Ended(r)
    <3>1. record'[r].kind = record[r].kind
      BY <2>3 DEF Rewritten, Ended, Moved, Kept
    <3> QED  BY <1>1, <3>1 DEF Evidence, ReceiptMoves, Asked, Proposed, Sent, Resolved,
                               ProposedPhase, MayAct
  <2> QED  BY <1>1, <2>1, <2>2, <2>3 DEF RecordMoves
<1> QED  BY <1>2, <1>3, <1>4, <1>5

\* A move only adds to what is settled and to what may be selected, and never
\* touches a final receipt.
LEMMA MovesAdd ==
  ASSUME Core, Moves, NEW r \in Runs
  PROVE  /\ SettledPrefix(event[r]) \subseteq SettledPrefix(event'[r])
         /\ Selectable(event[r]) \subseteq Selectable(event'[r])
         /\ \A j \in Slots : event[r][j].phase \in {"responded", "notsent"} =>
              event'[r][j] = event[r][j]
<1>1. \A j \in Slots : ReceiptMoves(r, event[r][j], event'[r][j]) /\ Shaped(event[r][j])
  BY DEF Moves, Core, ReceiptsOK
<1>2. ASSUME NEW j \in Slots
      PROVE  /\ Settled(event[r][j]) => Settled(event'[r][j])
             /\ event[r][j].phase \in {"responded", "notsent"} => event'[r][j] = event[r][j]
  BY <1>1 DEF ReceiptMoves, Asked, Proposed, Sent, Resolved, Settled
<1>3. \A j \in Slots : event[r][j].selectable => event'[r][j].selectable
  BY <1>1, <1>2 DEF Shaped
<1>4. \A i \in Slots : \A j \in 1..i : j \in Slots
  BY ConstantsAssumption DEF Slots
<1>5. SettledPrefix(event[r]) \subseteq SettledPrefix(event'[r])
  <2> HIDE DEF Slots
  <2> QED  BY <1>2, <1>4 DEF SettledPrefix
<1>6. Selectable(event[r]) \subseteq Selectable(event'[r])
  BY <1>3 DEF Selectable
<1> QED  BY <1>2, <1>5, <1>6

LEMMA MovesGrow ==
  ASSUME Core, Moves, TypeInv', NEW r \in Runs, record[r].status # "absent"
  PROVE  /\ Kept(r) /\ record'[r].status # "absent"
         /\ record'[r].rev >= record[r].rev
         /\ record[r].checkpoint \subseteq record'[r].checkpoint
         /\ event'[r] # event[r] => record'[r].rev > record[r].rev
<1>1. RecordMoves(r) /\ Covered(r) /\ record[r].rev \in Nat
  BY DEF Moves, Core, RecordsOK, TypeInv, TypeOK, Record
<1>2. CASE Idle(r)
  BY <1>1, <1>2 DEF Idle, Kept
<1>3. CASE Rewritten(r) \/ Ended(r)
  <2>1. Moved(r) /\ record'[r].status # "absent"
    BY <1>3 DEF Rewritten, Ended, EndStatus
  <2>2. record[r].checkpoint \subseteq record'[r].checkpoint
    BY <1>1, <2>1, MovesAdd DEF Covered, Moved
  <2>3. record'[r].rev \in Nat
    BY DEF TypeInv, TypeOK, Record
  <2> QED  BY <1>1, <2>1, <2>2, <2>3 DEF Moved
<1> QED  BY <1>1, <1>2, <1>3 DEF RecordMoves, Opened

LEMMA MovedRecordsOK ==
  ASSUME Core, Moves, TypeInv'
  PROVE  RecordsOK'
<1> SUFFICES ASSUME NEW r \in Runs
             PROVE  Covered(r)' /\ Sourced(r)'
  BY DEF RecordsOK
<1>1. RecordMoves(r) /\ Covered(r) /\ Sourced(r) /\ Blank(r)
  BY DEF Moves, Core, RecordsOK, ReceiptsOK
<1>2. Covered(r)'
  <2>1. CASE Opened(r)
    <3>1. \A j \in Slots : event'[r][j].phase = "absent"
      BY <1>1, <2>1 DEF Opened, Blank
    <3>2. \A i \in Slots : 1 \in 1..i /\ 1 \in Slots
      BY ConstantsAssumption DEF Slots
    <3>3. SettledPrefix(event'[r]) = {}
      BY <3>1, <3>2 DEF SettledPrefix, Settled
    <3> QED  BY <2>1, <3>3 DEF Opened, Covered
  <2>2. CASE Idle(r)
    BY <1>1, <2>2 DEF Idle, Covered
  <2>3. CASE Rewritten(r) \/ Ended(r)
    BY <2>3 DEF Rewritten, Ended, Moved, Covered
  <2> QED  BY <1>1, <2>1, <2>2, <2>3 DEF RecordMoves
<1>3. Sourced(r)'
  <2>1. CASE Opened(r)
    <3>1. CASE record'[r].kind = "continuation"
      <4>1. PICK src \in Runs \ {r} :
              /\ record'[r].source = src /\ record[src].status # "absent"
              /\ record[src].kind # "continuation"
              /\ record'[r].scene = record[src].scene
              /\ record'[r].sourceRev = record[src].rev
              /\ record'[r].sourceCheckpoint = record[src].checkpoint
              /\ record'[r].selected \subseteq Selectable(event[src])
        BY <2>1, <3>1 DEF Opened
      <4>2. /\ Kept(src) /\ record'[src].status # "absent"
            /\ record'[src].rev >= record[src].rev
            /\ record[src].checkpoint \subseteq record'[src].checkpoint
            /\ Selectable(event[src]) \subseteq Selectable(event'[src])
        BY <4>1, MovesGrow, MovesAdd
      <4>3. record[src].rev \in Nat /\ record'[src].rev \in Nat
        BY <4>1 DEF Core, TypeInv, TypeOK, Record
      <4> QED  BY <3>1, <4>1, <4>2, <4>3 DEF Kept, Sourced
    <3>2. CASE record'[r].kind # "continuation"
      BY <2>1, <3>2 DEF Opened, Sourced
    <3> QED  BY <3>1, <3>2
  <2>2. CASE ~Opened(r)
    <3>1. Kept(r)
      BY <1>1, <2>2 DEF RecordMoves, Idle, Kept, Rewritten, Ended, Moved
    <3>2. CASE record[r].kind = "continuation"
      <4> DEFINE src == record[r].source
      <4>1. /\ src \in Runs /\ record[src].status # "absent"
            /\ record[src].kind # "continuation"
            /\ record[src].scene = record[r].scene
            /\ record[r].sourceRev <= record[src].rev
            /\ record[r].sourceCheckpoint \subseteq record[src].checkpoint
            /\ record[r].selected \subseteq Selectable(event[src])
        BY <1>1, <3>2 DEF Sourced
      <4> HIDE DEF src
      <4>2. /\ Kept(src) /\ record'[src].status # "absent"
            /\ record'[src].rev >= record[src].rev
            /\ record[src].checkpoint \subseteq record'[src].checkpoint
            /\ Selectable(event[src]) \subseteq Selectable(event'[src])
        BY <4>1, MovesGrow, MovesAdd
      <4>3. record[src].rev \in Nat /\ record'[src].rev \in Nat /\ record[r].sourceRev \in Nat
        BY <4>1 DEF Core, TypeInv, TypeOK, Record
      <4>4. record'[r].source = src /\ record'[r].kind = "continuation"
        BY <3>1, <3>2 DEF Kept, src
      <4>5. record'[r].sourceRev <= record'[src].rev
        BY <3>1, <4>1, <4>2, <4>3 DEF Kept
      <4> QED  BY <3>1, <4>1, <4>2, <4>4, <4>5 DEF Kept, Sourced
    <3>3. CASE record[r].kind # "continuation"
      BY <1>1, <3>1, <3>3 DEF Kept, Sourced
    <3> QED  BY <3>2, <3>3
  <2> QED  BY <2>1, <2>2
<1> QED  BY <1>2, <1>3

-----------------------------------------------------------------------------
(* The scenes and the records agree on what is running.                    *)

ScenesAgree == ScenesPlaced /\ RunningAgrees

\* A transaction that leaves the scenes, and the scene and status of every record.
LEMMA SteadyAgrees ==
  ASSUME Core, UNCHANGED scenes,
         \A r \in Runs : /\ record'[r].status = record[r].status
                         /\ record'[r].scene = record[r].scene
  PROVE  ScenesAgree'
BY DEF Core, ScenesAgree, ScenesPlaced, RunningAgrees, Running, Live

LEMMA WriteAgrees ==
  ASSUME Core, NEW r \in Runs, NEW evs, Write(r, evs)
  PROVE  ScenesAgree'
<1>1. record[r] \in Record /\ record \in [Runs -> Record]
  BY DEF Core, TypeInv, TypeOK
<1>2. record' = [record EXCEPT ![r] = Bump(record[r], evs)] /\ UNCHANGED scenes
  BY DEF Write
<1>3. Bump(record[r], evs).status = record[r].status
      /\ Bump(record[r], evs).scene = record[r].scene
  BY <1>1, BumpFields
<1>4. \A q \in Runs : /\ record'[q].status = record[q].status
                      /\ record'[q].scene = record[q].scene
  BY <1>1, <1>2, <1>3
<1> QED  BY <1>2, <1>4, SteadyAgrees

\* A scene that is not running may also be closed, or be closed as its run ends.
LEMMA EndRunsAgrees ==
  ASSUME Core, NEW S \in SUBSET Scenes, NEW status \in EndStatus,
         NEW scs \in [Scenes -> SceneState], NEW recs \in [Runs -> Record], NEW evs,
         EndRuns(S, status, scs, recs, evs),
         \A s \in Scenes : /\ scs[s].run = scenes[s].run
                           /\ scs[s].status = scenes[s].status
                           /\ s \notin S /\ Running(s) => scs[s].closed = scenes[s].closed,
         \A r \in Runs : recs[r].status = record[r].status /\ recs[r].scene = record[r].scene
  PROVE  ScenesAgree'
<1> DEFINE ended == {r \in Runs : recs[r].status = "running" /\ \E s \in S : scs[s].run = r}
<1>1. scenes' = [s \in Scenes |-> IF s \in S THEN [scs[s] EXCEPT !.status = status]
                                             ELSE scs[s]]
  BY DEF EndRuns
<1>2. \A s \in Scenes : scs[s] \in SceneState
  OBVIOUS
<1>3. \A s \in Scenes : /\ scenes'[s].run = scenes[s].run
                        /\ s \in S => scenes'[s].status = status
                        /\ s \notin S => scenes'[s] = scs[s]
  BY <1>1, <1>2 DEF SceneState
<1>4. \A r \in Runs : /\ record'[r].scene = record[r].scene
                      /\ r \in ended => record'[r].status = status
                      /\ r \notin ended => record'[r].status = record[r].status
  <2> SUFFICES ASSUME NEW r \in Runs
               PROVE  /\ record'[r].scene = record[r].scene
                      /\ r \in ended => record'[r].status = status
                      /\ r \notin ended => record'[r].status = record[r].status
    OBVIOUS
  <2>1. CASE r \in ended
    <3>1. \E new : record'[r] = [Bump(recs[r], new) EXCEPT !.status = status]
      BY <2>1 DEF EndRuns
    <3> QED  BY <2>1, <3>1, EndedFields
  <2>2. CASE r \notin ended
    <3>1. record'[r] = recs[r]
      BY <2>2 DEF EndRuns
    <3> QED  BY <2>2, <3>1
  <2> QED  BY <2>1, <2>2
<1>5. ScenesPlaced'
  <2>1. status # "absent"
    BY DEF EndStatus
  <2> HIDE DEF ended
  <2> QED  BY <1>3, <1>4, <2>1 DEF Core, ScenesPlaced
<1>6. ASSUME NEW s \in Scenes, Running(s)'
      PROVE  /\ ~scenes'[s].closed /\ scenes'[s].run \in Runs
             /\ record'[scenes'[s].run].scene = s
             /\ record'[scenes'[s].run].status = "running"
  <2>1. s \notin S /\ Running(s)
    BY <1>3, <1>6 DEF Running, EndStatus
  <2>2. /\ ~scenes[s].closed /\ scenes[s].run \in Runs
        /\ record[scenes[s].run].scene = s /\ record[scenes[s].run].status = "running"
    BY <2>1 DEF Core, RunningAgrees
  <2>3. scenes[s].run \notin ended
    <3> SUFFICES ASSUME NEW z \in S, scs[z].run = scenes[s].run PROVE FALSE
      OBVIOUS
    <3>1. record[scenes[s].run].scene = z
      BY <2>2 DEF Core, ScenesPlaced
    <3> QED  BY <2>1, <2>2, <3>1
  <2> HIDE DEF ended
  <2> QED  BY <1>3, <1>4, <2>1, <2>2, <2>3
<1>7. ASSUME NEW r \in Runs, record'[r].status = "running"
      PROVE  Live(r)'
  <2>1. r \notin ended /\ record[r].status = "running"
    BY <1>4, <1>7 DEF EndStatus
  <2>2. Live(r) /\ record[r].scene \in Scenes
    BY <2>1 DEF Core, RunningAgrees, TypeInv, RecordsPlaced
  <2>3. record[r].scene \notin S
    BY <2>1, <2>2 DEF Live
  <2> HIDE DEF ended
  <2> QED  BY <1>3, <1>4, <1>7, <2>2, <2>3 DEF Live, Running
<1> HIDE DEF ended
<1> QED  BY <1>5, <1>6, <1>7 DEF ScenesAgree, RunningAgrees

\* The same for the operations that end runs and do nothing else.
LEMMA EndRunsPlainAgrees ==
  ASSUME Core, NEW S \in SUBSET Scenes, NEW status \in EndStatus,
         EndRuns(S, status, scenes, record, event)
  PROVE  ScenesAgree'
<1>1. scenes \in [Scenes -> SceneState] /\ record \in [Runs -> Record]
  BY DEF Core, TypeInv, TypeOK
<1> QED  BY <1>1, EndRunsAgrees

\* A new run in a scene where none is running.
LEMMA OccupyAgrees ==
  ASSUME Core, NEW s \in Scenes, NEW new \in Runs, NEW rec,
         ~scenes[s].closed, ~Running(s), record[new].status = "absent",
         scenes' = [scenes EXCEPT ![s] = Occupied(@, new)],
         record' = [record EXCEPT ![new] = rec],
         rec.status = "running", rec.scene = s
  PROVE  ScenesAgree'
<1>1. scenes \in [Scenes -> SceneState] /\ record \in [Runs -> Record]
  BY DEF Core, TypeInv, TypeOK
<1>2. /\ scenes'[s].run = new /\ scenes'[s].status = "running"
      /\ scenes'[s].closed = scenes[s].closed
      /\ \A z \in Scenes \ {s} : scenes'[z] = scenes[z]
  BY <1>1 DEF Occupied, SceneState
<1>3. record'[new] = rec /\ \A r \in Runs \ {new} : record'[r] = record[r]
  BY <1>1
<1>4. \A z \in Scenes \ {s} : scenes[z].run # new
  BY DEF Core, ScenesPlaced
<1>5. ScenesPlaced'
  BY <1>2, <1>3, <1>4 DEF Core, ScenesPlaced
<1>6. \A z \in Scenes : Running(z)' => /\ ~scenes'[z].closed /\ scenes'[z].run \in Runs
                                       /\ record'[scenes'[z].run].scene = z
                                       /\ record'[scenes'[z].run].status = "running"
  BY <1>2, <1>3, <1>4 DEF Core, RunningAgrees, Running
<1>7. \A r \in Runs : record'[r].status = "running" => Live(r)'
  BY <1>2, <1>3 DEF Core, RunningAgrees, Running, Live
<1> QED  BY <1>5, <1>6, <1>7 DEF ScenesAgree, RunningAgrees

LEMMA SceneActionAgrees == Core /\ SceneAction => ScenesAgree'
<1> SUFFICES ASSUME Core, SceneAction PROVE ScenesAgree'
  OBVIOUS
<1>a. /\ scenes \in [Scenes -> SceneState] /\ record \in [Runs -> Record]
      /\ ScenesPlaced /\ RunningAgrees
  BY DEF Core, TypeInv, TypeOK
<1>1. ASSUME NEW s \in Scenes, NEW r \in Runs, NEW k \in StartKinds, BeginRun(s, r, k)
      PROVE  ScenesAgree'
  <2> DEFINE rec == NewRecord(s, k)
  <2>1. rec.status = "running" /\ rec.scene = s
    BY NewRecordFields
  <2>2. /\ ~scenes[s].closed /\ ~Running(s) /\ record[r].status = "absent"
        /\ scenes' = [scenes EXCEPT ![s] = Occupied(@, r)]
        /\ record' = [record EXCEPT ![r] = rec]
    BY <1>1 DEF BeginRun
  <2> HIDE DEF rec
  <2> QED  BY <2>1, <2>2, OccupyAgrees
<1>2. ASSUME NEW s \in Scenes, NEW status \in Endings, EndRun(s, status)
      PROVE  ScenesAgree'
  <2>1. EndRuns({s}, status, scenes, record, event) /\ status \in EndStatus
    BY <1>2, ConstantsAssumption DEF EndRun, EndStatus
  <2> QED  BY <2>1, EndRunsPlainAgrees
<1>3. CASE \E S \in SUBSET Scenes : RevokeRuns(S)
  BY <1>3, EndRunsPlainAgrees DEF RevokeRuns, EndStatus
<1>4. ASSUME NEW s \in Scenes, CloseScene(s)
      PROVE  ScenesAgree'
  <2> DEFINE scs == [scenes EXCEPT ![s].closed = TRUE]
  <2>1. EndRuns(RunsOf(s), "canceled", scs, record, event) /\ "canceled" \in EndStatus
    BY <1>4 DEF CloseScene, EndStatus
  <2>2. scs \in [Scenes -> SceneState] /\ RunsOf(s) \in SUBSET Scenes
    BY <1>a DEF SceneState, RunsOf
  <2>3. \A z \in Scenes :
          /\ scs[z].run = scenes[z].run
          /\ scs[z].status = scenes[z].status
          /\ z \notin RunsOf(s) /\ Running(z) => scs[z].closed = scenes[z].closed
    BY <1>a DEF SceneState, RunsOf, Running
  <2> HIDE DEF scs
  <2> QED  BY <1>a, <2>1, <2>2, <2>3, EndRunsAgrees
<1>5. ASSUME NEW s \in Scenes, ActivateScene(s)
      PROVE  ScenesAgree'
  <2>1. \A z \in Scenes : /\ scenes'[z].run = scenes[z].run
                          /\ scenes'[z].status = scenes[z].status
                          /\ scenes'[z].closed => scenes[z].closed
    BY <1>5, <1>a DEF ActivateScene, SceneState
  <2>2. UNCHANGED record
    BY <1>5 DEF ActivateScene
  <2>3. \A r \in Runs : record[r].status = "running" => record[r].scene \in Scenes
    BY DEF Core, TypeInv, RecordsPlaced
  <2> QED  BY <1>a, <2>1, <2>2, <2>3 DEF ScenesAgree, ScenesPlaced, RunningAgrees, Running, Live
<1>6. CASE LeaveScene
  BY <1>6, SteadyAgrees DEF LeaveScene
<1>7. ASSUME NEW s \in Scenes, NewConversation(s)
      PROVE  ScenesAgree'
  <2>1. /\ scenes'[s].run = NoRun /\ scenes'[s].status = "none"
        /\ \A z \in Scenes \ {s} : scenes'[z] = scenes[z]
        /\ ~Running(s) /\ UNCHANGED record
    BY <1>7, <1>a DEF NewConversation, Emptied, SceneState
  <2>2. NoRun \notin Runs
    BY ConstantsAssumption
  <2>3. ScenesPlaced'
    BY <1>a, <2>1, <2>2 DEF ScenesPlaced
  <2>4. \A r \in Runs : record[r].status = "running" => record[r].scene \in Scenes \ {s}
    BY <1>a, <2>1 DEF Core, TypeInv, RecordsPlaced, RunningAgrees, Live
  <2>5. RunningAgrees'
    BY <1>a, <2>1, <2>4 DEF RunningAgrees, Running, Live
  <2> QED  BY <2>3, <2>5 DEF ScenesAgree
<1>8. ASSUME NEW from \in Runs, NEW new \in Runs, NEW selected \in SUBSET Slots,
             BeginContinuation(from, new, selected)
      PROVE  ScenesAgree'
  <2> DEFINE src == Canonical(from)
             s == record[src].scene
             base == NewRecord(s, "continuation")
             rec == [base EXCEPT !.source = src, !.sourceRev = record[src].rev,
                                 !.sourceCheckpoint = record[src].checkpoint,
                                 !.selected = selected]
  <2>1. /\ ~scenes[s].closed /\ ~Running(s) /\ record[new].status = "absent"
        /\ scenes' = [scenes EXCEPT ![s] = Occupied(@, new)]
        /\ record' = [record EXCEPT ![new] = rec]
        /\ record[src].status \in EndStatus
    BY <1>8 DEF BeginContinuation, Continuable
  <2>2. src \in Runs
    BY DEF Canonical, Core, TypeInv, TypeOK, Record
  <2>3. s \in Scenes
    BY <2>1, <2>2 DEF Core, TypeInv, RecordsPlaced, EndStatus
  <2>4. base \in Record /\ base.status = "running" /\ base.scene = s
    BY <2>3, NewRecordType, NewRecordFields DEF Kinds
  <2> HIDE DEF base, src
  <2>5. rec.status = "running" /\ rec.scene = s
    BY <2>4 DEF Record
  <2> HIDE DEF rec, s
  <2> QED  BY <2>1, <2>3, <2>5, OccupyAgrees
<1> QED  BY <1>1, <1>2, <1>3, <1>4, <1>5, <1>6, <1>7, <1>8 DEF SceneAction

LEMMA ForgetAgrees ==
  ASSUME Core, NEW r \in Runs, NEW i \in Slots, NEW S \in SUBSET Scenes,
         ForgetWithReceipt(r, i, S)
  PROVE  ScenesAgree'
<1> DEFINE mine == [event[r] EXCEPT ![i] = Answered(event[r][i], LocalResult)]
           recs == [record EXCEPT ![r] = Bump(record[r], mine)]
           evs == [event EXCEPT ![r] = mine]
<1>1. EndRuns(S, "canceled", scenes, recs, evs) /\ "canceled" \in EndStatus
  BY DEF ForgetWithReceipt, EndStatus
<1>2. /\ scenes \in [Scenes -> SceneState] /\ record \in [Runs -> Record]
      /\ record[r] \in Record
  BY DEF Core, TypeInv, TypeOK
<1> HIDE DEF mine
<1>3. /\ Bump(record[r], mine) \in Record
      /\ Bump(record[r], mine).status = record[r].status
      /\ Bump(record[r], mine).scene = record[r].scene
  BY <1>2, BumpType
<1>4. /\ recs \in [Runs -> Record]
      /\ \A q \in Runs : recs[q].status = record[q].status /\ recs[q].scene = record[q].scene
  BY <1>2, <1>3
<1> HIDE DEF recs, evs
<1> QED  BY <1>1, <1>2, <1>4, EndRunsAgrees

LEMMA StepAgrees == Core /\ [Next]_vars => ScenesAgree'
<1> SUFFICES ASSUME Core, [Next]_vars PROVE ScenesAgree'
  OBVIOUS
<1>1. CASE SceneAction
  BY <1>1, SceneActionAgrees
<1>2. CASE ReceiptAction
  <2>1. \/ \E r \in Runs : \E evs : Write(r, evs)
        \/ UNCHANGED <<scenes, record>>
        \/ \E r \in Runs, i \in Slots, S \in SUBSET Scenes : ForgetWithReceipt(r, i, S)
    BY <1>2 DEF ReceiptAction, BeginModelRequest, RecordModelTurn, MarkToolDispatched, Perform,
                RecordToolNotSent, RecordRequestUnknown, RecordToolResponse, LocalCommit
  <2> QED  BY <2>1, WriteAgrees, SteadyAgrees, ForgetAgrees
<1>3. CASE ServerAction
  <2>1. \E changed : ChangeServer(changed)
    BY <1>3 DEF ServerAction, RediscoverServer, SetMcpGrants, SetMcpEnabled, RemoveMcpServer
  <2> QED  BY <2>1, EndRunsPlainAgrees DEF ChangeServer, Relying, EndStatus
<1>4. CASE Crash
  BY <1>4, SteadyAgrees DEF Crash
<1>5. CASE Open
  BY <1>5, EndRunsPlainAgrees DEF Open, EndStatus
<1>6. CASE UNCHANGED vars
  BY <1>6, SteadyAgrees DEF vars
<1> QED  BY <1>1, <1>2, <1>3, <1>4, <1>5, <1>6 DEF Next

-----------------------------------------------------------------------------
(* The inductive invariant.                                                *)

LEMMA CoreInit == Init => Core
<1> SUFFICES ASSUME Init PROVE Core
  OBVIOUS
<1>1. TypeInv
  BY TypeInit
<1>2. \A r \in Runs, j \in Slots : event[r][j] = NoEvent /\ record[r] = NoRecord
  BY DEF Init
<1>3. ReceiptsOK
  BY <1>2 DEF ReceiptsOK, Blank, Shaped, Closed, Evidence, NoEvent, Pending
<1>4. RecordsOK
  <2>1. \A i \in Slots : 1 \in 1..i /\ 1 \in Slots
    BY ConstantsAssumption DEF Slots
  <2>2. \A r \in Runs : SettledPrefix(event[r]) = {}
    BY <1>2, <2>1 DEF SettledPrefix, Settled, NoEvent
  <2>3. \A r \in Runs : record[r] = NoRecord
    BY DEF Init
  <2> QED  BY <2>2, <2>3 DEF RecordsOK, Covered, Sourced, NoRecord
<1>5. ScenesPlaced /\ RunningAgrees
  BY ConstantsAssumption DEF Init, ScenesPlaced, RunningAgrees, Running, NoRecord
<1> QED  BY <1>1, <1>3, <1>4, <1>5 DEF Core

LEMMA CoreStep == Core /\ [Next]_vars => Core'
<1> SUFFICES ASSUME Core, [Next]_vars PROVE Core'
  OBVIOUS
<1>1. TypeInv'
  BY TypeStep DEF Core
<1>2. Moves
  BY StepMoves
<1> QED  BY <1>1, <1>2, MovedReceiptsOK, MovedRecordsOK, StepAgrees DEF Core, ScenesAgree

LEMMA CoreAlways == Spec => []Core
BY CoreInit, CoreStep, PTL DEF Spec

\* A receipt is open only while its run is, and the stored checkpoint is exactly
\* the settled prefix: journal.rs validate() never refuses a database this code
\* has written.
THEOREM JournalAlwaysValid == Spec => []JournalValid
<1>1. Core => JournalValid
  BY DEF Core, ReceiptsOK, RecordsOK, Closed, Covered, JournalValid
<1> QED  BY <1>1, CoreAlways, PTL

\* The scene's run and the journal's record never disagree on what is running.
THEOREM RunningAlwaysAgrees == Spec => []RunningAgrees
<1>1. Core => RunningAgrees
  BY DEF Core
<1> QED  BY <1>1, CoreAlways, PTL

\* No call a continuation proposes is ever dispatched.
THEOREM ContinuationsNeverAct == Spec => []ContinuationNeverActs
<1>1. Core => ContinuationNeverActs
  BY DEF Core, ReceiptsOK, Evidence, ContinuationNeverActs
<1> QED  BY <1>1, CoreAlways, PTL

\* What a continuation was built from stays true of its source, whatever late
\* answers the source still receives.
THEOREM ProvenanceStays == Spec => []ProvenanceValid
<1>1. Core => ProvenanceValid
  BY DEF Core, RecordsOK, Sourced, ProvenanceValid
<1> QED  BY <1>1, CoreAlways, PTL

\* Rewriting receipts moves the revision, a checkpoint never loses what it
\* covered, and a final receipt is never touched again.
THEOREM JournalOnlyGrows == Spec => JournalMonotone
<1>1. ASSUME Core, [Next]_vars, NEW r \in Runs
      PROVE  /\ event'[r] # event[r] => record'[r].rev > record[r].rev
             /\ record[r].checkpoint \subseteq record'[r].checkpoint
             /\ \A i \in Slots : event[r][i].phase \in {"responded", "notsent"} =>
                  event'[r][i] = event[r][i]
  <2>1. Moves /\ Core' /\ TypeInv'
    BY <1>1, StepMoves, CoreStep DEF Core
  <2>2. CASE record[r].status # "absent"
    BY <1>1, <2>1, <2>2, MovesGrow, MovesAdd
  <2>3. CASE record[r].status = "absent"
    <3>1. event'[r] = event[r]
      BY <2>1, <2>3 DEF Moves, RecordMoves, Idle, Opened, Rewritten, Ended
    <3>2. Covered(r) /\ Covered(r)'
      BY <1>1, <2>1 DEF Core, RecordsOK
    <3> QED  BY <3>1, <3>2 DEF Covered
  <2> QED  BY <2>2, <2>3
<1>2. Core /\ [Next]_vars =>
        [\A r \in Runs :
           /\ event'[r] # event[r] => record'[r].rev > record[r].rev
           /\ record[r].checkpoint \subseteq record'[r].checkpoint
           /\ \A i \in Slots : event[r][i].phase \in {"responded", "notsent"} =>
                event'[r][i] = event[r][i]]_vars
  BY <1>1
<1> QED  BY <1>2, CoreAlways, PTL DEF Spec, JournalMonotone

-----------------------------------------------------------------------------
(* The limits on requests.                                                 *)

LEMMA BudgetInit == Init => WithinBudget
<1> SUFFICES ASSUME Init PROVE WithinBudget
  OBVIOUS
<1>1. \A r \in Runs, j \in Slots : event[r][j] = NoEvent
  BY DEF Init
<1>2. \A r \in Runs : {i \in Slots : Charged(event[r][i])} = {}
  BY <1>1 DEF Charged, NoEvent
<1>3. Cardinality({}) = 0 /\ ToolBudget >= 0
  BY FS_EmptySet, ConstantsAssumption
<1> QED  BY <1>1, <1>2, <1>3 DEF WithinBudget, NoEvent

LEMMA BudgetStep ==
  ASSUME Thrifty, WithinBudget
  PROVE  WithinBudget'
<1> SUFFICES ASSUME NEW r \in Runs
             PROVE  /\ Cardinality(Charges(event'[r])) <= ToolBudget
                    /\ \A i, j \in Slots :
                         event'[r][i].kind = "model" /\ event'[r][j].kind = "model"
                           /\ event'[r][i].round = event'[r][j].round => i = j
  BY DEF WithinBudget, Charges
<1>1. IsFiniteSet(Slots)
  BY FS_Interval, ConstantsAssumption DEF Slots
<1>2. /\ IsFiniteSet(Charges(event[r])) /\ Cardinality(Charges(event[r])) \in Nat
      /\ IsFiniteSet(Charges(event'[r])) /\ Cardinality(Charges(event'[r])) \in Nat
  BY <1>1, FS_Subset, FS_CardinalityType DEF Charges
<1>3. Cardinality(Charges(event[r])) <= ToolBudget /\ ToolBudget \in Nat
  BY ConstantsAssumption DEF WithinBudget, Charges
<1>4. Cardinality(Charges(event'[r])) <= ToolBudget
  <2>1. CASE Charges(event'[r]) \subseteq Charges(event[r])
    <3>1. Cardinality(Charges(event'[r])) <= Cardinality(Charges(event[r]))
      BY <1>2, <2>1, FS_Subset
    <3> QED  BY <1>2, <1>3, <3>1
  <2>2. ASSUME InBudget(event[r]), NEW i \in Slots,
               Charges(event'[r]) \subseteq Charges(event[r]) \cup {i}
        PROVE  Cardinality(Charges(event'[r])) <= ToolBudget
    <3>1. Cardinality(Charges(event[r])) < ToolBudget
      BY <2>2 DEF InBudget, ChargedCalls, Charges
    <3>2. /\ IsFiniteSet(Charges(event[r]) \cup {i})
          /\ Cardinality(Charges(event[r]) \cup {i}) <= Cardinality(Charges(event[r])) + 1
          /\ Cardinality(Charges(event[r]) \cup {i}) \in Nat
      <4> DEFINE old == Charges(event[r])
      <4>1. IsFiniteSet(old) /\ Cardinality(old) \in Nat
        BY <1>2
      <4> HIDE DEF old
      <4>2. /\ IsFiniteSet(old \cup {i})
            /\ Cardinality(old \cup {i}) =
                 IF i \in old THEN Cardinality(old) ELSE Cardinality(old) + 1
        BY <4>1, FS_AddElement
      <4>3. /\ Cardinality(old \cup {i}) <= Cardinality(old) + 1
            /\ Cardinality(old \cup {i}) \in Nat
        BY <4>1, <4>2
      <4> QED  BY <4>2, <4>3 DEF old
    <3>3. Cardinality(Charges(event'[r])) <= Cardinality(Charges(event[r]) \cup {i})
      BY <2>2, <3>2, FS_Subset
    <3> QED  BY <1>2, <1>3, <3>1, <3>2, <3>3
  <2> QED  BY <2>1, <2>2 DEF Thrifty, Frugal
<1>5. ASSUME NEW i \in Slots, NEW j \in Slots,
             event'[r][i].kind = "model", event'[r][j].kind = "model",
             event'[r][i].round = event'[r][j].round
      PROVE  i = j
  <2> DEFINE n == event'[r][i].round
  <2>1. OfRound(event'[r][i], n) /\ OfRound(event'[r][j], n)
    BY <1>5 DEF OfRound
  <2> HIDE DEF n
  <2>2. OfRound(event[r][i], n) /\ OfRound(event[r][j], n) => i = j
    BY DEF OfRound, WithinBudget
  <2>3. CASE \A k \in Slots : \A m : OfRound(event'[r][k], m) => OfRound(event[r][k], m)
    BY <2>1, <2>2, <2>3
  <2>4. CASE \E k \in Slots : \A l \in Slots \ {k} :
               /\ event'[r][l] = event[r][l]
               /\ \A m : OfRound(event'[r][k], m) => ~OfRound(event[r][l], m)
    BY <2>1, <2>2, <2>4
  <2> QED  BY <2>3, <2>4 DEF Thrifty, Single
<1> QED  BY <1>4, <1>5

\* At most the budget of tool calls may have been sent in a run, and at most one
\* model request per round.
THEOREM BudgetHolds == Spec => []WithinBudget
<1>1. Core /\ WithinBudget /\ [Next]_vars => WithinBudget'
  BY StepMoves, BudgetStep
<1> QED  BY <1>1, BudgetInit, CoreAlways, PTL DEF Spec

-----------------------------------------------------------------------------
(* Changes of the MCP server's registration.                               *)

LEMMA GrantStep ==
  ASSUME Core, NoCallUnderOldGrant, [Next]_vars
  PROVE  NoCallUnderOldGrant'
<1> SUFFICES ASSUME NEW r \in Runs, NEW i \in Slots, record'[r].status = "running",
                    event'[r][i].phase = "dispatched", event'[r][i].binding = "mcp"
             PROVE  Granted(r, event[r][i])'
  BY DEF NoCallUnderOldGrant
<1>1. /\ RecordMoves(r) /\ ReceiptMoves(r, event[r][i], event'[r][i])
      /\ Blank(r)
  BY StepMoves DEF Moves, Core, ReceiptsOK
<1>2. record[r].status = "running" /\ record'[r].scene = record[r].scene
  <2>1. ~Opened(r)
    BY <1>1 DEF Opened, Blank
  <2> QED  BY <1>1, <2>1 DEF RecordMoves, Idle, Rewritten, Ended, Moved, Kept, EndStatus
<1>3. Granted(r, event'[r][i])
  <2>1. CASE event'[r][i] = event[r][i]
    BY <1>2, <2>1 DEF NoCallUnderOldGrant
  <2>2. CASE event'[r][i] # event[r][i]
    BY <1>1, <2>2 DEF ReceiptMoves, Asked, Proposed, Sent, Resolved, ProposedPhase
  <2> QED  BY <2>1, <2>2
<1>4. CASE server' = server
  BY <1>2, <1>3, <1>4 DEF Granted
<1>5. CASE server' # server
  <2>a. SceneAction => UNCHANGED server
    BY DEF SceneAction, BeginRun, EndRun, RevokeRuns, CloseScene, ActivateScene, LeaveScene,
           NewConversation, BeginContinuation
  <2>b. ReceiptAction => UNCHANGED server
    <3>1. \A q, evs : Write(q, evs) => UNCHANGED server
      BY DEF Write
    <3> QED  BY <3>1, ZenonT(60) DEF ReceiptAction, BeginModelRequest, RecordModelTurn, MarkToolDispatched,
                         Perform, RecordToolNotSent, RecordRequestUnknown, RecordToolResponse,
                         LocalCommit, ForgetWithReceipt
  <2>c. Crash \/ Open \/ UNCHANGED vars => UNCHANGED server
    BY DEF Crash, Open, vars
  <2>d. ServerAction => \E changed : ChangeServer(changed)
    BY DEF ServerAction, RediscoverServer, SetMcpGrants, SetMcpEnabled, RemoveMcpServer
  <2>1. PICK changed : ChangeServer(changed)
    BY <1>5, <2>a, <2>b, <2>c, <2>d DEF Next
  <2>2. EndRuns(Relying(changed), "canceled", scenes, record, event)
    BY <2>1 DEF ChangeServer
  <2>3. Live(r) /\ record[r].scene \in Scenes
    BY <1>2 DEF Core, RunningAgrees, TypeInv, RecordsPlaced
  <2>4. record[r].scene \in Relying(changed)
    BY <1>3, <2>3 DEF Granted, Relying, Live
  <2>5. r \in EndedBy(Relying(changed), scenes)
    BY <1>2, <2>3, <2>4 DEF EndedBy, Live
  <2>6. \E new : record'[r] = [Bump(record[r], new) EXCEPT !.status = "canceled"]
    BY <2>2, <2>5, EndRunsRecords DEF Core
  <2>7. record[r] \in Record
    BY DEF Core, TypeInv, TypeOK
  <2>8. record'[r].status = "canceled"
    BY <2>6, <2>7, EndedFields
  <2> QED  BY <2>8
<1> QED  BY <1>4, <1>5

\* While a call to the MCP server is in flight for a live run, the registration
\* it was granted under is still in force: every change of the registration
\* canceled the runs that relied on it, in the same transaction.
THEOREM GrantsInForce == Spec => []NoCallUnderOldGrant
<1>1. Init => NoCallUnderOldGrant
  BY DEF Init, NoCallUnderOldGrant, NoRecord
<1>2. Core /\ NoCallUnderOldGrant /\ [Next]_vars => NoCallUnderOldGrant'
  BY GrantStep
<1> QED  BY <1>1, <1>2, CoreAlways, PTL DEF Spec

-----------------------------------------------------------------------------
(* The trace shown to the user.                                            *)

\* A run with a tool receipt is recorded in a scene.
LEMMA ToolPlaced ==
  ASSUME Core, NEW r \in Runs, NEW i \in Slots, event[r][i].kind = "tool"
  PROVE  record[r].status # "absent" /\ record[r].scene \in Scenes
BY DEF Core, ReceiptsOK, Blank, Shaped, TypeInv, RecordsPlaced

LEMMA SyncTool ==
  ASSUME NEW steps, NEW evs, NEW which, NEW i \in Slots, evs[i].kind = "tool"
  PROVE  Sync(steps, evs, which)[i] = IF i \in which THEN StatusOf(evs[i]) ELSE steps[i]
BY DEF Sync

\* The trace of one receipt agrees with it.
Shown(r, i) ==
  event[r][i].kind = "tool" =>
    /\ scenes[record[r].scene].run = r => liveSteps[record[r].scene][i] = StatusOf(event[r][i])
    /\ record[r].status \in EndStatus => toolSteps[r][i] = StatusOf(event[r][i])

LEMMA WriteShown ==
  ASSUME Core, TraceAgrees, NEW r \in Runs, NEW evs \in [Slots -> Event], Write(r, evs),
         record[r].status # "absent",
         NEW q \in Runs, NEW i \in Slots
  PROVE  Shown(q, i)'
<1> DEFINE s == record[r].scene
           changed == {k \in Slots : evs[k] # event[r][k]}
           live == Sync(liveSteps[s], evs, changed)
           kept == Sync(toolSteps[r], evs, changed)
<1>a. /\ record \in [Runs -> Record] /\ event \in [Runs -> [Slots -> Event]]
      /\ liveSteps \in [Scenes -> [Slots -> StepStatus]]
      /\ toolSteps \in [Runs -> [Slots -> StepStatus]]
      /\ s \in Scenes /\ record[r] \in Record
  BY DEF Core, TypeInv, TypeOK, RecordsPlaced
<1>b. Shown(q, i)
  BY DEF TraceAgrees, Shown
<1>1. /\ event' = [event EXCEPT ![r] = evs] /\ UNCHANGED scenes
      /\ record' = [record EXCEPT ![r] = Bump(record[r], evs)]
      /\ liveSteps' = IF scenes[s].run = r THEN [liveSteps EXCEPT ![s] = live] ELSE liveSteps
      /\ toolSteps' = IF Archived(r) THEN [toolSteps EXCEPT ![r] = kept] ELSE toolSteps
  BY DEF Write
<1>2. Bump(record[r], evs).scene = s /\ Bump(record[r], evs).status = record[r].status
  BY <1>a, BumpFields
<1> HIDE DEF s, live, kept
<1>3. CASE q # r
  <2>1. event'[q] = event[q] /\ record'[q] = record[q] /\ toolSteps'[q] = toolSteps[q]
    BY <1>1, <1>3, <1>a
  <2>2. ASSUME event[q][i].kind = "tool", scenes[record[q].scene].run = q
        PROVE  liveSteps'[record[q].scene] = liveSteps[record[q].scene]
    <3>1. record[q].scene \in Scenes
      BY <2>2, ToolPlaced
    <3> QED  BY <1>1, <1>3, <1>a, <2>2, <3>1
  <2> QED  BY <1>1, <1>b, <2>1, <2>2 DEF Shown
<1>4. CASE q = r
  <2>1. /\ event'[r] = evs /\ record'[r].scene = s /\ record'[r].status = record[r].status
    BY <1>1, <1>2, <1>a
  <2>2. ASSUME evs[i].kind = "tool", scenes[s].run = r
        PROVE  liveSteps'[s][i] = StatusOf(evs[i])
    <3>1. liveSteps'[s] = live
      BY <1>1, <1>a, <2>2
    <3>2. live[i] = IF i \in changed THEN StatusOf(evs[i]) ELSE liveSteps[s][i]
      BY <2>2, SyncTool DEF live
    <3>3. i \notin changed => liveSteps[s][i] = StatusOf(evs[i])
      BY <1>4, <1>b, <2>2 DEF Shown, s
    <3> QED  BY <3>1, <3>2, <3>3
  <2>3. ASSUME evs[i].kind = "tool", record[r].status \in EndStatus
        PROVE  toolSteps'[r][i] = StatusOf(evs[i])
    <3>1. toolSteps'[r] = kept
      BY <1>1, <1>a, <2>3 DEF Archived, EndStatus
    <3>2. kept[i] = IF i \in changed THEN StatusOf(evs[i]) ELSE toolSteps[r][i]
      BY <2>3, SyncTool DEF kept
    <3>3. i \notin changed => toolSteps[r][i] = StatusOf(evs[i])
      BY <1>4, <1>b, <2>3 DEF Shown
    <3> QED  BY <3>1, <3>2, <3>3
  <2> QED  BY <1>1, <1>4, <2>1, <2>2, <2>3 DEF Shown
<1> QED  BY <1>3, <1>4

LEMMA EndRunsShown ==
  ASSUME Core, Core', TraceAgrees,
         NEW S \in SUBSET Scenes, NEW status, NEW scs, NEW recs, NEW evs,
         EndRuns(S, status, scs, recs, evs),
         \A s \in Scenes : scs[s].run = scenes[s].run,
         \A r \in Runs : recs[r].status = record[r].status /\ recs[r].scene = record[r].scene,
         \A r \in Runs : ~(recs[r].status = "running" /\ \E s \in S : scs[s].run = r) =>
                           recs[r] = record[r] /\ evs[r] = event[r],
         \A s \in Scenes : scenes'[s].run = scenes[s].run,
         \A r \in Runs : record'[r].scene = record[r].scene,
         NEW q \in Runs, NEW i \in Slots
  PROVE  Shown(q, i)'
<1> DEFINE z == record[q].scene
           ended == {r \in Runs : recs[r].status = "running" /\ \E s \in S : scs[s].run = r}
           final == [r \in Runs |-> IF r \in ended
                                    THEN [j \in Slots |-> SettleAtEnd(evs[r][j])]
                                    ELSE evs[r]]
           steps(s) == Sync(SettleSteps(liveSteps[s]), final[scs[s].run], Slots)
<1> SUFFICES ASSUME event'[q][i].kind = "tool"
             PROVE  /\ scenes'[z].run = q => liveSteps'[z][i] = StatusOf(event'[q][i])
                    /\ record'[q].status \in EndStatus => toolSteps'[q][i] = StatusOf(event'[q][i])
  BY DEF Shown
<1>1. z \in Scenes
  <2>1. (record[q].scene)' \in Scenes
    BY DEF Core, ReceiptsOK, Blank, Shaped, TypeInv, RecordsPlaced
  <2> QED  BY <2>1
<1>2. /\ event' = final
      /\ \A s \in Scenes : liveSteps'[s] = IF s \in S THEN steps(s) ELSE liveSteps[s]
      /\ \A r \in Runs : toolSteps'[r] = IF r \in ended THEN steps(recs[r].scene) ELSE toolSteps[r]
      /\ q \notin ended => record'[q] = recs[q]
  BY DEF EndRuns
<1>3. q \notin ended => event'[q] = event[q] /\ record'[q] = record[q] /\ Shown(q, i)
  <2>1. Shown(q, i)
    BY DEF TraceAgrees, Shown
  <2> QED  BY <1>2, <2>1
<1>4. ASSUME scs[z].run = q
      PROVE  steps(z)[i] = StatusOf(event'[q][i])
  <2>1. final[q] = event'[q]
    BY <1>2
  <2> HIDE DEF final
  <2>2. steps(z) = Sync(SettleSteps(liveSteps[z]), event'[q], Slots)
    BY <1>4, <2>1
  <2> HIDE DEF steps
  <2>3. Sync(SettleSteps(liveSteps[z]), event'[q], Slots)[i] = StatusOf(event'[q][i])
    BY SyncTool
  <2> QED  BY <2>2, <2>3
<1>5. q \in ended => scs[z].run = q
  <2> SUFFICES ASSUME NEW s \in S, scs[s].run = q PROVE scs[z].run = q
    OBVIOUS
  <2>1. record[q].scene = s
    BY DEF Core, ScenesPlaced
  <2> QED  BY <2>1
<1>6. scenes'[z].run = q => liveSteps'[z][i] = StatusOf(event'[q][i])
  <2> SUFFICES ASSUME scenes'[z].run = q PROVE liveSteps'[z][i] = StatusOf(event'[q][i])
    OBVIOUS
  <2>1. scs[z].run = q /\ scenes[z].run = q
    BY <1>1
  <2>2. CASE z \in S
    <3> HIDE DEF steps, ended, final
    <3> QED  BY <1>1, <1>2, <1>4, <2>1, <2>2
  <2>3. CASE z \notin S
    <3>1. q \notin ended
      <4> SUFFICES ASSUME NEW s \in S, scs[s].run = q PROVE FALSE
        OBVIOUS
      <4>1. record[q].scene = s
        BY DEF Core, ScenesPlaced
      <4> QED  BY <2>3, <4>1
    <3>2. liveSteps'[z] = liveSteps[z]
      <4> HIDE DEF steps
      <4> QED  BY <1>1, <1>2, <2>3
    <3> HIDE DEF ended
    <3> QED  BY <1>3, <2>1, <3>1, <3>2 DEF Shown
  <2> QED  BY <2>2, <2>3
<1>7. record'[q].status \in EndStatus => toolSteps'[q][i] = StatusOf(event'[q][i])
  <2>1. CASE q \in ended
    <3>1. toolSteps'[q] = steps(recs[q].scene) /\ recs[q].scene = z
      <4> HIDE DEF steps, ended
      <4> QED  BY <1>2, <2>1
    <3> HIDE DEF steps, ended
    <3> QED  BY <1>4, <1>5, <2>1, <3>1
  <2>2. CASE q \notin ended
    <3>1. toolSteps'[q] = toolSteps[q]
      <4> HIDE DEF steps, ended
      <4> QED  BY <1>2, <2>2
    <3> HIDE DEF ended
    <3> QED  BY <1>3, <2>2, <3>1 DEF Shown
  <2> QED  BY <2>1, <2>2
<1> QED  BY <1>6, <1>7

\* Ending runs moves no run to another scene.
LEMMA EndRunsKeeps ==
  ASSUME NEW S, NEW status, NEW scs \in [Scenes -> SceneState],
         NEW recs \in [Runs -> Record], NEW evs, EndRuns(S, status, scs, recs, evs)
  PROVE  /\ \A s \in Scenes : scenes'[s].run = scs[s].run
         /\ \A r \in Runs : record'[r].scene = recs[r].scene
<1>1. \A s \in Scenes : scs[s] \in SceneState
  OBVIOUS
<1>2. \A s \in Scenes : scenes'[s].run = scs[s].run
  BY <1>1 DEF EndRuns, SceneState
<1>3. ASSUME NEW r \in Runs
      PROVE  record'[r].scene = recs[r].scene
  <2>1. record'[r] = recs[r] \/ \E new : record'[r] = [Bump(recs[r], new) EXCEPT !.status = status]
    BY DEF EndRuns
  <2>2. recs[r] \in Record
    OBVIOUS
  <2>3. \A new : [Bump(recs[r], new) EXCEPT !.status = status].scene = recs[r].scene
    BY <2>2, EndedFields
  <2> QED  BY <2>1, <2>3
<1> QED  BY <1>2, <1>3

LEMMA EndRunsPlainShown ==
  ASSUME Core, Core', TraceAgrees, NEW S \in SUBSET Scenes, NEW status,
         NEW scs \in [Scenes -> SceneState], EndRuns(S, status, scs, record, event),
         \A s \in Scenes : scs[s].run = scenes[s].run
  PROVE  TraceAgrees'
<1>1. record \in [Runs -> Record]
  BY DEF Core, TypeInv, TypeOK
<1>2. /\ \A s \in Scenes : scenes'[s].run = scenes[s].run
      /\ \A r \in Runs : record'[r].scene = record[r].scene
  BY <1>1, EndRunsKeeps
<1>3. \A q \in Runs, i \in Slots : Shown(q, i)'
  BY <1>2, EndRunsShown
<1> QED  BY <1>3 DEF TraceAgrees, Shown

LEMMA ForgetShown ==
  ASSUME Core, Core', TraceAgrees, NEW r \in Runs, NEW i \in Slots,
         NEW S \in SUBSET Scenes, ForgetWithReceipt(r, i, S)
  PROVE  TraceAgrees'
<1> DEFINE mine == [event[r] EXCEPT ![i] = Answered(event[r][i], LocalResult)]
           recs == [record EXCEPT ![r] = Bump(record[r], mine)]
           evs == [event EXCEPT ![r] = mine]
<1>1. EndRuns(S, "canceled", scenes, recs, evs) /\ Live(r) /\ record[r].scene \in S
  BY DEF ForgetWithReceipt
<1>2. /\ scenes \in [Scenes -> SceneState] /\ record \in [Runs -> Record]
      /\ event \in [Runs -> [Slots -> Event]] /\ record[r] \in Record
  BY DEF Core, TypeInv, TypeOK
<1> HIDE DEF mine
<1>3. /\ Bump(record[r], mine) \in Record
      /\ Bump(record[r], mine).status = record[r].status
      /\ Bump(record[r], mine).scene = record[r].scene
  BY <1>2, BumpType
<1>4. /\ recs \in [Runs -> Record]
      /\ \A q \in Runs : recs[q].status = record[q].status /\ recs[q].scene = record[q].scene
      /\ \A q \in Runs \ {r} : recs[q] = record[q] /\ evs[q] = event[q]
  BY <1>2, <1>3
<1> HIDE DEF recs, evs
<1>5. /\ \A s \in Scenes : scenes'[s].run = scenes[s].run
      /\ \A q \in Runs : record'[q].scene = record[q].scene
  BY <1>1, <1>2, <1>4, EndRunsKeeps
<1>6. recs[r].status = "running" /\ \E s \in S : scenes[s].run = r
  BY <1>1, <1>4 DEF Live
<1>7. \A q \in Runs : ~(recs[q].status = "running" /\ \E s \in S : scenes[s].run = q) =>
                      recs[q] = record[q] /\ evs[q] = event[q]
  BY <1>4, <1>6
<1>8. ASSUME NEW q \in Runs, NEW j \in Slots
      PROVE  Shown(q, j)'
  BY <1>1, <1>4, <1>5, <1>7, EndRunsShown
<1> QED  BY <1>8 DEF TraceAgrees, Shown

\* The scenes hold no run they did not hold before, but for a run without
\* receipts, and no trace of theirs changed.
LEMMA RestShown ==
  ASSUME Core, TraceAgrees, UNCHANGED <<event, toolSteps>>,
         \A q \in Runs, i \in Slots : event[q][i].kind = "tool" =>
           /\ record'[q] = record[q]
           /\ scenes'[record[q].scene].run = q =>
                /\ scenes[record[q].scene].run = q
                /\ liveSteps'[record[q].scene] = liveSteps[record[q].scene]
  PROVE  TraceAgrees'
BY DEF TraceAgrees

LEMMA OccupyShown ==
  ASSUME Core, TraceAgrees, NEW s \in Scenes, NEW new \in Runs, NEW rec,
         record[new].status = "absent", UNCHANGED <<event, toolSteps>>,
         scenes' = [scenes EXCEPT ![s] = Occupied(@, new)],
         record' = [record EXCEPT ![new] = rec],
         liveSteps' = [liveSteps EXCEPT ![s] = NoSteps]
  PROVE  TraceAgrees'
<1>1. /\ scenes \in [Scenes -> SceneState] /\ record \in [Runs -> Record]
      /\ liveSteps \in [Scenes -> [Slots -> StepStatus]]
  BY DEF Core, TypeInv, TypeOK
<1>2. /\ scenes'[s].run = new
      /\ \A z \in Scenes \ {s} : scenes'[z] = scenes[z] /\ liveSteps'[z] = liveSteps[z]
      /\ \A q \in Runs \ {new} : record'[q] = record[q]
  BY <1>1 DEF Occupied, SceneState
<1>3. ASSUME NEW q \in Runs, NEW i \in Slots, event[q][i].kind = "tool"
      PROVE  q # new /\ record[q].scene \in Scenes
  BY <1>3, ToolPlaced
<1> QED  BY <1>2, <1>3, RestShown

LEMMA SceneActionShown ==
  ASSUME Core, Core', TraceAgrees, SceneAction
  PROVE  TraceAgrees'
<1>a. /\ scenes \in [Scenes -> SceneState]
      /\ liveSteps \in [Scenes -> [Slots -> StepStatus]]
  BY DEF Core, TypeInv, TypeOK
<1>1. CASE \E s \in Scenes, r \in Runs, k \in StartKinds : BeginRun(s, r, k)
  BY <1>1, OccupyShown DEF BeginRun
<1>2. CASE \E s \in Scenes, status \in Endings : EndRun(s, status)
  <2>1. PICK s \in Scenes, status \in Endings : EndRuns({s}, status, scenes, record, event)
    BY <1>2 DEF EndRun
  <2> QED  BY <1>a, <2>1, EndRunsPlainShown
<1>3. CASE \E S \in SUBSET Scenes : RevokeRuns(S)
  BY <1>a, <1>3, EndRunsPlainShown DEF RevokeRuns
<1>4. ASSUME NEW s \in Scenes, CloseScene(s)
      PROVE  TraceAgrees'
  <2> DEFINE scs == [scenes EXCEPT ![s].closed = TRUE]
  <2>1. EndRuns(RunsOf(s), "canceled", scs, record, event)
    BY <1>4 DEF CloseScene
  <2>2. /\ scs \in [Scenes -> SceneState] /\ RunsOf(s) \in SUBSET Scenes
        /\ \A z \in Scenes : scs[z].run = scenes[z].run
    BY <1>a DEF SceneState, RunsOf
  <2> HIDE DEF scs
  <2> QED  BY <2>1, <2>2, EndRunsPlainShown
<1>5. CASE (\E s \in Scenes : ActivateScene(s)) \/ LeaveScene
  <2>1. /\ UNCHANGED <<event, toolSteps, record, liveSteps>>
        /\ \A z \in Scenes : scenes'[z].run = scenes[z].run
    BY <1>5, <1>a DEF ActivateScene, LeaveScene, traceVars, SceneState
  <2> QED  BY <2>1, ToolPlaced, RestShown
<1>6. ASSUME NEW s \in Scenes, NewConversation(s)
      PROVE  TraceAgrees'
  <2>1. /\ UNCHANGED <<event, toolSteps, record>> /\ scenes'[s].run = NoRun
        /\ \A z \in Scenes \ {s} : scenes'[z] = scenes[z] /\ liveSteps'[z] = liveSteps[z]
    BY <1>6, <1>a DEF NewConversation, Emptied, SceneState
  <2>2. NoRun \notin Runs
    BY ConstantsAssumption
  <2> QED  BY <2>1, <2>2, ToolPlaced, RestShown
<1>7. ASSUME NEW from \in Runs, NEW new \in Runs, NEW selected \in SUBSET Slots,
             BeginContinuation(from, new, selected)
      PROVE  TraceAgrees'
  <2> DEFINE src == Canonical(from)
             s == record[src].scene
             rec == [NewRecord(s, "continuation") EXCEPT
                       !.source = src, !.sourceRev = record[src].rev,
                       !.sourceCheckpoint = record[src].checkpoint, !.selected = selected]
  <2>1. /\ record[src].status \in EndStatus /\ record[new].status = "absent"
        /\ scenes' = [scenes EXCEPT ![s] = Occupied(@, new)]
        /\ record' = [record EXCEPT ![new] = rec]
        /\ liveSteps' = [liveSteps EXCEPT ![s] = NoSteps]
        /\ UNCHANGED <<event, toolSteps>>
    BY <1>7 DEF BeginContinuation, Continuable
  <2>2. src \in Runs
    BY DEF Canonical, Core, TypeInv, TypeOK, Record
  <2>3. s \in Scenes
    BY <2>1, <2>2 DEF Core, TypeInv, RecordsPlaced, EndStatus
  <2> HIDE DEF rec, s, src
  <2> QED  BY <2>1, <2>3, OccupyShown
<1> QED  BY <1>1, <1>2, <1>3, <1>4, <1>5, <1>6, <1>7 DEF SceneAction

\* What an action writes is a run's receipts, of a run that has a record.
LEMMA WrittenReceipts ==
  ASSUME Core, ReceiptAction
  PROVE  \/ \E r \in Runs, evs \in [Slots -> Event] : Write(r, evs) /\ record[r].status # "absent"
         \/ UNCHANGED <<scenes, record, event, traceVars>>
         \/ \E r \in Runs, i \in Slots, S \in SUBSET Scenes : ForgetWithReceipt(r, i, S)
<1>1. \/ \E r \in Runs : \E evs : /\ Write(r, evs)
                                  /\ Live(r) \/ \E i \in Slots : Leased(r, i)
      \/ UNCHANGED <<scenes, record, event, traceVars>>
      \/ \E r \in Runs, i \in Slots, S \in SUBSET Scenes : ForgetWithReceipt(r, i, S)
  BY DEF ReceiptAction, BeginModelRequest, RecordModelTurn, MarkToolDispatched, Perform,
         RecordToolNotSent, RecordRequestUnknown, RecordToolResponse, LocalCommit
<1>2. ASSUME NEW r \in Runs, NEW evs, Write(r, evs), TypeOK'
      PROVE  evs \in [Slots -> Event]
  <2>1. event'[r] = evs
    BY <1>2, WriteReceipts DEF Core
  <2> QED  BY <1>2, <2>1 DEF TypeOK
<1>3. TypeOK'
  BY TypeReceipt DEF Core, TypeInv
<1>4. \A r \in Runs : Live(r) \/ (\E i \in Slots : Leased(r, i)) => record[r].status # "absent"
  BY LeasedRecorded DEF Live, Core
<1> QED  BY <1>1, <1>2, <1>3, <1>4

LEMMA TraceStep ==
  ASSUME Core, TraceAgrees, [Next]_vars
  PROVE  TraceAgrees'
<1>a. /\ scenes \in [Scenes -> SceneState] /\ Core'
  BY CoreStep DEF Core, TypeInv, TypeOK
<1>b. ASSUME UNCHANGED <<scenes, record, event, traceVars>>
      PROVE  TraceAgrees'
  BY <1>b DEF TraceAgrees, traceVars
<1>1. CASE SceneAction
  BY <1>1, <1>a, SceneActionShown
<1>2. CASE ReceiptAction
  <2>1. ASSUME NEW r \in Runs, NEW evs \in [Slots -> Event], Write(r, evs),
               record[r].status # "absent"
        PROVE  TraceAgrees'
    <3>1. \A q \in Runs, i \in Slots : Shown(q, i)'
      BY <2>1, WriteShown
    <3> QED  BY <3>1 DEF TraceAgrees, Shown
  <2> QED  BY <1>2, <1>a, <1>b, <2>1, WrittenReceipts, ForgetShown
<1>3. CASE ServerAction
  <2>1. PICK changed : ChangeServer(changed)
    BY <1>3 DEF ServerAction, RediscoverServer, SetMcpGrants, SetMcpEnabled, RemoveMcpServer
  <2>2. /\ EndRuns(Relying(changed), "canceled", scenes, record, event)
        /\ Relying(changed) \in SUBSET Scenes
    BY <2>1 DEF ChangeServer, Relying
  <2> QED  BY <1>a, <2>2, EndRunsPlainShown
<1>4. CASE Crash
  BY <1>4, <1>b DEF Crash
<1>5. CASE Open
  <2>1. EndRuns({s \in Scenes : Running(s)}, "interrupted", scenes, record, event)
    BY <1>5 DEF Open
  <2> QED  BY <1>a, <2>1, EndRunsPlainShown
<1>6. CASE UNCHANGED vars
  BY <1>6, <1>b DEF vars, traceVars
<1> QED  BY <1>1, <1>2, <1>3, <1>4, <1>5, <1>6 DEF Next

\* The trace the user sees never disagrees with the receipts, neither while the
\* run is live nor once its trace is archived with the question.
THEOREM TraceAlwaysAgrees == Spec => []TraceAgrees
<1>1. Init => TraceAgrees
  BY DEF Init, TraceAgrees, NoEvent
<1>2. Core /\ TraceAgrees /\ [Next]_vars => TraceAgrees'
  BY TraceStep
<1> QED  BY <1>1, <1>2, CoreAlways, PTL DEF Spec

=============================================================================
