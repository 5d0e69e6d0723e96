----------------------------- MODULE ExitGateProofs -----------------------------
(***************************************************************************)
(* The safety invariants of ExitGate, for any number of exit requests,     *)
(* connections and title jobs.  The invariant has five parts: the gate and *)
(* the request that holds it, the hooks, the work an exit waits for, the   *)
(* MCP connections, and the renderer.                                      *)
(***************************************************************************)
EXTENDS ExitGate, TLAPS

-----------------------------------------------------------------------------
(* The inductive invariant.                                                *)

\* A request in one of these stages holds the attempt.
Active == {"begun", "waiting", "expired", "settling", "draining", "titles", "mcp",
           "closing", "final", "closed", "exited"}

\* The drafts are saved and the gate drains.
Past == {"settling", "draining", "titles", "mcp", "closing", "final", "closed", "stuck"}

Holder == task[attempt.id]

GateFree ==
  /\ attempt = NoAttempt /\ phase = "running" /\ ~reserved
  /\ memory = "open" /\ ~intent /\ mcp.quiescing = None /\ ~mcp.permanent

GateHeld ==
  /\ reserved /\ Holder.at \in Active \cup {"stuck"}
  /\ attempt.ticket = (Holder.at # "begun")
  /\ mcp.quiescing = IF Holder.at = "begun" THEN None ELSE attempt.id
  /\ Holder.at = "begun" => phase = "running" /\ memory = "open"
  /\ Holder.at \in {"waiting", "expired"} => phase \in {"running", "preparing"}
  /\ Holder.at = "waiting" /\ Holder.reply = "ok" => phase = "preparing"
  /\ Holder.at \in Past => phase = "draining" /\ Holder.reply = "ok"
  /\ Holder.at = "exited" => phase = "ready" /\ Holder.reply = "ok"
  /\ mcp.permanent => Holder.at \in {"closed", "exited"}
  /\ intent => Holder.at \in {"final", "closed", "exited", "stuck"}

Gate ==
  /\ \A i \in Requests : task[i].at \in Active => attempt.id = i
  /\ IF attempt.id = None THEN GateFree ELSE GateHeld

\* Paused hooks have somebody who will open them again.
HooksOwed ==
  hooks = "paused" =>
    \/ attempt.id # None
    \/ preflight # None /\ (task[preflight].at = "hooks" \/ task[preflight].failed)

Quiet(i) ==
  /\ task[i].at \in {"draining", "titles", "mcp", "closing", "final", "closed", "exited"} =>
       ~run /\ engine = "free"
  /\ task[i].at \in {"mcp", "closing", "final", "closed", "exited"} => titles = {}

Connected(c) ==
  /\ conn[c].at = "live" => conn[c].current /\ mcp.quiescing = None
  /\ mcp.permanent => conn[c].at \in {"idle", "queued"}

PermanentAtEnd ==
  \A i \in Requests : task[i].at \in {"closed", "exited"} => mcp.permanent

\* Nothing about a request that was not announced is under way, and the renderer is
\* told of a cancellation only after it.
Early == {"none", "asking", "hooks", "begun", "refused"}

Unheard(i) ==
  /\ task[i].at \in Early =>
       /\ \A e \in events : e.id # i
       /\ \A c \in calls : c.id # i
       /\ renderer.current # i /\ task[i].reply = "none"
  /\ [kind |-> "canceled", id |-> i] \in events => task[i].at = "aborted"

Awake == renderer.at # "idle" => renderer.current # None

Ack(i) == [op |-> "finish", id |-> i, ok |-> TRUE]

\* What the acknowledgement of the current attempt stands for.
Saved(i) ==
  attempt.id = i =>
    /\ Ack(i) \in calls => renderer.current = i /\ renderer.at = "finishing"
    /\ task[i].reply = "ok" => renderer.current = i /\ renderer.at = "locked"

Still == renderer.at \in {"finishing", "locked"} => ~dirty

Screen == Awake /\ Still /\ \A i \in Requests : Unheard(i) /\ Saved(i)

IInv ==
  /\ TypeOK /\ Gate /\ HooksOwed /\ PermanentAtEnd
  /\ \A i \in Requests : Quiet(i)
  /\ \A c \in Conns : Connected(c)
  /\ Screen

-----------------------------------------------------------------------------
(* Who moves what.                                                         *)

USE DEF gate, work, ui

ConnMoves == \E c \in Conns : Enqueue(c) \/ Acquire(c) \/ Spawn(c) \/ CloseSession(c) \/ Reap(c)

RunMoves == \/ CheckRun \/ BeginRun \/ EndRun \/ Schedule \/ DontSchedule
            \/ \E t \in TitleJobs : TitleOver(t)

RendererMoves == \/ Edit \/ Save \/ Authored \/ Flushed \/ GiveUp
                 \/ \E id \in Requests : Hear(id)

LEMMA NotNone == \A i \in Requests : i # None
BY ExitAssumption DEF Requests, None

LEMMA Movers ==
  ASSUME Next
  PROVE  \/ \E i \in Requests : \E relocates, enabled \in BOOLEAN : Request(i, relocates, enabled)
         \/ \E i \in Requests : ExitTask(i)
         \/ \E i \in Requests : Handle(i)
         \/ PreflightOver \/ ConnMoves \/ RunMoves \/ RendererMoves
BY DEF Next, ConnMoves, RunMoves, RendererMoves

LEMMA ConnFrame ==
  ASSUME ConnMoves
  PROVE  UNCHANGED <<gate, task, preflight, hooks, memory, titles, mcp, engine, run, intent, ui>>
BY DEF ConnMoves, Enqueue, Acquire, Spawn, CloseSession, Reap, McpStep

LEMMA RunFrame ==
  ASSUME RunMoves
  PROVE  UNCHANGED <<gate, task, preflight, hooks, memory, mcp, conn, intent, ui>>
BY DEF RunMoves, CheckRun, BeginRun, EndRun, Schedule, DontSchedule, TitleOver, RunStep

LEMMA RendererFrame ==
  ASSUME RendererMoves
  PROVE  UNCHANGED <<gate, task, preflight, hooks, work, intent>>
BY DEF RendererMoves, Edit, Save, Authored, Flushed, GiveUp, Hear, HearPrepare, HearCanceled,
       Ask, RendererStep

LEMMA ExitTaskFrame ==
  ASSUME NEW i \in Requests, ExitTask(i)
  PROVE  /\ UNCHANGED <<titles, engine, renderer, dirty, calls>>
         /\ ~Settle(i) => run' = run
<1> USE DEF Abort
<1> QED
  BY DEF ExitTask, Preflight, Begin, Announce, AnnounceFails, Expire, Fail, Proceed, Settle,
         StopWork, DrainTitles, DrainMcp, Prepare, FinalShutdown, FinalShutdownFails, Leave,
         TellAborted

LEMMA HandleFrame ==
  ASSUME NEW i \in Requests, Handle(i)
  PROVE  UNCHANGED <<reserved, preflight, hooks, work, intent, dirty, events>>
BY DEF Handle, HandleBegin, HandleFinish

\* Request i goes to stage s; every other request stays where it is.
Moved(i, s) ==
  /\ task' \in [Requests -> Task]
  /\ task'[i].at = s /\ task'[i].reply = task[i].reply
  /\ task[i].failed => task'[i].failed
  /\ \A j \in Requests \ {i} : task'[j] = task[j]

LEMMA Goes ==
  ASSUME TypeOK, NEW i \in Requests, NEW s \in Stages,
         Goto(i, s) \/ task' = [task EXCEPT ![i].at = s, ![i].failed = TRUE]
  PROVE  Moved(i, s) /\ (Goto(i, s) \/ task'[i].failed)
<1>1. task \in [Requests -> Task]
  BY DEF TypeOK
<1>2. CASE Goto(i, s)
  <2>1. task'[i] = [task[i] EXCEPT !.at = s] /\ \A j \in Requests \ {i} : task'[j] = task[j]
    BY <1>1, <1>2 DEF Goto
  <2>2. /\ task'[i] \in Task /\ task'[i].at = s /\ task'[i].reply = task[i].reply
        /\ task'[i].failed = task[i].failed
    BY <1>1, <2>1 DEF Task
  <2>3. task' \in [Requests -> Task]
    BY <1>1, <1>2, <2>1, <2>2 DEF Goto
  <2> QED
    BY <1>2, <2>1, <2>2, <2>3 DEF Moved
<1>3. CASE task' = [task EXCEPT ![i].at = s, ![i].failed = TRUE]
  <2>1. task'[i] = [task[i] EXCEPT !.at = s, !.failed = TRUE]
    BY <1>1, <1>3
  <2>2. \A j \in Requests \ {i} : task'[j] = task[j]
    BY <1>1, <1>3
  <2>3. task[i] \in Task
    BY <1>1
  <2>4. task'[i] \in Task /\ task'[i].at = s /\ task'[i].reply = task[i].reply /\ task'[i].failed = TRUE
    BY <2>1, <2>3 DEF Task
  <2>5. task' \in [Requests -> Task]
    BY <1>1, <1>3, <2>2, <2>4
  <2> QED
    BY <2>2, <2>4, <2>5 DEF Moved
<1> QED
  BY <1>2, <1>3

-----------------------------------------------------------------------------
(* The gate and the request that holds it.                                 *)

gateVars == <<attempt, task, phase, reserved, mcp, memory, intent>>

LEMMA GateFrame ==
  ASSUME Gate, UNCHANGED gateVars
  PROVE  Gate'
BY DEF Gate, GateFree, GateHeld, Holder, gateVars

\* A request that does not hold the attempt moves outside the stages that do.
LEMMA GateAside ==
  ASSUME TypeOK, Gate, NEW i \in Requests, NEW s \in Stages \ Active,
         task[i].at \notin Active \cup {"stuck"}, Moved(i, s),
         UNCHANGED <<attempt, phase, reserved, mcp, memory, intent>>
  PROVE  Gate'
<1>1. \A j \in Requests : task'[j].at \in Active => attempt'.id = j
  BY DEF Gate, Moved
<1>2. CASE attempt.id = None
  BY <1>1, <1>2 DEF Gate, GateFree
<1>3. CASE attempt.id # None
  <2>1. attempt.id \in Requests /\ GateHeld
    BY <1>3 DEF TypeOK, Gate
  <2>2. task[attempt.id].at \in Active \cup {"stuck"}
    BY <2>1 DEF GateHeld, Holder
  <2>3. task'[attempt.id] = task[attempt.id]
    BY <2>1, <2>2 DEF Moved
  <2>4. GateHeld'
    BY <2>1, <2>3 DEF GateHeld, Holder
  <2> QED
    BY <1>1, <1>3, <2>4 DEF Gate
<1> QED
  BY <1>2, <1>3

\* The holder is where its stage says.
LEMMA Holds ==
  ASSUME TypeOK, Gate, NEW i \in Requests, task[i].at \in Active
  PROVE  attempt.id = i /\ attempt.id # None /\ GateHeld /\ Holder = task[i]
BY NotNone DEF Gate, Holder

LEMMA HolderMoves ==
  ASSUME Gate, NEW i \in Requests, NEW s \in Stages, attempt.id \in {None, i},
         attempt'.id = i, Moved(i, s), GateHeld'
  PROVE  Gate'
BY NotNone DEF Gate, Moved

LEMMA HolderGoes ==
  ASSUME Gate, NEW i \in Requests, NEW s \in Stages \ Active, attempt.id \in {None, i},
         Moved(i, s), GateFree'
  PROVE  Gate'
BY DEF Gate, Moved, GateFree, NoAttempt

\* An abort of the holder succeeds, and frees the gate.
LEMMA AbortFrees ==
  ASSUME TypeOK, Gate, NEW i \in Requests, Abort(i), ~intent',
         task[i].at \in Active \ {"begun", "closed", "exited"}
  PROVE  /\ Gate' /\ task'[i].at = "aborting" /\ Moved(i, "aborting")
         /\ hooks' = "open" /\ memory' = "open" /\ attempt' = NoAttempt
         /\ mcp' = [mcp EXCEPT !.quiescing = None] /\ conn' = NextEpoch
         /\ mcp.quiescing = i /\ ~mcp.permanent
<1>1. attempt.id = i /\ GateHeld /\ Holder = task[i]
  BY Holds
<1>2. attempt.ticket /\ mcp.quiescing = i /\ ~mcp.permanent
  BY <1>1 DEF GateHeld, TypeOK
<1>3. phase # "ready"
  BY <1>1 DEF GateHeld, Active, Past
<1>4. /\ Goto(i, "aborting") /\ attempt' = NoAttempt /\ phase' = "running" /\ reserved' = FALSE
      /\ hooks' = "open" /\ memory' = "open"
      /\ mcp' = [mcp EXCEPT !.quiescing = None] /\ conn' = NextEpoch
  BY <1>1, <1>2, <1>3 DEF Abort, TicketCurrent, Restored
<1>5. Moved(i, "aborting")
  BY <1>4, Goes DEF Stages
<1>6. mcp'.quiescing = None /\ ~mcp'.permanent
  BY <1>2, <1>4 DEF TypeOK
<1>7. GateFree'
  BY <1>4, <1>6 DEF GateFree
<1> QED
  BY <1>1, <1>2, <1>4, <1>5, <1>7, HolderGoes DEF Stages, Active, Moved

LEMMA GateRequest ==
  ASSUME TypeOK, Gate, NEW i \in Requests, NEW relocates \in BOOLEAN, NEW enabled \in BOOLEAN,
         Request(i, relocates, enabled)
  PROVE  Gate' /\ \E s \in {"asking", "hooks", "refused"} : Moved(i, s)
<1> DEFINE s == IF ~enabled THEN "hooks" ELSE IF AcceptsNew THEN "asking" ELSE "refused"
<1>1. task' = [task EXCEPT ![i].relocates = relocates, ![i].at = s]
  BY DEF Request
<1>2. s \in {"asking", "hooks", "refused"}
  OBVIOUS
<1> HIDE DEF s
<1>3. task \in [Requests -> Task] /\ s \in Stages
  BY <1>2 DEF TypeOK, Stages, Ends
<1>4. task'[i] = [task[i] EXCEPT !.relocates = relocates, !.at = s]
  BY <1>1, <1>3
<1>5. /\ task'[i] \in Task /\ task'[i].at = s /\ task'[i].reply = task[i].reply
      /\ task'[i].failed = task[i].failed
  BY <1>3, <1>4, ZenonT(60) DEF Task
<1>6. \A j \in Requests \ {i} : task'[j] = task[j]
  BY <1>1, <1>3
<1>7. Moved(i, s)
  BY <1>1, <1>3, <1>5, <1>6 DEF Moved
<1>8. task[i].at = "none" /\ UNCHANGED <<attempt, phase, reserved, mcp, memory, intent>>
  BY DEF Request
<1> QED
  BY <1>2, <1>3, <1>7, <1>8, GateAside DEF Active

LEMMA GateTask ==
  ASSUME IInv, NEW i \in Requests, ExitTask(i)
  PROVE  Gate'
<1> USE DEF Active, Past
<1> TypeOK /\ Gate
  BY DEF IInv
<1>0. "refused" \in Stages /\ "hooks" \in Stages /\ "aborted" \in Stages /\ "begun" \in Stages
  BY DEF Stages, Ends
<1>1. CASE Preflight(i)
  BY <1>0, <1>1, Goes, GateAside DEF Preflight
<1>2. CASE Begin(i)
  <2>1. CASE phase = "running" /\ attempt.id = None
    <3>1. Moved(i, "begun") /\ attempt' = [NoAttempt EXCEPT !.id = i] /\ reserved' = TRUE
      BY <1>0, <1>2, <2>1, Goes DEF Begin
    <3>2. GateFree
      BY <2>1 DEF Gate
    <3>3. attempt'.id = i /\ attempt'.ticket = FALSE /\ task'[attempt'.id].at = "begun"
      BY <3>1 DEF NoAttempt, Moved
    <3>4. UNCHANGED <<phase, memory, mcp, intent>>
      BY <1>2 DEF Begin
    <3>5. GateHeld'
      BY <3>1, <3>2, <3>3, <3>4 DEF GateHeld, GateFree, Holder
    <3> QED
      BY <1>0, <2>1, <3>1, <3>3, <3>5, HolderMoves
  <2>2. CASE ~(phase = "running" /\ attempt.id = None)
    BY <1>0, <1>2, <2>2, Goes, GateAside DEF Begin
  <2> QED
    BY <2>1, <2>2
<1>3. CASE Announce(i)
  <2>1. Goto(i, "waiting") /\ task[i].at = "begun"
    BY <1>3 DEF Announce
  <2>2. Moved(i, "waiting") /\ "waiting" \in Stages
    BY <2>1, Goes DEF Stages
  <2>3. attempt.id = i /\ GateHeld /\ Holder = task[i]
    BY <2>1, Holds
  <2>4. attempt' = [attempt EXCEPT !.ticket = TRUE] /\ mcp' = [mcp EXCEPT !.quiescing = i]
    BY <1>3 DEF Announce
  <2>5. attempt'.id = i /\ attempt'.ticket = TRUE
    BY <2>3, <2>4 DEF TypeOK
  <2>6. mcp'.quiescing = i /\ mcp'.permanent = mcp.permanent
    BY <2>4 DEF TypeOK
  <2>7. UNCHANGED <<phase, reserved, memory, intent>>
    BY <1>3 DEF Announce
  <2>8. task'[i].at = "waiting" /\ task'[i].reply = task[i].reply
    BY <2>2 DEF Moved
  <2>9. task[i].reply = "none"
    BY <2>1 DEF IInv, Screen, Unheard, Early
  <2>10. GateHeld'
    BY <2>1, <2>3, <2>5, <2>6, <2>7, <2>8, <2>9 DEF GateHeld, Holder
  <2> QED
    BY <2>2, <2>3, <2>5, <2>10, HolderMoves
<1>4. CASE AnnounceFails(i)
  <2>1. task[i].at = "begun" /\ Moved(i, "aborting") /\ "aborting" \in Stages
    BY <1>4, Goes DEF AnnounceFails, Stages
  <2>2. attempt.id = i /\ GateHeld /\ Holder = task[i]
    BY <2>1, Holds
  <2>3. attempt' = NoAttempt /\ reserved' = FALSE /\ UNCHANGED <<phase, mcp, memory, intent>>
    BY <1>4 DEF AnnounceFails
  <2>4. GateFree'
    BY <2>1, <2>2, <2>3 DEF GateFree, GateHeld
  <2> QED
    BY <2>1, <2>2, <2>4, HolderGoes
<1>5. CASE Expire(i)
  <2>1. task[i].at = "waiting" /\ Moved(i, "expired") /\ "expired" \in Stages
    BY <1>5, Goes DEF Expire, TimesOut, Stages
  <2>2. UNCHANGED <<attempt, phase, reserved, mcp, memory, intent>>
    BY <1>5 DEF Expire
  <2>3. attempt.id = i /\ GateHeld /\ Holder = task[i]
    BY <2>1, Holds
  <2>4. GateHeld'
    BY <2>1, <2>2, <2>3 DEF GateHeld, Holder, Moved
  <2> QED
    BY <2>1, <2>2, <2>3, <2>4, HolderMoves
<1>6. CASE Fail(i)
  <2>1. task[i].at \in {"expired", "waiting", "settling", "draining", "titles", "mcp", "closing"}
    BY <1>6 DEF Fail
  <2>2. attempt.id = i /\ GateHeld /\ Holder = task[i]
    BY <2>1, Holds
  <2>3. ~intent'
    BY <1>6, <2>1, <2>2 DEF Fail, GateHeld
  <2> QED
    BY <1>6, <2>1, <2>3, AbortFrees DEF Fail
<1>7. CASE Proceed(i)
  <2>1. task[i].at = "waiting" /\ task[i].reply = "ok"
    BY <1>7 DEF Proceed
  <2>2. attempt.id = i /\ GateHeld /\ Holder = task[i]
    BY <2>1, Holds
  <2>3. Goto(i, "settling") /\ phase' = "draining"
    BY <1>7, <2>1, <2>2 DEF Proceed, GateHeld
  <2>4. Moved(i, "settling") /\ "settling" \in Stages
    BY <2>3, Goes DEF Stages
  <2>5. UNCHANGED <<attempt, reserved, mcp, memory, intent>>
    BY <1>7 DEF Proceed
  <2>6. GateHeld'
    BY <2>1, <2>2, <2>3, <2>4, <2>5 DEF GateHeld, Holder, Moved
  <2> QED
    BY <2>2, <2>4, <2>5, <2>6, HolderMoves
<1>8. ASSUME NEW s \in {"draining", "titles", "mcp", "closing"}, Goto(i, s),
             task[i].at \in {"settling", "draining", "titles", "mcp"},
             UNCHANGED <<attempt, phase, reserved, mcp, intent>>
      PROVE  Gate'
  <2>1. Moved(i, s) /\ s \in Stages
    BY <1>8, Goes DEF Stages
  <2>2. attempt.id = i /\ GateHeld /\ Holder = task[i]
    BY <1>8, Holds
  <2>3. GateHeld'
    BY <1>8, <2>1, <2>2 DEF GateHeld, Holder, Moved
  <2> QED
    BY <1>8, <2>1, <2>2, <2>3, HolderMoves
<1>9. CASE Settle(i) \/ StopWork(i) \/ DrainTitles(i) \/ DrainMcp(i)
  BY <1>8, <1>9 DEF Settle, StopWork, DrainTitles, DrainMcp
<1>10. CASE Prepare(i)
  <2>1. task[i].at = "closing" /\ Moved(i, "final") /\ "final" \in Stages
    BY <1>10, Goes DEF Prepare, Stages
  <2>2. UNCHANGED <<attempt, phase, reserved, mcp, memory>>
    BY <1>10 DEF Prepare
  <2>3. attempt.id = i /\ GateHeld /\ Holder = task[i]
    BY <2>1, Holds
  <2>4. GateHeld'
    BY <2>1, <2>2, <2>3 DEF GateHeld, Holder, Moved
  <2> QED
    BY <2>1, <2>2, <2>3, <2>4, HolderMoves
<1>11. CASE FinalShutdown(i)
  <2>1. task[i].at = "final" /\ Moved(i, "closed") /\ "closed" \in Stages
    BY <1>11, Goes DEF FinalShutdown, Stages
  <2>2. UNCHANGED <<attempt, phase, reserved, memory, intent>>
    BY <1>11 DEF FinalShutdown
  <2>3. attempt.id = i /\ GateHeld /\ Holder = task[i]
    BY <2>1, Holds
  <2>4. mcp'.quiescing = mcp.quiescing
    BY <1>11 DEF FinalShutdown, TypeOK
  <2>5. GateHeld'
    BY <2>1, <2>2, <2>3, <2>4 DEF GateHeld, Holder, Moved
  <2> QED
    BY <2>1, <2>2, <2>3, <2>5, HolderMoves
<1>12. CASE FinalShutdownFails(i)
  <2>1. task[i].at = "final"
    BY <1>12 DEF FinalShutdownFails
  <2>2. CASE Abort(i) /\ intent' = Withdrawn(intent)
    BY <2>1, <2>2, AbortFrees DEF Withdrawn
  <2>3. CASE Goto(i, "stuck") /\ UNCHANGED <<gate, hooks, memory, mcp, conn, intent>>
    <3>1. Moved(i, "stuck") /\ "stuck" \in Stages
      BY <2>3, Goes DEF Stages, Ends
    <3>2. attempt.id = i /\ GateHeld /\ Holder = task[i]
      BY <2>1, Holds
    <3>3. GateHeld'
      BY <2>1, <2>3, <3>1, <3>2 DEF GateHeld, Holder, Moved
    <3> QED
      BY <2>3, <3>1, <3>2, <3>3, HolderMoves
  <2> QED
    BY <1>12, <2>2, <2>3 DEF FinalShutdownFails
<1>13. CASE Leave(i)
  <2>1. task[i].at = "closed" /\ Moved(i, "exited") /\ "exited" \in Stages
    BY <1>13, Goes DEF Leave, Stages, Ends
  <2>2. phase' = "ready" /\ UNCHANGED <<attempt, reserved, mcp, memory, intent>>
    BY <1>13 DEF Leave
  <2>3. attempt.id = i /\ GateHeld /\ Holder = task[i]
    BY <2>1, Holds
  <2>4. GateHeld'
    BY <2>1, <2>2, <2>3 DEF GateHeld, Holder, Moved
  <2> QED
    BY <2>1, <2>2, <2>3, <2>4, HolderMoves
<1>14. CASE TellAborted(i)
  BY <1>0, <1>14, Goes, GateAside DEF TellAborted
<1> QED
  BY <1>1, <1>2, <1>3, <1>4, <1>5, <1>6, <1>7, <1>9, <1>10, <1>11, <1>12, <1>13, <1>14 DEF ExitTask

\* An acknowledgement sets the reply of the holder, and nothing else of any request.
LEMMA Replies ==
  ASSUME TypeOK, NEW i \in Requests, NEW ok \in BOOLEAN, HandleFinish(i, ok)
  PROVE  /\ attempt'.id = attempt.id /\ attempt'.ticket = attempt.ticket
         /\ attempt.id # i => UNCHANGED <<attempt, task>>
         /\ attempt' = attempt \/ Acknowledges(i, ok)
         /\ task' \in [Requests -> Task]
         /\ \A j \in Requests : /\ task'[j].at = task[j].at /\ task'[j].failed = task[j].failed
                                /\ j # i => task'[j] = task[j]
         /\ task' = task \/ /\ Acknowledges(i, ok) /\ ~attempt.replied
                            /\ task'[i].reply = IF ok THEN "ok" ELSE "error"
<1>1. task \in [Requests -> Task] /\ attempt \in [id: Requests \cup {None}, replied: BOOLEAN, ticket: BOOLEAN]
  BY DEF TypeOK
<1>2. CASE task' = task /\ attempt' = attempt
  BY <1>1, <1>2
<1>3. CASE Acknowledges(i, ok)
  <2>1. attempt.id = i /\ attempt' = [attempt EXCEPT !.replied = TRUE]
    BY <1>3 DEF HandleFinish, Acknowledges
  <2>2. attempt'.id = attempt.id /\ attempt'.ticket = attempt.ticket
    BY <1>1, <2>1
  <2>3. CASE task' = task
    BY <1>1, <1>3, <2>1, <2>2, <2>3
  <2>4. CASE ~attempt.replied
    <3> DEFINE said == IF ok THEN "ok" ELSE "error"
    <3>1. task' = [task EXCEPT ![i].reply = said]
      BY <1>3, <2>1, <2>4 DEF HandleFinish
    <3>2. said \in {"none", "ok", "error"}
      OBVIOUS
    <3> HIDE DEF said
    <3>3. task'[i] = [task[i] EXCEPT !.reply = said]
      BY <1>1, <3>1
    <3>4. task'[i] \in Task /\ task'[i].reply = said /\ task'[i].at = task[i].at
          /\ task'[i].failed = task[i].failed
      BY <1>1, <3>2, <3>3 DEF Task
    <3>5. \A j \in Requests \ {i} : task'[j] = task[j]
      BY <1>1, <3>1
    <3>6. task' \in [Requests -> Task]
      BY <1>1, <3>1, <3>4, <3>5
    <3> QED
      BY <1>3, <2>1, <2>2, <2>4, <3>4, <3>5, <3>6 DEF said
  <2> QED
    BY <1>3, <2>3, <2>4 DEF HandleFinish
<1> QED
  BY <1>2, <1>3 DEF HandleFinish

\* A command about a request is on its way only once the request was announced.
LEMMA HandlesLate ==
  ASSUME Screen, NEW i \in Requests, Handle(i)
  PROVE  task[i].at \notin Early
BY DEF Screen, Unheard, Handle, HandleBegin, HandleFinish

LEMMA GateHandle ==
  ASSUME IInv, NEW i \in Requests, Handle(i)
  PROVE  Gate'
<1> TypeOK /\ Gate /\ Screen
  BY DEF IInv
<1>0. task[i].at # "begun"
  BY HandlesLate DEF Early
<1>1. CASE HandleBegin(i)
  <2>1. UNCHANGED <<reserved, attempt, task, mcp, memory, intent>>
    BY <1>1 DEF HandleBegin
  <2>2. CASE phase' = phase
    BY <2>1, <2>2, GateFrame DEF gateVars
  <2>3. CASE attempt.id = i /\ phase \in {"preparing", "running"} /\ phase' = "preparing"
    <3>1. attempt.id # None /\ GateHeld /\ Holder = task[i]
      BY <2>3, NotNone DEF Gate, Holder
    <3>2. task[i].at \in {"waiting", "expired"}
      BY <1>0, <2>3, <3>1 DEF GateHeld, Past, Active
    <3>3. GateHeld'
      BY <2>1, <2>3, <3>1, <3>2 DEF GateHeld, Holder, Past
    <3> QED
      BY <2>1, <3>1, <3>3 DEF Gate
  <2> QED
    BY <1>1, <2>2, <2>3 DEF HandleBegin
<1>2. ASSUME NEW ok \in BOOLEAN, HandleFinish(i, ok) PROVE Gate'
  <2>1. UNCHANGED <<phase, reserved, mcp, memory, intent>>
    BY <1>2 DEF HandleFinish
  <2>2. CASE attempt' = attempt /\ task' = task
    BY <2>1, <2>2, GateFrame DEF gateVars
  <2>3. CASE Acknowledges(i, ok)
    <3>1. attempt.id = i /\ attempt.id # None /\ GateHeld /\ Holder = task[i]
      BY <2>3, NotNone DEF Gate, Holder, Acknowledges
    <3>2. task[i].at \in {"waiting", "expired"}
      BY <1>0, <2>3, <3>1 DEF GateHeld, Past, Active, Acknowledges
    <3>3. /\ attempt'.id = i /\ attempt'.ticket = attempt.ticket /\ task'[i].at = task[i].at
          /\ task'[i].reply = "ok" => task[i].reply = "ok" \/ phase = "preparing"
      BY <1>2, <2>3, <3>1, Replies DEF Acknowledges
    <3>4. GateHeld'
      BY <2>1, <3>1, <3>2, <3>3 DEF GateHeld, Holder, Past
    <3> QED
      BY <1>2, <3>1, <3>3, <3>4, Replies DEF Gate
  <2> QED
    BY <1>2, <2>2, <2>3 DEF HandleFinish
<1> QED
  BY <1>1, <1>2 DEF Handle

-----------------------------------------------------------------------------
(* The steps of the exit task.                                             *)

\* Where each of them leads.
Leads(i, s) ==
  /\ Preflight(i) => task[i].at = "asking" /\ s \in {"refused", "hooks"}
  /\ Begin(i) => task[i].at = "hooks" /\ s \in {"begun", "refused"}
  /\ Announce(i) => task[i].at = "begun" /\ s = "waiting"
  /\ AnnounceFails(i) => task[i].at = "begun" /\ s = "aborting"
  /\ Expire(i) => task[i].at = "waiting" /\ s = "expired"
  /\ Fail(i) => /\ task[i].at \in {"expired", "waiting", "settling", "draining", "titles", "mcp", "closing"}
                /\ s \in {"aborting", "stuck"}
  /\ Proceed(i) => task[i].at = "waiting" /\ s \in {"settling", "stuck"}
  /\ Settle(i) => task[i].at = "settling" /\ s = "draining"
  /\ StopWork(i) => task[i].at = "draining" /\ s = "titles"
  /\ DrainTitles(i) => task[i].at = "titles" /\ s = "mcp"
  /\ DrainMcp(i) => task[i].at = "mcp" /\ s = "closing"
  /\ Prepare(i) => task[i].at = "closing" /\ s = "final"
  /\ FinalShutdown(i) => task[i].at = "final" /\ s = "closed"
  /\ FinalShutdownFails(i) => task[i].at = "final" /\ s \in {"aborting", "stuck"}
  /\ Leave(i) => task[i].at = "closed" /\ s = "exited"
  /\ TellAborted(i) => task[i].at = "aborting" /\ s = "aborted"

LEMMA TaskMoves ==
  ASSUME TypeOK, NEW i \in Requests, ExitTask(i)
  PROVE  \E s \in Stages : /\ Moved(i, s) /\ Leads(i, s)
                           /\ Goto(i, s) \/ task'[i].failed
<1> USE DEF Stages, Ends
<1>1. ASSUME NEW s \in Stages,
             Goto(i, s) \/ task' = [task EXCEPT ![i].at = s, ![i].failed = TRUE]
      PROVE  Moved(i, s) /\ (Goto(i, s) \/ task'[i].failed)
  BY <1>1, Goes
<1>2. \E s \in Stages : Goto(i, s) \/ task' = [task EXCEPT ![i].at = s, ![i].failed = TRUE]
  <2> USE DEF Abort
  <2>1. CASE Preflight(i) \/ Begin(i) \/ Announce(i) \/ AnnounceFails(i)
    BY <2>1 DEF Preflight, Begin, Announce, AnnounceFails
  <2>2. CASE Expire(i) \/ Fail(i) \/ Proceed(i) \/ Settle(i)
    BY <2>2 DEF Expire, Fail, Proceed, Settle
  <2>3. CASE StopWork(i) \/ DrainTitles(i) \/ DrainMcp(i) \/ Prepare(i)
    BY <2>3 DEF StopWork, DrainTitles, DrainMcp, Prepare
  <2>4. CASE FinalShutdown(i) \/ FinalShutdownFails(i) \/ Leave(i) \/ TellAborted(i)
    BY <2>4 DEF FinalShutdown, FinalShutdownFails, Leave, TellAborted
  <2> QED
    BY <2>1, <2>2, <2>3, <2>4 DEF ExitTask
<1>3. PICK s \in Stages : Moved(i, s) /\ (Goto(i, s) \/ task'[i].failed)
  BY <1>1, <1>2
<1>4. ASSUME NEW t \in Stages,
             Goto(i, t) \/ task' = [task EXCEPT ![i].at = t, ![i].failed = TRUE]
      PROVE  s = t
  BY <1>3, <1>4, <1>1 DEF Moved
<1>5. Preflight(i) => task[i].at = "asking" /\ s \in {"refused", "hooks"}
  BY <1>4 DEF Preflight
<1>6. Begin(i) => task[i].at = "hooks" /\ s \in {"begun", "refused"}
  BY <1>4 DEF Begin
<1>7. /\ Announce(i) => task[i].at = "begun" /\ s = "waiting"
      /\ AnnounceFails(i) => task[i].at = "begun" /\ s = "aborting"
      /\ Expire(i) => task[i].at = "waiting" /\ s = "expired"
  BY <1>4 DEF Announce, AnnounceFails, Expire, TimesOut
<1>8. Fail(i) => /\ task[i].at \in {"expired", "waiting", "settling", "draining", "titles", "mcp", "closing"}
                 /\ s \in {"aborting", "stuck"}
  BY <1>4 DEF Fail, Abort
<1>9. /\ Proceed(i) => task[i].at = "waiting" /\ s \in {"settling", "stuck"}
      /\ Settle(i) => task[i].at = "settling" /\ s = "draining"
      /\ StopWork(i) => task[i].at = "draining" /\ s = "titles"
  BY <1>4 DEF Proceed, Settle, StopWork
<1>10. /\ DrainTitles(i) => task[i].at = "titles" /\ s = "mcp"
       /\ DrainMcp(i) => task[i].at = "mcp" /\ s = "closing"
       /\ Prepare(i) => task[i].at = "closing" /\ s = "final"
  BY <1>4 DEF DrainTitles, DrainMcp, Prepare
<1>11. /\ FinalShutdown(i) => task[i].at = "final" /\ s = "closed"
       /\ Leave(i) => task[i].at = "closed" /\ s = "exited"
       /\ TellAborted(i) => task[i].at = "aborting" /\ s = "aborted"
  BY <1>4 DEF FinalShutdown, Leave, TellAborted
<1>12. FinalShutdownFails(i) => task[i].at = "final" /\ s \in {"aborting", "stuck"}
  BY <1>4 DEF FinalShutdownFails, Abort
<1> QED
  BY <1>3, <1>5, <1>6, <1>7, <1>8, <1>9, <1>10, <1>11, <1>12 DEF Leads

-----------------------------------------------------------------------------
(* The hooks.                                                              *)

LEMMA HooksFrame ==
  ASSUME HooksOwed, UNCHANGED <<hooks, attempt, preflight, task>>
  PROVE  HooksOwed'
BY DEF HooksOwed

LEMMA HooksTask ==
  ASSUME IInv, NEW i \in Requests, ExitTask(i)
  PROVE  HooksOwed'
<1> TypeOK /\ Gate /\ HooksOwed
  BY DEF IInv
<1>1. PICK s \in Stages : Moved(i, s) /\ Leads(i, s)
  BY TaskMoves
\* The holder keeps the attempt.
<1>2. ASSUME task[i].at \in Active, attempt' = attempt PROVE HooksOwed'
  BY <1>2, Holds DEF HooksOwed
<1>3. CASE Preflight(i)
  <2>1. CASE preflight # None
    <3>1. UNCHANGED <<attempt, preflight, hooks>> /\ task[i].at = "asking"
      BY <1>3, <2>1 DEF Preflight
    <3> QED
      BY <1>1, <2>1, <3>1 DEF HooksOwed, Moved, TypeOK
  <2>2. CASE preflight = None
    BY <1>3, <2>2, NotNone, Goes, ZenonT(60) DEF Preflight, HooksOwed, Moved, Stages
  <2> QED
    BY <2>1, <2>2
<1>4. CASE Begin(i)
  <2>1. CASE phase = "running" /\ attempt.id = None
    BY <1>4, <2>1, NotNone DEF Begin, HooksOwed, NoAttempt
  <2>2. CASE ~(phase = "running" /\ attempt.id = None)
    <3>1. task[i].at = "hooks" /\ task' = [task EXCEPT ![i].at = "refused", ![i].failed = TRUE]
      BY <1>4, <2>2 DEF Begin
    <3>2. task'[i].at = "refused"
      BY <3>1, Goes DEF Moved, Stages, Ends
    <3>3. s = "refused" /\ task'[i].failed
      BY <1>1, <3>1, <3>2 DEF Moved
    <3>4. UNCHANGED <<hooks, attempt, preflight>>
      BY <1>4, <2>2 DEF Begin
    <3> QED
      BY <1>1, <3>3, <3>4 DEF HooksOwed, Moved, TypeOK
  <2> QED
    BY <2>1, <2>2
<1>5. CASE Announce(i)
  <2>1. attempt.id = i /\ i # None
    BY <1>5, Holds DEF Announce, Active
  <2>2. attempt'.id = attempt.id
    BY <1>5 DEF Announce, TypeOK
  <2> QED
    BY <2>1, <2>2 DEF HooksOwed
<1>6. CASE AnnounceFails(i)
  BY <1>6 DEF AnnounceFails, Restored, HooksOwed
<1>7. CASE Fail(i)
  BY <1>7, <1>2 DEF Fail, Abort, Restored, HooksOwed, Active
<1>8. CASE FinalShutdownFails(i)
  BY <1>8, <1>2 DEF FinalShutdownFails, Abort, Restored, HooksOwed, Active
<1>9. CASE Expire(i) \/ Proceed(i) \/ Settle(i) \/ StopWork(i) \/ DrainTitles(i) \/ DrainMcp(i)
  BY <1>9, <1>2 DEF Expire, TimesOut, Proceed, Settle, StopWork, DrainTitles, DrainMcp, Active
<1>10. CASE Prepare(i) \/ FinalShutdown(i) \/ Leave(i)
  BY <1>10, <1>2 DEF Prepare, FinalShutdown, Leave, Active
<1>11. CASE TellAborted(i)
  <2>1. task[i].at = "aborting" /\ UNCHANGED <<hooks, attempt, preflight>>
    BY <1>11 DEF TellAborted
  <2> QED
    BY <1>1, <2>1 DEF HooksOwed, Moved, TypeOK
<1> QED
  BY <1>3, <1>4, <1>5, <1>6, <1>7, <1>8, <1>9, <1>10, <1>11 DEF ExitTask

LEMMA HooksStep ==
  ASSUME IInv, Next
  PROVE  HooksOwed'
<1> TypeOK /\ Gate /\ HooksOwed
  BY DEF IInv
<1>1. ASSUME NEW i \in Requests, NEW relocates \in BOOLEAN, NEW enabled \in BOOLEAN,
             Request(i, relocates, enabled)
      PROVE  HooksOwed'
  <2>1. PICK s \in Stages : Moved(i, s)
    BY <1>1, GateRequest DEF Stages, Ends
  <2>2. task[i].at = "none" /\ UNCHANGED <<hooks, attempt, preflight>>
    BY <1>1 DEF Request
  <2> QED
    BY <2>1, <2>2 DEF HooksOwed, Moved, TypeOK
<1>2. ASSUME NEW i \in Requests, Handle(i) PROVE HooksOwed'
  <2>1. UNCHANGED <<hooks, preflight>>
    BY <1>2, HandleFrame
  <2>2. CASE HandleBegin(i)
    BY <2>1, <2>2, HooksFrame DEF HandleBegin
  <2>3. ASSUME NEW ok \in BOOLEAN, HandleFinish(i, ok) PROVE HooksOwed'
    BY <2>1, <2>3, Replies DEF HooksOwed, TypeOK
  <2> QED
    BY <1>2, <2>2, <2>3 DEF Handle
<1>3. CASE PreflightOver
  BY <1>3 DEF PreflightOver, HooksOwed
<1>4. CASE ConnMoves
  BY <1>4, ConnFrame, HooksFrame
<1>5. CASE RunMoves
  BY <1>5, RunFrame, HooksFrame
<1>6. CASE RendererMoves
  BY <1>6, RendererFrame, HooksFrame
<1> QED
  BY <1>1, <1>2, <1>3, <1>4, <1>5, <1>6, HooksTask, Movers

-----------------------------------------------------------------------------
(* The work an exit waits for.                                             *)

QuietStages == {"draining", "titles", "mcp", "closing", "final", "closed", "exited"}

LEMMA QuietTask ==
  ASSUME IInv, NEW i \in Requests, ExitTask(i)
  PROVE  \A j \in Requests : Quiet(j)'
<1> TypeOK /\ \A j \in Requests : Quiet(j)
  BY DEF IInv
<1>0. UNCHANGED <<titles, engine>> /\ (run' = run \/ (Settle(i) /\ ~run'))
  <2>1. Settle(i) => ~run'
    BY DEF Settle
  <2>2. CASE Settle(i)
    BY <2>1, <2>2, ExitTaskFrame
  <2>3. CASE ~Settle(i)
    BY <2>3, ExitTaskFrame
  <2> QED
    BY <2>2, <2>3
<1>1. PICK s \in Stages : Moved(i, s) /\ Leads(i, s)
  BY TaskMoves
<1>2. ASSUME NEW j \in Requests \ {i} PROVE Quiet(j)'
  BY <1>0, <1>1, <1>2 DEF Quiet, Moved
<1>3. task'[i].at = s
  BY <1>1 DEF Moved
<1>4. Quiet(i)'
  <2>1. CASE s \notin QuietStages
    BY <1>3, <2>1 DEF Quiet, QuietStages
  <2>2. CASE Settle(i)
    BY <1>0, <1>1, <1>3, <2>2 DEF Settle, EngineFree, Leads, Quiet
  <2>3. CASE DrainTitles(i)
    BY <1>0, <1>1, <1>3, <2>3 DEF DrainTitles, Leads, Quiet
  <2>4. CASE StopWork(i) \/ DrainMcp(i) \/ Prepare(i) \/ FinalShutdown(i) \/ Leave(i)
    <3>1. <<task[i].at, s>> \in
            {<<"draining", "titles">>, <<"mcp", "closing">>, <<"closing", "final">>,
             <<"final", "closed">>, <<"closed", "exited">>}
      BY <1>1, <2>4 DEF Leads
    <3> QED
      BY <1>0, <1>3, <3>1 DEF Quiet
  <2>5. CASE \/ Preflight(i) \/ Begin(i) \/ Announce(i) \/ AnnounceFails(i) \/ Expire(i)
             \/ Fail(i) \/ Proceed(i) \/ FinalShutdownFails(i) \/ TellAborted(i)
    <3>1. s \notin QuietStages
      BY <1>1, <2>5 DEF Leads, QuietStages
    <3> QED
      BY <2>1, <3>1
  <2> QED
    BY <2>2, <2>3, <2>4, <2>5 DEF ExitTask
<1> QED
  BY <1>2, <1>4

LEMMA QuietStep ==
  ASSUME IInv, Next
  PROVE  \A j \in Requests : Quiet(j)'
<1> TypeOK /\ Gate /\ \A j \in Requests : Quiet(j)
  BY DEF IInv
<1>0. ASSUME \A j \in Requests : task'[j].at = task[j].at, UNCHANGED <<run, engine, titles>>
      PROVE  \A j \in Requests : Quiet(j)'
  BY <1>0 DEF Quiet
<1>1. ASSUME NEW i \in Requests, NEW relocates \in BOOLEAN, NEW enabled \in BOOLEAN,
             Request(i, relocates, enabled)
      PROVE  \A j \in Requests : Quiet(j)'
  <2>1. PICK s \in {"asking", "hooks", "refused"} : Moved(i, s)
    BY <1>1, GateRequest
  <2>2. UNCHANGED <<run, engine, titles>>
    BY <1>1 DEF Request
  <2> QED
    BY <2>1, <2>2 DEF Quiet, Moved
<1>2. ASSUME NEW i \in Requests, Handle(i) PROVE \A j \in Requests : Quiet(j)'
  <2>1. UNCHANGED <<run, engine, titles>>
    BY <1>2, HandleFrame
  <2>2. \A j \in Requests : task'[j].at = task[j].at
    BY <1>2, Replies DEF Handle, HandleBegin
  <2> QED
    BY <1>0, <2>1, <2>2
<1>3. CASE PreflightOver \/ ConnMoves \/ RendererMoves
  BY <1>0, <1>3, ConnFrame, RendererFrame DEF PreflightOver
<1>4. ASSUME RunMoves, NEW j \in Requests PROVE Quiet(j)'
  <2>1. UNCHANGED task
    BY <1>4, RunFrame
  <2>2. task[j].at \in QuietStages => ~AcceptsNew
    BY Holds DEF QuietStages, Active, Past, GateHeld, AcceptsNew
  <2>3. CASE task[j].at \in QuietStages
    BY <1>4, <2>1, <2>2, <2>3 DEF RunMoves, CheckRun, BeginRun, EndRun, Schedule, DontSchedule,
          TitleOver, RunStep, Quiet, QuietStages
  <2>4. CASE task[j].at \notin QuietStages
    BY <2>1, <2>4 DEF Quiet, QuietStages
  <2> QED
    BY <2>3, <2>4
<1> QED
  BY <1>1, <1>2, <1>3, <1>4, QuietTask, Movers

-----------------------------------------------------------------------------
(* The MCP connections.                                                    *)

LEMMA ConnectedFrame ==
  ASSUME NEW c \in Conns, Connected(c), conn' = conn, mcp' = mcp
  PROVE  Connected(c)'
BY DEF Connected

LEMMA ConnectedTask ==
  ASSUME IInv, NEW i \in Requests, ExitTask(i)
  PROVE  (\A c \in Conns : Connected(c)') /\ PermanentAtEnd'
<1> TypeOK /\ Gate /\ PermanentAtEnd /\ \A c \in Conns : Connected(c)
  BY DEF IInv
<1> USE DEF Active
<1>1. PICK s \in Stages : Moved(i, s) /\ Leads(i, s)
  BY TaskMoves
<1>2. ASSUME mcp'.permanent = mcp.permanent, task'[i].at \notin {"closed", "exited"}
      PROVE  PermanentAtEnd'
  BY <1>1, <1>2 DEF PermanentAtEnd, Moved
<1>3. ASSUME Abort(i), ~intent', task[i].at \in Active \ {"begun", "closed", "exited"}
      PROVE  (\A c \in Conns : Connected(c)') /\ PermanentAtEnd'
  <2>1. /\ task'[i].at = "aborting" /\ mcp' = [mcp EXCEPT !.quiescing = None]
        /\ conn' = NextEpoch /\ mcp.quiescing = i /\ ~mcp.permanent
    BY <1>3, AbortFrees
  <2>2. mcp'.permanent = mcp.permanent
    BY <2>1 DEF TypeOK
  <2>3. \A c \in Conns : conn[c].at # "live"
    BY <2>1, NotNone DEF Connected
  <2>4. \A c \in Conns : conn'[c].at = conn[c].at
    BY <2>1 DEF NextEpoch, TypeOK
  <2> QED
    BY <1>2, <2>1, <2>2, <2>3, <2>4 DEF Connected
<1>4. CASE Announce(i) \/ AnnounceFails(i)
  <2>1. conn' = Killed /\ mcp'.permanent = mcp.permanent /\ task[i].at = "begun"
    BY <1>4 DEF Announce, AnnounceFails, TypeOK
  <2>2. ~mcp.permanent
    BY <2>1, Holds DEF GateHeld
  <2>3. \A c \in Conns : conn'[c].at # "live"
    BY <2>1 DEF Killed
  <2>4. task'[i].at \notin {"closed", "exited"}
    BY <1>1, <1>4 DEF Leads, Moved
  <2> QED
    BY <1>2, <2>1, <2>2, <2>3, <2>4 DEF Connected
<1>5. CASE Fail(i)
  <2>1. task[i].at \in {"expired", "waiting", "settling", "draining", "titles", "mcp", "closing"}
    BY <1>5 DEF Fail
  <2>2. ~intent'
    BY <1>5, <2>1, Holds DEF Fail, GateHeld
  <2> QED
    BY <1>3, <1>5, <2>1, <2>2 DEF Fail
<1>6. CASE FinalShutdownFails(i)
  <2>1. CASE Abort(i) /\ intent' = Withdrawn(intent)
    BY <1>3, <1>6, <2>1 DEF FinalShutdownFails, Withdrawn
  <2>2. CASE Goto(i, "stuck") /\ UNCHANGED <<gate, hooks, memory, mcp, conn, intent>>
    <3>1. task'[i].at = "stuck"
      BY <2>2, Goes DEF Moved, Stages, Ends
    <3> QED
      BY <1>2, <2>2, <3>1, ConnectedFrame
  <2> QED
    BY <1>6, <2>1, <2>2 DEF FinalShutdownFails
<1>7. CASE FinalShutdown(i)
  <2>1. mcp' = [mcp EXCEPT !.permanent = TRUE] /\ conn' = conn
    BY <1>7 DEF FinalShutdown
  <2>2. mcp'.permanent = TRUE
    BY <2>1 DEF TypeOK
  <2>3. \A c \in Conns : conn[c].at \in {"idle", "queued"}
    BY <1>7 DEF FinalShutdown, SlotsIdle, HoldsSlot, TypeOK
  <2> QED
    BY <2>1, <2>2, <2>3 DEF Connected, PermanentAtEnd
<1>8. CASE Leave(i)
  <2>1. task[i].at = "closed" /\ conn' = conn /\ mcp' = mcp
    BY <1>8 DEF Leave
  <2> QED
    BY <1>1, <2>1, ConnectedFrame DEF PermanentAtEnd, Moved
<1>9. CASE Preflight(i) \/ Begin(i) \/ Expire(i) \/ Proceed(i) \/ TellAborted(i)
  <2>1. conn' = conn /\ mcp' = mcp
    BY <1>9 DEF Preflight, Begin, Expire, Proceed, TellAborted
  <2>2. task'[i].at \notin {"closed", "exited"}
    BY <1>1, <1>9 DEF Leads, Moved
  <2> QED
    BY <1>2, <2>1, <2>2, ConnectedFrame
<1>10. CASE Settle(i) \/ StopWork(i) \/ DrainTitles(i) \/ DrainMcp(i) \/ Prepare(i)
  <2>1. conn' = conn /\ mcp' = mcp
    BY <1>10 DEF Settle, StopWork, DrainTitles, DrainMcp, Prepare
  <2>2. task'[i].at \notin {"closed", "exited"}
    BY <1>1, <1>10 DEF Leads, Moved
  <2> QED
    BY <1>2, <2>1, <2>2, ConnectedFrame
<1> QED
  BY <1>4, <1>5, <1>6, <1>7, <1>8, <1>9, <1>10 DEF ExitTask

LEMMA ConnectedStep ==
  ASSUME IInv, Next
  PROVE  (\A c \in Conns : Connected(c)') /\ PermanentAtEnd'
<1> TypeOK /\ Gate /\ PermanentAtEnd /\ \A c \in Conns : Connected(c)
  BY DEF IInv
<1>0. ASSUME conn' = conn, mcp' = mcp,
             \A j \in Requests : task'[j].at \in {"closed", "exited"} => task[j].at = task'[j].at
      PROVE  (\A c \in Conns : Connected(c)') /\ PermanentAtEnd'
  BY <1>0, ConnectedFrame DEF PermanentAtEnd
<1>1. ASSUME NEW i \in Requests, NEW relocates \in BOOLEAN, NEW enabled \in BOOLEAN,
             Request(i, relocates, enabled)
      PROVE  (\A c \in Conns : Connected(c)') /\ PermanentAtEnd'
  <2>1. PICK s \in {"asking", "hooks", "refused"} : Moved(i, s)
    BY <1>1, GateRequest
  <2>2. conn' = conn /\ mcp' = mcp
    BY <1>1 DEF Request
  <2> QED
    BY <1>0, <2>1, <2>2 DEF Moved
<1>2. ASSUME NEW i \in Requests, Handle(i)
      PROVE  (\A c \in Conns : Connected(c)') /\ PermanentAtEnd'
  <2>1. conn' = conn /\ mcp' = mcp
    BY <1>2, HandleFrame
  <2>2. \A j \in Requests : task'[j].at = task[j].at
    BY <1>2, Replies DEF Handle, HandleBegin
  <2> QED
    BY <1>0, <2>1, <2>2
<1>3. CASE PreflightOver \/ RunMoves \/ RendererMoves
  BY <1>0, <1>3, RunFrame, RendererFrame DEF PreflightOver
<1>4. CASE ConnMoves
  <2>1. UNCHANGED <<task, mcp>>
    BY <1>4, ConnFrame
  <2>2. PermanentAtEnd'
    BY <2>1 DEF PermanentAtEnd
  <2>3. ASSUME NEW c \in Conns, NEW at, NEW current \in BOOLEAN, McpStep(c, at, current),
               at = "live" => current /\ mcp.quiescing = None,
               mcp.permanent => at \in {"idle", "queued"}
        PROVE  \A d \in Conns : Connected(d)'
    <3>1. conn'[c].at = at /\ conn'[c].current = current
      BY <2>3 DEF McpStep, TypeOK
    <3>2. \A d \in Conns \ {c} : conn'[d] = conn[d]
      BY <2>3 DEF McpStep, TypeOK
    <3> QED
      BY <2>1, <2>3, <3>1, <3>2 DEF Connected
  <2>4. \A c \in Conns : conn[c].current \in BOOLEAN /\ (mcp.permanent => conn[c].at \in {"idle", "queued"})
    BY DEF TypeOK, Connected
  <2>5. ASSUME NEW c \in Conns, Enqueue(c) \/ Acquire(c) \/ Spawn(c) \/ CloseSession(c) \/ Reap(c)
        PROVE  \A d \in Conns : Connected(d)'
    <3>1. CASE Enqueue(c)
      BY <2>3, <3>1 DEF Enqueue
    <3>2. CASE Acquire(c)
      BY <2>3, <2>4, <3>2 DEF Acquire
    <3>3. CASE Spawn(c)
      BY <2>3, <2>4, <3>3 DEF Spawn, Admits
    <3>4. CASE CloseSession(c)
      BY <2>3, <2>4, <3>4 DEF CloseSession
    <3>5. CASE Reap(c)
      BY <2>3, <3>5 DEF Reap
    <3> QED
      BY <2>5, <3>1, <3>2, <3>3, <3>4, <3>5
  <2> QED
    BY <1>4, <2>2, <2>5 DEF ConnMoves
<1> QED
  BY <1>1, <1>2, <1>3, <1>4, ConnectedTask, Movers

-----------------------------------------------------------------------------
(* The renderer.                                                           *)

\* The commands the renderer waits for.
LEMMA AwaitedIs ==
  /\ \A call \in Awaited :
       /\ call.id = renderer.current
       /\ \/ renderer.at = "beginning" /\ call.op = "begin" /\ call.ok
          \/ renderer.at = "finishing" /\ call.op = "finish" /\ call.ok
          \/ renderer.at = "failing" /\ call.op = "finish" /\ ~call.ok
  /\ renderer.at = "finishing" => Ack(renderer.current) \in Awaited
<1>1. CASE renderer.at = "beginning"
  <2>1. Awaited = {[op |-> "begin", id |-> renderer.current, ok |-> TRUE]}
    BY <1>1 DEF Awaited
  <2> QED
    BY <1>1, <2>1
<1>2. CASE renderer.at = "finishing"
  <2>1. Awaited = {[op |-> "finish", id |-> renderer.current, ok |-> TRUE]}
    BY <1>2 DEF Awaited
  <2> QED
    BY <1>2, <2>1 DEF Ack
<1>3. CASE renderer.at = "failing"
  <2>1. Awaited = {[op |-> "finish", id |-> renderer.current, ok |-> FALSE]}
    BY <1>3 DEF Awaited
  <2> QED
    BY <1>3, <2>1
<1>4. CASE renderer.at \notin {"beginning", "finishing", "failing"}
  <2>1. Awaited = {}
    BY <1>4 DEF Awaited
  <2> QED
    BY <1>4, <2>1
<1> QED
  BY <1>1, <1>2, <1>3, <1>4

LEMMA ScreenFrame ==
  ASSUME Screen, UNCHANGED <<renderer, dirty, events, calls, task, attempt>>
  PROVE  Screen'
BY DEF Screen, Awake, Still, Unheard, Saved

\* What the renderer may do to its own state: requests it never heard of stay out of it.
LEMMA RendererTyped ==
  ASSUME TypeOK
  PROVE  /\ renderer \in [current: Requests \cup {None}, at: RendererStages,
                          canceled: SUBSET Requests]
         /\ \A s : /\ [renderer EXCEPT !.at = s].at = s
                   /\ [renderer EXCEPT !.at = s].current = renderer.current
         /\ Unlocked.current = None /\ Unlocked.at = "idle"
BY DEF TypeOK, Unlocked

LEMMA ScreenAsks ==
  ASSUME IInv, Authored \/ Flushed \/ GiveUp
  PROVE  Screen'
<1> TypeOK /\ Screen
  BY DEF IInv
<1>0. UNCHANGED <<dirty, events, task, attempt>>
  BY DEF Authored, Flushed, GiveUp, Ask, RendererStep
<1>1. PICK stage \in {"beginning", "finishing", "failing"}, op \in {"begin", "finish"}, ok \in BOOLEAN :
        /\ renderer' = [renderer EXCEPT !.at = stage]
        /\ calls' = calls \cup {[op |-> op, id |-> renderer.current, ok |-> ok]}
        /\ renderer.at \in {"authoring", "flushing"}
        /\ stage = "finishing" => ~dirty
        /\ op = "finish" /\ ok => stage = "finishing"
  <2>1. CASE Authored
    BY <2>1 DEF Authored, Ask, RendererStep
  <2>2. CASE Flushed
    BY <2>2 DEF Flushed, Ask, RendererStep
  <2>3. CASE GiveUp
    BY <2>3 DEF GiveUp, Ask, RendererStep
  <2> QED
    BY <2>1, <2>2, <2>3
<1>2. renderer'.at = stage /\ renderer'.current = renderer.current
  BY <1>1, RendererTyped
<1>3. Awake' /\ Still'
  BY <1>0, <1>1, <1>2 DEF Screen, Awake, Still
<1>4. ASSUME NEW i \in Requests PROVE Unheard(i)' /\ Saved(i)'
  <2>1. Unheard(i) /\ Saved(i)
    BY DEF Screen
  <2>2. Unheard(i)'
    BY <1>0, <1>1, <1>2, <2>1 DEF Unheard
  <2>3. Ack(i) \in calls' => Ack(i) \in calls \/ (renderer.current = i /\ stage = "finishing")
    BY <1>1 DEF Ack
  <2>4. Saved(i)'
    BY <1>0, <1>1, <1>2, <2>1, <2>3 DEF Saved, Ack
  <2> QED
    BY <2>2, <2>4
<1> QED
  BY <1>3, <1>4 DEF Screen

LEMMA ScreenEdits ==
  ASSUME IInv, Edit \/ Save
  PROVE  Screen'
<1> TypeOK /\ Screen
  BY DEF IInv
<1>1. UNCHANGED <<renderer, events, calls, task, attempt>>
  BY DEF Edit, Save, RendererStep
<1>2. Still'
  BY <1>1 DEF Edit, Save, Screen, Still
<1>3. Awake' /\ \A i \in Requests : Unheard(i)' /\ Saved(i)'
  BY <1>1 DEF Screen, Awake, Unheard, Saved, Ack
<1> QED
  BY <1>2, <1>3 DEF Screen

LEMMA ScreenHears ==
  ASSUME IInv, NEW id \in Requests, Hear(id)
  PROVE  Screen'
<1> TypeOK /\ Gate /\ Screen
  BY DEF IInv
<1>0. UNCHANGED <<dirty, task, attempt>>
  BY DEF Hear, HearPrepare, HearCanceled, RendererStep
<1>1. CASE HearPrepare(id)
  <2>1. events' \subseteq events /\ task[id].at \notin Early
    BY <1>1 DEF HearPrepare, Screen, Unheard
  <2>2. CASE renderer' = renderer /\ calls' = calls
    BY <1>0, <2>1, <2>2 DEF Screen, Awake, Still, Unheard, Saved, Ack
  <2>3. CASE /\ renderer' = renderer
             /\ calls' = calls \cup {[op |-> "finish", id |-> id, ok |-> FALSE]}
    <3>1. \A i \in Requests : Ack(i) \in calls' => Ack(i) \in calls
      BY <2>3 DEF Ack
    <3> QED
      BY <1>0, <2>1, <2>3, <3>1 DEF Screen, Awake, Still, Unheard, Saved, Ack
  <2>4. CASE /\ renderer.current = None /\ calls' = calls
             /\ renderer' = [renderer EXCEPT !.current = id, !.at = "authoring"]
    <3>1. renderer'.current = id /\ renderer'.at = "authoring"
      BY <2>4, RendererTyped
    <3>2. Awake' /\ Still'
      BY <3>1, NotNone DEF Awake, Still
    <3>3. ASSUME NEW i \in Requests PROVE Unheard(i)' /\ Saved(i)'
      BY <1>0, <2>1, <2>4, <3>1, NotNone DEF Screen, Unheard, Saved, Ack
    <3> QED
      BY <3>2, <3>3 DEF Screen
  <2> QED
    BY <1>1, <2>2, <2>3, <2>4 DEF HearPrepare, RendererStep
<1>2. CASE HearCanceled(id)
  <2>1. events' \subseteq events /\ task[id].at = "aborted" /\ calls' = calls
    BY <1>2 DEF HearCanceled, Screen, Unheard
  <2>2. attempt.id # id
    BY <2>1, NotNone DEF Gate, GateHeld, Holder, Active
  <2>3. \/ renderer'.current = renderer.current /\ renderer'.at = renderer.at
        \/ renderer.current = id /\ renderer'.current = None /\ renderer'.at = "idle"
    <3> DEFINE told == [renderer EXCEPT !.canceled = @ \cup {id}]
    <3>1. renderer' = IF renderer.current = id
                      THEN [told EXCEPT !.current = None, !.at = "idle"] ELSE told
      BY <1>2 DEF HearCanceled, RendererStep
    <3>2. told.current = renderer.current /\ told.at = renderer.at
          /\ [told EXCEPT !.current = None, !.at = "idle"].current = None
          /\ [told EXCEPT !.current = None, !.at = "idle"].at = "idle"
      BY RendererTyped
    <3> HIDE DEF told
    <3> QED
      BY <3>1, <3>2
  <2>4. Awake' /\ Still'
    BY <1>0, <2>3 DEF Screen, Awake, Still
  <2>5. ASSUME NEW i \in Requests PROVE Unheard(i)' /\ Saved(i)'
    BY <1>0, <2>1, <2>2, <2>3, NotNone DEF Screen, Unheard, Saved, Ack
  <2> QED
    BY <2>4, <2>5 DEF Screen
<1> QED
  BY <1>1, <1>2 DEF Hear

LEMMA ScreenTask ==
  ASSUME IInv, NEW i \in Requests, ExitTask(i)
  PROVE  Screen'
<1> TypeOK /\ Gate /\ Screen
  BY DEF IInv
<1>0. UNCHANGED <<renderer, dirty, calls>>
  BY ExitTaskFrame
<1>1. PICK s \in Stages : Moved(i, s) /\ Leads(i, s)
  BY TaskMoves
<1>2. /\ \A e \in events' : e \in events \/ (e.id = i /\ s \notin Early)
      /\ [kind |-> "canceled", id |-> i] \in events' =>
           [kind |-> "canceled", id |-> i] \in events \/ s = "aborted"
      /\ \A j \in Requests \ {i} : [kind |-> "canceled", id |-> j] \in events' =>
                                     [kind |-> "canceled", id |-> j] \in events
  <2>1. CASE Announce(i)
    BY <1>1, <2>1 DEF Announce, Leads, Early
  <2>2. CASE TellAborted(i)
    BY <1>1, <2>2 DEF TellAborted, EmitCanceled, Leads, Early
  <2>3. CASE ~Announce(i) /\ ~TellAborted(i)
    BY <2>3 DEF ExitTask, Preflight, Begin, AnnounceFails, Expire, Fail, Proceed, Settle, StopWork,
       DrainTitles, DrainMcp, Prepare, FinalShutdown, FinalShutdownFails, Leave
  <2> QED
    BY <2>1, <2>2, <2>3
<1>3. task[i].at # "aborted" /\ (s \in Early => task[i].at \in Early)
  BY <1>1 DEF ExitTask, Leads, Early
<1>4. \A j \in Requests : attempt'.id = j => attempt.id = j \/ (j = i /\ task[i].at = "hooks")
  <2>1. CASE Begin(i)
    BY <2>1 DEF Begin, NoAttempt
  <2>2. CASE Announce(i)
    BY <2>2 DEF Announce, TypeOK
  <2>3. CASE ~Begin(i) /\ ~Announce(i)
    <3>1. attempt' = attempt \/ attempt' = NoAttempt
      BY <2>3 DEF ExitTask, Preflight, AnnounceFails, Expire, Fail, Abort, Proceed, Settle, StopWork,
       DrainTitles, DrainMcp, Prepare, FinalShutdown, FinalShutdownFails, Leave, TellAborted
    <3> QED
      BY <3>1, NotNone DEF NoAttempt
  <2> QED
    BY <2>1, <2>2, <2>3
<1>5. \A j \in Requests : /\ task'[j].reply = task[j].reply
                          /\ j # i => task'[j] = task[j]
  BY <1>1 DEF Moved
<1>6. Awake' /\ Still'
  BY <1>0 DEF Screen, Awake, Still
<1>7. ASSUME NEW j \in Requests PROVE Unheard(j)'
  <2>1. Unheard(j)
    BY DEF Screen
  <2>2. CASE j = i
    <3>1. task'[i].at = s
      BY <1>1 DEF Moved
    <3> QED
      BY <1>0, <1>2, <1>3, <1>5, <2>1, <2>2, <3>1 DEF Unheard
  <2>3. CASE j # i
    BY <1>0, <1>2, <1>5, <2>1, <2>3 DEF Unheard
  <2> QED
    BY <2>2, <2>3
<1>8. ASSUME NEW j \in Requests PROVE Saved(j)'
  <2>1. Saved(j) /\ Unheard(j)
    BY DEF Screen
  <2>2. CASE attempt.id = j
    BY <1>0, <1>5, <2>1, <2>2 DEF Saved, Ack
  <2>3. CASE attempt.id # j
    <3>1. attempt'.id = j => Ack(j) \notin calls /\ task[j].reply = "none"
      BY <1>4, <2>1, <2>3 DEF Unheard, Early, Ack
    <3> QED
      BY <1>0, <1>5, <3>1 DEF Saved, Ack
  <2> QED
    BY <2>2, <2>3
<1> QED
  BY <1>6, <1>7, <1>8 DEF Screen

LEMMA ScreenHandle ==
  ASSUME IInv, NEW id \in Requests, Handle(id)
  PROVE  Screen'
<1> TypeOK /\ Screen
  BY DEF IInv
<1>0. UNCHANGED <<dirty, events>> /\ task[id].at \notin Early
  BY HandleFrame, HandlesLate
<1>1. PICK call \in calls, accepted \in BOOLEAN :
        /\ call.id = id /\ Answered(call, accepted)
        /\ \/ /\ HandleBegin(id)
              /\ call = [op |-> "begin", id |-> id, ok |-> TRUE]
           \/ \E ok \in BOOLEAN : /\ HandleFinish(id, ok)
                                  /\ call = [op |-> "finish", id |-> id, ok |-> ok]
                                  /\ accepted = Acknowledges(id, ok)
  <2>1. CASE HandleBegin(id)
    BY <2>1 DEF HandleBegin
  <2>2. ASSUME NEW ok \in BOOLEAN, HandleFinish(id, ok)
        PROVE  /\ [op |-> "finish", id |-> id, ok |-> ok] \in calls
               /\ Answered([op |-> "finish", id |-> id, ok |-> ok], Acknowledges(id, ok))
               /\ Acknowledges(id, ok) \in BOOLEAN
    BY <2>2 DEF HandleFinish, Acknowledges
  <2> QED
    BY <2>1, <2>2 DEF Handle
<1>2. /\ attempt'.id = attempt.id
      /\ \A j \in Requests : task'[j].at = task[j].at /\ (j # id => task'[j] = task[j])
      /\ \A j \in Requests : attempt.id # id => task'[j] = task[j]
  BY <1>1, Replies DEF HandleBegin
\* The answer either passes by, or moves the renderer that waits for it.
<1>3. /\ call \notin Awaited => renderer' = renderer
      /\ call \in Awaited =>
           \/ renderer.at = "failing" /\ renderer'.current = None /\ renderer'.at = "idle"
           \/ /\ renderer.at = "beginning" /\ renderer'.current = renderer.current
              /\ renderer'.at \in {"flushing", "failing"}
           \/ /\ renderer.at = "finishing" /\ renderer'.current = renderer.current
              /\ renderer'.at = IF accepted THEN "locked" ELSE "failing"
      /\ \A c \in calls' : \/ c \in calls \ {call}
                           \/ c = [op |-> "finish", id |-> id, ok |-> FALSE]
  <2>1. CASE call \notin Awaited
    BY <1>1, <2>1 DEF Answered
  <2>2. CASE call \in Awaited /\ renderer.at = "failing"
    BY <1>1, <2>2, RendererTyped DEF Answered
  <2>3. CASE call \in Awaited /\ renderer.at # "failing"
    <3>1. renderer.at \in {"beginning", "finishing"}
      BY <2>3, AwaitedIs
    <3>2. CASE accepted
      <4>1. renderer' = [renderer EXCEPT !.at = IF @ = "beginning" THEN "flushing" ELSE "locked"]
            /\ calls' = calls \ {call}
        BY <1>1, <2>3, <3>2 DEF Answered
      <4>2. /\ renderer'.current = renderer.current
            /\ renderer'.at = IF renderer.at = "beginning" THEN "flushing" ELSE "locked"
        BY <4>1, RendererTyped
      <4> QED
        BY <2>3, <3>1, <3>2, <4>1, <4>2
    <3>3. CASE ~accepted
      <4>1. renderer' = [renderer EXCEPT !.at = "failing"]
            /\ calls' = (calls \ {call}) \cup {[op |-> "finish", id |-> id, ok |-> FALSE]}
        BY <1>1, <2>3, <3>3 DEF Answered
      <4>2. renderer'.current = renderer.current /\ renderer'.at = "failing"
        BY <4>1, RendererTyped
      <4> QED
        BY <2>3, <3>1, <3>3, <4>1, <4>2
    <3> QED
      BY <3>2, <3>3
  <2> QED
    BY <2>1, <2>2, <2>3
<1>4. Awake' /\ Still'
  BY <1>0, <1>3 DEF Screen, Awake, Still
<1>5. ASSUME NEW j \in Requests PROVE Unheard(j)'
  <2>1. Unheard(j) /\ (renderer'.current = renderer.current \/ renderer'.current = None)
    BY <1>3 DEF Screen
  <2>2. task'[j].at \in Early => j # id
    BY <1>0, <1>2
  <2>3. task'[j].at \in Early => \A c \in calls' : c.id # j
    BY <1>2, <1>3, <2>1, <2>2 DEF Unheard
  <2> QED
    BY <1>0, <1>2, <2>1, <2>2, <2>3, NotNone DEF Unheard
<1>6. ASSUME NEW j \in Requests, attempt.id = j PROVE Saved(j)'
  <2>1. Saved(j)
    BY DEF Screen
  <2>2. Ack(j) \in calls' => Ack(j) \in calls \ {call}
    BY <1>3 DEF Ack
  <2>3. task'[j].reply = "ok" => \/ task[j].reply = "ok"
                                 \/ /\ call = Ack(id) /\ j = id /\ accepted
    <3>1. CASE HandleBegin(id)
      BY <3>1 DEF HandleBegin
    <3>2. ASSUME NEW ok \in BOOLEAN, HandleFinish(id, ok),
                 call = [op |-> "finish", id |-> id, ok |-> ok], accepted = Acknowledges(id, ok)
          PROVE  task'[j].reply = "ok" => \/ task[j].reply = "ok"
                                          \/ /\ call = Ack(id) /\ j = id /\ accepted
      BY <3>2, Replies DEF Ack
    <3> QED
      BY <1>1, <3>1, <3>2
  \* An answer the renderer waits for, while it waits for none of this attempt's.
  <2>4. CASE call \in Awaited /\ call # Ack(j)
    <3>1. ~(renderer.current = j /\ renderer.at \in {"finishing", "locked"})
      BY <1>1, <2>4, AwaitedIs DEF Ack
    <3> QED
      BY <1>1, <1>6, <2>1, <2>2, <2>3, <2>4, <3>1 DEF Saved, Ack
  <2>5. CASE call \notin Awaited /\ call # Ack(j)
    BY <1>3, <1>6, <2>1, <2>2, <2>3, <2>5 DEF Saved, Ack
  <2>6. CASE call = Ack(j)
    <3>1. renderer.current = j /\ renderer.at = "finishing" /\ call \in Awaited /\ j = id
      BY <1>1, <1>6, <2>1, <2>6, AwaitedIs DEF Saved, Ack
    <3>2. task[j].reply # "ok"
      BY <1>6, <2>1, <3>1 DEF Saved
    <3>3. renderer'.current = j /\ renderer'.at = IF accepted THEN "locked" ELSE "failing"
      BY <1>3, <3>1
    <3>4. Ack(j) \notin calls'
      BY <2>2, <2>6
    <3> QED
      BY <2>3, <3>2, <3>3, <3>4 DEF Saved, Ack
  <2> QED
    BY <2>4, <2>5, <2>6
<1>7. \A j \in Requests : Saved(j)'
  <2>1. ASSUME NEW j \in Requests, attempt.id # j PROVE Saved(j)'
    BY <1>2, <2>1 DEF Saved
  <2> QED
    BY <1>6, <2>1
<1> QED
  BY <1>4, <1>5, <1>7 DEF Screen

LEMMA ScreenStep ==
  ASSUME IInv, Next
  PROVE  Screen'
<1> TypeOK /\ Gate /\ Screen
  BY DEF IInv
<1>1. ASSUME NEW i \in Requests, NEW relocates \in BOOLEAN, NEW enabled \in BOOLEAN,
             Request(i, relocates, enabled)
      PROVE  Screen'
  <2>1. PICK s \in {"asking", "hooks", "refused"} : Moved(i, s)
    BY <1>1, GateRequest
  <2>2. task[i].at = "none" /\ UNCHANGED <<attempt, renderer, dirty, events, calls>>
    BY <1>1 DEF Request
  <2>3. Awake' /\ Still'
    BY <2>2 DEF Screen, Awake, Still
  <2>4. ASSUME NEW j \in Requests PROVE Unheard(j)' /\ Saved(j)'
    BY <2>1, <2>2 DEF Screen, Unheard, Saved, Moved, Early, Ack
  <2> QED
    BY <2>3, <2>4 DEF Screen
<1>2. CASE PreflightOver \/ ConnMoves \/ RunMoves
  BY <1>2, ConnFrame, RunFrame, ScreenFrame DEF PreflightOver
<1>3. CASE RendererMoves
  BY <1>3, ScreenAsks, ScreenEdits, ScreenHears DEF RendererMoves
<1> QED
  BY <1>1, <1>2, <1>3, ScreenTask, ScreenHandle, Movers

-----------------------------------------------------------------------------
(* The types.                                                              *)

LEMMA TypesTask ==
  ASSUME IInv, NEW i \in Requests, ExitTask(i)
  PROVE  TypeOK'
<1> TypeOK /\ Gate
  BY DEF IInv
<1> USE DEF Phases
<1>1. task' \in [Requests -> Task] /\ UNCHANGED <<titles, engine, renderer, dirty, calls>>
  BY TaskMoves, ExitTaskFrame DEF Moved
<1>2. run' \in BOOLEAN
  <2>1. CASE Settle(i)
    BY <2>1 DEF Settle
  <2>2. CASE ~Settle(i)
    BY <2>2, ExitTaskFrame DEF TypeOK
  <2> QED
    BY <2>1, <2>2
<1>3. NoAttempt \in [id: Requests \cup {None}, replied: BOOLEAN, ticket: BOOLEAN]
  BY DEF NoAttempt
<1>4. /\ \A c \in Conns : Killed[c].at \in {"idle", "queued", "holding", "live", "dying"}
      /\ Killed \in [Conns -> [at: {"idle", "queued", "holding", "live", "dying"}, current: BOOLEAN]]
      /\ NextEpoch \in [Conns -> [at: {"idle", "queued", "holding", "live", "dying"}, current: BOOLEAN]]
  BY DEF TypeOK, Killed, NextEpoch
<1>5. ASSUME Abort(i)
      PROVE  /\ phase' \in Phases /\ reserved' \in BOOLEAN /\ hooks' \in {"open", "paused"}
             /\ attempt' \in [id: Requests \cup {None}, replied: BOOLEAN, ticket: BOOLEAN]
             /\ memory' \in {"open", "stopped"}
             /\ mcp' \in [quiescing: Requests \cup {None}, permanent: BOOLEAN]
             /\ conn' \in [Conns -> [at: {"idle", "queued", "holding", "live", "dying"}, current: BOOLEAN]]
  BY <1>3, <1>4, <1>5, ZenonT(60) DEF Abort, TypeOK, Restored
<1>6. CASE Preflight(i) \/ Expire(i) \/ Proceed(i)
  <2>1. phase' \in Phases /\ preflight' \in Requests \cup {None} /\ hooks' \in {"open", "paused"}
    BY <1>6 DEF Preflight, Expire, Proceed, TypeOK
  <2>2. UNCHANGED <<reserved, attempt, memory, mcp, conn, run, intent, events>>
    BY <1>6 DEF Preflight, Expire, Proceed
  <2> QED
    BY <1>1, <1>2, <2>1, <2>2 DEF TypeOK
<1>7. CASE Begin(i)
  <2>1. /\ attempt' \in [id: Requests \cup {None}, replied: BOOLEAN, ticket: BOOLEAN]
        /\ reserved' \in BOOLEAN
    BY <1>3, <1>7 DEF Begin, TypeOK
  <2>2. UNCHANGED <<phase, preflight, hooks, memory, mcp, conn, intent, events>>
    BY <1>7 DEF Begin
  <2> QED
    BY <1>1, <1>2, <2>1, <2>2 DEF TypeOK
<1>8. CASE Announce(i)
  <2>1. [kind |-> "prepare", id |-> i] \in Events
    BY DEF Events
  <2>2. /\ attempt' \in [id: Requests \cup {None}, replied: BOOLEAN, ticket: BOOLEAN]
        /\ mcp' \in [quiescing: Requests \cup {None}, permanent: BOOLEAN]
    BY <1>8 DEF Announce, TypeOK
  <2>3. /\ hooks' = "paused" /\ events' = events \cup {[kind |-> "prepare", id |-> i]}
        /\ conn' = Killed /\ UNCHANGED <<phase, reserved, preflight, memory, intent>>
    BY <1>8 DEF Announce
  <2>4. events' \subseteq Events
    BY <2>1, <2>3 DEF TypeOK
  <2>5. conn' \in [Conns -> [at: {"idle", "queued", "holding", "live", "dying"}, current: BOOLEAN]]
    BY <1>4, <2>3
  <2> QED
    BY <1>1, <1>2, <2>2, <2>3, <2>4, <2>5 DEF TypeOK
<1>9. CASE AnnounceFails(i)
  <2>1. /\ attempt' = NoAttempt /\ reserved' = FALSE /\ hooks' = "open" /\ conn' = Killed
        /\ UNCHANGED <<phase, preflight, memory, mcp, intent, events>>
    BY <1>9 DEF AnnounceFails, Restored
  <2>2. conn' \in [Conns -> [at: {"idle", "queued", "holding", "live", "dying"}, current: BOOLEAN]]
    BY <1>4, <2>1
  <2>3. attempt' \in [id: Requests \cup {None}, replied: BOOLEAN, ticket: BOOLEAN]
    BY <1>3, <2>1
  <2>4. reserved' \in BOOLEAN /\ hooks' \in {"open", "paused"}
    BY <2>1
  <2> QED
    BY <1>1, <1>2, <2>1, <2>2, <2>3, <2>4 DEF TypeOK
<1>10. CASE Fail(i)
  BY <1>1, <1>2, <1>5, <1>10 DEF Fail, TypeOK
<1>11. CASE Settle(i) \/ StopWork(i) \/ DrainTitles(i) \/ DrainMcp(i) \/ Prepare(i)
  <2>1. intent' \in BOOLEAN
    BY <1>11 DEF Settle, StopWork, DrainTitles, DrainMcp, Prepare, TypeOK, Task
  <2>2. hooks' \in {"open", "paused"} /\ memory' \in {"open", "stopped"}
    BY <1>11 DEF Settle, StopWork, DrainTitles, DrainMcp, Prepare, TypeOK
  <2>3. UNCHANGED <<phase, reserved, attempt, preflight, mcp, conn, events>>
    BY <1>11 DEF Settle, StopWork, DrainTitles, DrainMcp, Prepare
  <2> QED
    BY <1>1, <1>2, <2>1, <2>2, <2>3 DEF TypeOK
<1>12. CASE FinalShutdown(i) \/ Leave(i)
  <2>1. phase' \in Phases /\ mcp' \in [quiescing: Requests \cup {None}, permanent: BOOLEAN]
    BY <1>12 DEF FinalShutdown, Leave, TypeOK
  <2>2. UNCHANGED <<reserved, attempt, preflight, hooks, memory, conn, intent, events>>
    BY <1>12 DEF FinalShutdown, Leave
  <2> QED
    BY <1>1, <1>2, <2>1, <2>2 DEF TypeOK
<1>13. CASE FinalShutdownFails(i)
  BY <1>1, <1>2, <1>5, <1>13, ZenonT(60) DEF FinalShutdownFails, Withdrawn, TypeOK
<1>14. CASE TellAborted(i)
  <2>1. [kind |-> "canceled", id |-> i] \in Events
    BY DEF Events
  <2> QED
    BY <1>1, <1>2, <1>14, <2>1 DEF TellAborted, EmitCanceled, TypeOK
<1> QED
  BY <1>6, <1>7, <1>8, <1>9, <1>10, <1>11, <1>12, <1>13, <1>14 DEF ExitTask

LEMMA TypesHandle ==
  ASSUME IInv, NEW i \in Requests, Handle(i)
  PROVE  TypeOK'
<1> TypeOK
  BY DEF IInv
<1>1. UNCHANGED <<reserved, preflight, hooks, work, intent, dirty, events>>
  BY HandleFrame
<1>2. PICK call \in calls, accepted \in BOOLEAN : Answered(call, accepted)
  BY DEF Handle, HandleBegin, HandleFinish, Acknowledges
<1>3. renderer' \in [current: Requests \cup {None}, at: RendererStages, canceled: SUBSET Requests]
  <2>1. /\ Unlocked \in [current: Requests \cup {None}, at: RendererStages, canceled: SUBSET Requests]
        /\ \A s \in RendererStages : [renderer EXCEPT !.at = s] \in
             [current: Requests \cup {None}, at: RendererStages, canceled: SUBSET Requests]
    BY DEF TypeOK, Unlocked, RendererStages
  <2>2. \/ renderer' = renderer \/ renderer' = Unlocked
        \/ \E s \in RendererStages : renderer' = [renderer EXCEPT !.at = s]
    BY <1>2 DEF Answered, RendererStages
  <2> QED
    BY <2>1, <2>2 DEF TypeOK
<1>4. calls' \subseteq Calls
  <2>1. [op |-> "finish", id |-> call.id, ok |-> FALSE] \in Calls /\ calls \subseteq Calls
    BY <1>2 DEF TypeOK, Calls
  <2>2. calls' \subseteq calls \cup {[op |-> "finish", id |-> call.id, ok |-> FALSE]}
    BY <1>2 DEF Answered
  <2> QED
    BY <2>1, <2>2
<1>5. /\ phase' \in Phases /\ task' \in [Requests -> Task]
      /\ attempt' \in [id: Requests \cup {None}, replied: BOOLEAN, ticket: BOOLEAN]
  <2>1. CASE HandleBegin(i)
    BY <2>1 DEF HandleBegin, TypeOK, Phases
  <2>2. ASSUME NEW ok \in BOOLEAN, HandleFinish(i, ok)
        PROVE  /\ phase' \in Phases /\ task' \in [Requests -> Task]
               /\ attempt' \in [id: Requests \cup {None}, replied: BOOLEAN, ticket: BOOLEAN]
    <3>1. task' \in [Requests -> Task]
      BY <2>2, Replies
    <3> QED
      BY <2>2, <3>1 DEF HandleFinish, TypeOK
  <2> QED
    BY <2>1, <2>2 DEF Handle
<1> QED
  BY <1>1, <1>3, <1>4, <1>5 DEF TypeOK

LEMMA TypesRenderer ==
  ASSUME IInv, RendererMoves
  PROVE  TypeOK'
<1> TypeOK /\ Awake
  BY DEF IInv, Screen
<1>1. UNCHANGED <<gate, task, preflight, hooks, work, intent>>
  BY RendererFrame
<1>2. /\ renderer \in [current: Requests \cup {None}, at: RendererStages, canceled: SUBSET Requests]
      /\ \A s \in RendererStages : [renderer EXCEPT !.at = s] \in
           [current: Requests \cup {None}, at: RendererStages, canceled: SUBSET Requests]
      /\ renderer.at # "idle" => renderer.current \in Requests
  BY DEF TypeOK, Awake
<1>3. ASSUME Authored \/ Flushed \/ GiveUp PROVE TypeOK'
  <2>1. PICK s \in RendererStages, op \in {"begin", "finish"}, ok \in BOOLEAN :
          Ask(s, op, ok) /\ renderer.at # "idle" /\ UNCHANGED <<dirty, events>>
    <3>1. CASE Authored
      BY <3>1 DEF Authored, RendererStages
    <3>2. CASE Flushed
      BY <3>2 DEF Flushed, RendererStages
    <3>3. CASE GiveUp
      BY <3>3 DEF GiveUp, RendererStages
    <3> QED
      BY <1>3, <3>1, <3>2, <3>3
  <2>2. [op |-> op, id |-> renderer.current, ok |-> ok] \in Calls
    BY <1>2, <2>1 DEF Calls
  <2>3. /\ renderer' = [renderer EXCEPT !.at = s]
        /\ calls' = calls \cup {[op |-> op, id |-> renderer.current, ok |-> ok]}
    BY <2>1 DEF Ask, RendererStep
  <2>4. renderer' \in [current: Requests \cup {None}, at: RendererStages, canceled: SUBSET Requests]
    BY <1>2, <2>3
  <2>5. calls' \subseteq Calls
    BY <2>2, <2>3 DEF TypeOK
  <2> QED
    BY <1>1, <2>1, <2>4, <2>5 DEF TypeOK
<1>4. ASSUME Edit \/ Save PROVE TypeOK'
  <2>1. dirty' \in BOOLEAN /\ UNCHANGED <<renderer, events, calls>>
    BY <1>4 DEF Edit, Save, RendererStep
  <2> QED
    BY <1>1, <2>1 DEF TypeOK
<1>5. ASSUME NEW id \in Requests, HearPrepare(id) PROVE TypeOK'
  <2>1. [op |-> "finish", id |-> id, ok |-> FALSE] \in Calls
    BY DEF Calls
  <2>2. [renderer EXCEPT !.current = id, !.at = "authoring"] \in
          [current: Requests \cup {None}, at: RendererStages, canceled: SUBSET Requests]
    BY <1>2, ZenonT(60) DEF RendererStages
  <2>3. events' \subseteq events /\ dirty' = dirty
    BY <1>5 DEF HearPrepare
  <2>4. renderer' \in [current: Requests \cup {None}, at: RendererStages, canceled: SUBSET Requests]
    BY <1>2, <1>5, <2>2 DEF HearPrepare, RendererStep
  <2>5. calls' \subseteq Calls
    BY <1>5, <2>1 DEF HearPrepare, TypeOK
  <2> QED
    BY <1>1, <2>3, <2>4, <2>5 DEF TypeOK
<1>6. ASSUME NEW id \in Requests, HearCanceled(id) PROVE TypeOK'
  <2> DEFINE told == [renderer EXCEPT !.canceled = @ \cup {id}]
  <2>1. told \in [current: Requests \cup {None}, at: RendererStages, canceled: SUBSET Requests]
    BY <1>2
  <2>2. renderer' = told \/ renderer' = [told EXCEPT !.current = None, !.at = "idle"]
    BY <1>6 DEF HearCanceled, RendererStep
  <2> HIDE DEF told
  <2>3. renderer' \in [current: Requests \cup {None}, at: RendererStages, canceled: SUBSET Requests]
    BY <2>1, <2>2 DEF RendererStages
  <2>4. events' \subseteq events /\ UNCHANGED <<dirty, calls>>
    BY <1>6 DEF HearCanceled
  <2> QED
    BY <1>1, <2>3, <2>4 DEF TypeOK
<1> QED
  BY <1>3, <1>4, <1>5, <1>6 DEF RendererMoves, Hear

LEMMA TypesStep ==
  ASSUME IInv, Next
  PROVE  TypeOK'
<1> TypeOK
  BY DEF IInv
<1>1. ASSUME NEW i \in Requests, NEW relocates \in BOOLEAN, NEW enabled \in BOOLEAN,
             Request(i, relocates, enabled)
      PROVE  TypeOK'
  <2>1. task' \in [Requests -> Task]
    BY <1>1, GateRequest DEF Moved, IInv
  <2> QED
    BY <1>1, <2>1 DEF Request, TypeOK
<1>2. CASE PreflightOver
  BY <1>2 DEF PreflightOver, TypeOK
<1>3. CASE ConnMoves
  <2>1. ASSUME NEW c \in Conns, NEW at \in {"idle", "queued", "holding", "live", "dying"},
               NEW current \in BOOLEAN, McpStep(c, at, current)
        PROVE  conn' \in [Conns -> [at: {"idle", "queued", "holding", "live", "dying"}, current: BOOLEAN]]
    BY <2>1 DEF McpStep, TypeOK
  <2>2. ASSUME NEW c \in Conns
        PROVE  conn[c].current \in BOOLEAN
    BY DEF TypeOK
  <2>3. conn' \in [Conns -> [at: {"idle", "queued", "holding", "live", "dying"}, current: BOOLEAN]]
    BY <1>3, <2>1, <2>2 DEF ConnMoves, Enqueue, Acquire, Spawn, CloseSession, Reap
  <2> QED
    BY <1>3, <2>3, ConnFrame DEF TypeOK
<1>4. CASE RunMoves
  <2>1. engine' \in {"free", "starting", "ending"} /\ run' \in BOOLEAN /\ titles' \subseteq TitleJobs
    BY <1>4 DEF RunMoves, CheckRun, BeginRun, EndRun, Schedule, DontSchedule, TitleOver, RunStep,
                TypeOK
  <2> QED
    BY <1>4, <2>1, RunFrame DEF TypeOK
<1> QED
  BY <1>1, <1>2, <1>3, <1>4, TypesTask, TypesHandle, TypesRenderer, Movers

-----------------------------------------------------------------------------
(* The invariant, and what follows from it.                                *)

LEMMA IInvInit == Init => IInv
<1> SUFFICES ASSUME Init PROVE IInv
  OBVIOUS
<1> USE NotNone DEF Init, NoAttempt
<1>1. TypeOK
  BY DEF TypeOK, Phases, Task, Stages, RendererStages
<1>2. Gate /\ HooksOwed /\ PermanentAtEnd
  BY DEF Gate, GateFree, Active, HooksOwed, PermanentAtEnd
<1>3. (\A i \in Requests : Quiet(i)) /\ \A c \in Conns : Connected(c)
  BY DEF Quiet, Connected
<1>4. Screen
  BY DEF Screen, Awake, Still, Unheard, Saved
<1> QED
  BY <1>1, <1>2, <1>3, <1>4 DEF IInv

LEMMA GateStep ==
  ASSUME IInv, Next
  PROVE  Gate'
<1> TypeOK /\ Gate
  BY DEF IInv
<1>1. CASE PreflightOver \/ ConnMoves \/ RunMoves \/ RendererMoves
  BY <1>1, ConnFrame, RunFrame, RendererFrame, GateFrame DEF PreflightOver, gateVars
<1> QED
  BY <1>1, GateRequest, GateTask, GateHandle, Movers

LEMMA IInvStep == IInv /\ [Next]_vars => IInv'
<1> SUFFICES ASSUME IInv, [Next]_vars PROVE IInv'
  OBVIOUS
<1>1. CASE Next
  BY <1>1, TypesStep, GateStep, HooksStep, QuietStep, ConnectedStep, ScreenStep DEF IInv
<1>2. CASE UNCHANGED vars
  <2>1. TypeOK'
    BY <1>2 DEF IInv, TypeOK, vars
  <2>2. Gate' /\ HooksOwed' /\ PermanentAtEnd'
    BY <1>2, GateFrame, HooksFrame DEF IInv, PermanentAtEnd, vars, gateVars
  <2>3. (\A i \in Requests : Quiet(i)') /\ \A c \in Conns : Connected(c)'
    BY <1>2 DEF IInv, Quiet, Connected, vars
  <2>4. Screen'
    BY <1>2, ScreenFrame DEF IInv, vars
  <2> QED
    BY <2>1, <2>2, <2>3, <2>4 DEF IInv
<1> QED
  BY <1>1, <1>2

LEMMA IInvHolds == Spec => []IInv
BY IInvInit, IInvStep, PTL DEF Spec

\* Every variable of the exit has its type, whatever the requests, late commands and
\* events, MCP callers, runs and titles do.
THEOREM TypeCorrect == Spec => []TypeOK
<1>1. IInv => TypeOK
  BY DEF IInv
<1> QED
  BY <1>1, IInvHolds, PTL

LEMMA SavedBehindGate == IInv => NothingUnsaved
<1>1. ASSUME IInv, phase \in {"draining", "ready"} PROVE ~dirty
  <2>1. attempt.id \in Requests /\ GateHeld
    BY <1>1 DEF IInv, TypeOK, Gate, GateFree
  <2>2. task[attempt.id].reply = "ok"
    BY <1>1, <2>1 DEF GateHeld, Holder, Active, Past
  <2> QED
    BY <1>1, <2>1, <2>2 DEF IInv, Screen, Saved, Still
<1> QED
  BY <1>1 DEF NothingUnsaved

\* lifecycle.rs drains only for the attempt whose drafts exit-preparation.ts has saved:
\* behind the gate no edit is left that the Store does not have.
THEOREM NothingLeftUnsaved == Spec => []NothingUnsaved
BY SavedBehindGate, IInvHolds, PTL

\* What the exit has stopped and waited for, it finds stopped when it leaves: no run after
\* the settlement, no title job after its drain, no MCP process once the registry is shut.
THEOREM StaysQuiet == Spec => []QuietOnceDrained
<1>1. IInv => QuietOnceDrained
  BY DEF IInv, QuietOnceDrained, Quiet, PermanentAtEnd, Connected
<1> QED
  BY <1>1, IInvHolds, PTL

\* mcp_runtime.rs: no process of an epoch that a barrier has ended is alive.
THEOREM NoneFromOldEpochs == Spec => []LiveIsAdmitted
<1>1. IInv => LiveIsAdmitted
  BY DEF IInv, LiveIsAdmitted, Connected
<1> QED
  BY <1>1, IInvHolds, PTL

\* An exit that was given up, at whatever stage, leaves open everything it had closed.
THEOREM AbortsRestore == Spec => []GatesRestored
<1>1. IInv => GatesRestored
  BY DEF IInv, GatesRestored, Gate, GateFree, HooksOwed, TypeOK
<1> QED
  BY <1>1, IInvHolds, PTL

\* No durable relocation request is left behind an application that keeps running.
THEOREM IntentsOnlyAtExit == Spec => []IntentOnlyAtExit
<1>1. ASSUME IInv, intent PROVE phase \in {"draining", "ready"}
  BY <1>1 DEF IInv, Gate, GateFree, GateHeld, Past
<1>2. IInv => IntentOnlyAtExit
  BY <1>1 DEF IntentOnlyAtExit
<1> QED
  BY <1>2, IInvHolds, PTL

-----------------------------------------------------------------------------
(* How far a request has come.  Each has only so many stages and one       *)
(* answer, which is why one fairness condition for all of them is enough.  *)

StageNo(at) ==
  CASE at = "none" -> 0
    [] at = "asking" -> 1
    [] at = "hooks" -> 2
    [] at = "begun" -> 3
    [] at = "waiting" -> 4
    [] at \in {"expired", "settling"} -> 5
    [] at = "draining" -> 6
    [] at = "titles" -> 7
    [] at = "mcp" -> 8
    [] at = "closing" -> 9
    [] at = "final" -> 10
    [] at = "closed" -> 11
    [] at = "aborting" -> 12
    [] at \in Ends -> 13

Later(i) == StageNo(task[i].at) < StageNo(task'[i].at) /\ task'[i].reply = task[i].reply

IsAnswered(i) ==
  /\ task[i].at \in {"waiting", "expired"} /\ task'[i].at = task[i].at
  /\ task[i].reply = "none" /\ task'[i].reply # "none"

\* A request only goes to later stages, and is answered at most once, while it waits.
RequestsGoForward ==
  [][\A i \in Requests : task'[i] = task[i] \/ Later(i) \/ IsAnswered(i)]_vars

\* The host's reply channel is used once.
Unanswered ==
  \A i \in Requests : attempt.id = i /\ ~attempt.replied => task[i].reply = "none"

LEMMA TaskForward ==
  ASSUME IInv, NEW i \in Requests, ExitTask(i)
  PROVE  Later(i) /\ \A j \in Requests \ {i} : task'[j] = task[j]
<1>1. PICK s \in Stages : Moved(i, s) /\ Leads(i, s)
  BY TaskMoves DEF IInv
<1>2. StageNo(task[i].at) < StageNo(s)
  BY <1>1 DEF ExitTask, Leads, StageNo, Ends
<1> QED
  BY <1>1, <1>2 DEF Later, Moved

LEMMA HandleForward ==
  ASSUME IInv, Unanswered, NEW i \in Requests, Handle(i), NEW j \in Requests
  PROVE  task'[j] = task[j] \/ IsAnswered(j)
<1>1. CASE HandleBegin(i)
  BY <1>1 DEF HandleBegin
<1>2. ASSUME NEW ok \in BOOLEAN, HandleFinish(i, ok) PROVE task'[j] = task[j] \/ IsAnswered(j)
  <2>0. TypeOK /\ Gate
    BY DEF IInv
  <2>1. CASE task' = task
    BY <2>1
  <2>2. CASE Acknowledges(i, ok) /\ ~attempt.replied /\ task'[i].reply = IF ok THEN "ok" ELSE "error"
    <3>1. attempt.id = i /\ GateHeld /\ Holder = task[i]
      BY <2>0, <2>2, NotNone DEF Gate, Holder, Acknowledges
    <3>2. task[i].at \in {"waiting", "expired"}
      BY <2>2, <3>1, HandlesLate DEF IInv, GateHeld, Past, Active, Acknowledges, Early
    <3>3. task[i].reply = "none" /\ task'[i].reply # "none"
      BY <2>2, <3>1 DEF Unanswered
    <3>4. task'[i].at = task[i].at /\ (j # i => task'[j] = task[j])
      BY <1>2, <2>0, Replies
    <3> QED
      BY <3>2, <3>3, <3>4 DEF IsAnswered
  <2> QED
    BY <1>2, <2>0, <2>1, <2>2, Replies
<1> QED
  BY <1>1, <1>2 DEF Handle

LEMMA RequestForward ==
  ASSUME IInv, NEW i \in Requests, NEW relocates \in BOOLEAN, NEW enabled \in BOOLEAN,
         Request(i, relocates, enabled)
  PROVE  Later(i) /\ \A j \in Requests \ {i} : task'[j] = task[j]
<1>1. task \in [Requests -> Task] /\ task[i].at = "none"
  BY DEF IInv, TypeOK, Request
<1>2. PICK s \in {"hooks", "asking", "refused"} :
        task' = [task EXCEPT ![i].relocates = relocates, ![i].at = s]
  BY DEF Request
<1>3. task'[i].at = s /\ task'[i].reply = task[i].reply /\ \A j \in Requests \ {i} : task'[j] = task[j]
  BY <1>1, <1>2 DEF Task
<1>4. StageNo("none") < StageNo(s)
  BY DEF StageNo, Ends
<1> QED
  BY <1>1, <1>3, <1>4 DEF Later

LEMMA UnansweredStep ==
  ASSUME IInv, Unanswered, [Next]_vars
  PROVE  Unanswered'
<1>0. TypeOK
  BY DEF IInv
<1>1. ASSUME NEW i \in Requests, ExitTask(i) PROVE Unanswered'
  <2>1. \A j \in Requests : task'[j].reply = task[j].reply
    BY <1>0, <1>1, TaskMoves DEF Moved
  <2>2. \/ attempt'.id = attempt.id /\ attempt'.replied = attempt.replied
        \/ attempt'.id = None
        \/ attempt'.id = i /\ task[i].at = "hooks"
    BY <1>0, <1>1 DEF ExitTask, Preflight, Begin, Announce, AnnounceFails, Expire, Fail, Proceed, Settle,
                      StopWork, DrainTitles, DrainMcp, Prepare, FinalShutdown, FinalShutdownFails, Leave,
                      TellAborted, Abort, NoAttempt, TypeOK
  <2>3. task[i].at = "hooks" => task[i].reply = "none"
    BY DEF IInv, Screen, Unheard, Early
  <2> QED
    BY <2>1, <2>2, <2>3, NotNone DEF Unanswered
<1>2. ASSUME NEW i \in Requests, Handle(i) PROVE Unanswered'
  <2>1. CASE HandleBegin(i)
    BY <2>1 DEF HandleBegin, Unanswered
  <2>2. ASSUME NEW ok \in BOOLEAN, HandleFinish(i, ok) PROVE Unanswered'
    <3>1. CASE Acknowledges(i, ok)
      <4>1. attempt'.replied = TRUE /\ attempt' = [attempt EXCEPT !.replied = TRUE]
        BY <1>0, <2>2, <3>1 DEF HandleFinish, Acknowledges, TypeOK
      <4> QED
        BY <4>1 DEF Unanswered
    <3>2. CASE ~Acknowledges(i, ok)
      BY <2>2, <3>2 DEF HandleFinish, Unanswered
    <3> QED
      BY <3>1, <3>2
  <2> QED
    BY <1>2, <2>1, <2>2 DEF Handle
<1>3. ASSUME NEW i \in Requests, NEW relocates \in BOOLEAN, NEW enabled \in BOOLEAN,
             Request(i, relocates, enabled)
      PROVE  Unanswered'
  <2>1. \A j \in Requests : task'[j].reply = task[j].reply
    BY <1>3, RequestForward DEF Later
  <2> QED
    BY <1>3, <2>1 DEF Request, Unanswered
<1>4. CASE PreflightOver \/ ConnMoves \/ RunMoves \/ RendererMoves \/ UNCHANGED vars
  <2>1. UNCHANGED <<attempt, task>>
    BY <1>4, ConnFrame, RunFrame, RendererFrame DEF PreflightOver, vars
  <2> QED
    BY <2>1 DEF Unanswered
<1> QED
  BY <1>1, <1>2, <1>3, <1>4, Movers

LEMMA AllForward ==
  ASSUME IInv, Unanswered, [Next]_vars, NEW j \in Requests
  PROVE  task'[j] = task[j] \/ Later(j) \/ IsAnswered(j)
<1>1. CASE PreflightOver \/ ConnMoves \/ RunMoves \/ RendererMoves \/ UNCHANGED vars
  BY <1>1, ConnFrame, RunFrame, RendererFrame DEF PreflightOver, vars
<1> QED
  BY <1>1, Movers, TaskForward, HandleForward, RequestForward

\* No interleaving of replies, timers, failures and other requests takes an exit request
\* back, answers it twice, or touches it once it has ended (lifecycle.rs:285).
THEOREM RequestsOnlyGoForward == Spec => RequestsGoForward
<1>1. Init => Unanswered
  BY NotNone DEF Init, NoAttempt, Unanswered
<1>2. IInv /\ Unanswered /\ [Next]_vars => Unanswered'
  BY UnansweredStep
<1>3. IInv /\ Unanswered /\ [Next]_vars =>
        [\A i \in Requests : task'[i] = task[i] \/ Later(i) \/ IsAnswered(i)]_vars
  BY AllForward
<1> QED
  BY <1>1, <1>2, <1>3, IInvHolds, PTL DEF Spec, RequestsGoForward

-----------------------------------------------------------------------------
(* The exit as the abstract departure.  What is barred is a matter of the  *)
(* holder's stage alone, and so is the abstract stage.                     *)

MemoryStages == {"titles", "mcp", "closing", "final", "closed", "exited", "stuck"}

\* The memory registry is stopped from the drain on; an exit that is stuck stays quiet.
Shut(i) ==
  /\ attempt.id = i => (memory = "stopped" <=> task[i].at \in MemoryStages)
  /\ task[i].at = "stuck" => attempt.id = i /\ ~run /\ engine = "free" /\ titles = {}

DInv == IInv /\ \A i \in Requests : Shut(i)

BarredAt(at) ==
  CASE at = "begun" -> {}
    [] at \in {"waiting", "expired", "settling"} -> {"process"}
    [] at = "draining" -> {"process", "run"}
    [] at = "titles" -> {"process", "run", "memory"}
    [] OTHER -> Kinds

Mapped ==
  /\ attempt.id = None => DepartureStage = "open" /\ BarredKinds = {}
  /\ \A i \in Requests :
       attempt.id = i =>
         /\ task[i].at \in Active \cup {"stuck"}
         /\ task[i].at \in {"begun", "waiting", "expired"} => DepartureStage = "closing"
         /\ task[i].at \in Past => DepartureStage = "draining"
         /\ task[i].at = "exited" => DepartureStage = "gone"
         /\ BarredKinds = BarredAt(task[i].at)
  /\ BusyKinds \cap BarredKinds = {}

LEMMA IsMapped == DInv => Mapped
<1> SUFFICES ASSUME DInv PROVE Mapped
  OBVIOUS
<1> TypeOK /\ Gate
  BY DEF DInv, IInv
<1>1. ASSUME attempt.id = None PROVE DepartureStage = "open" /\ BarredKinds = {}
  <2>1. GateFree
    BY <1>1 DEF Gate
  <2> QED
    BY <1>1, <2>1, NotNone DEF GateFree, DepartureStage, BarredKinds, Barred, Reached
<1>2. ASSUME NEW i \in Requests, attempt.id = i
      PROVE  /\ task[i].at \in Active \cup {"stuck"}
             /\ task[i].at \in {"begun", "waiting", "expired"} => DepartureStage = "closing"
             /\ task[i].at \in Past => DepartureStage = "draining"
             /\ task[i].at = "exited" => DepartureStage = "gone"
             /\ BarredKinds = BarredAt(task[i].at)
  <2>1. GateHeld /\ Holder = task[i] /\ Shut(i)
    BY <1>2, NotNone DEF Gate, Holder, DInv
  <2>2. /\ task[i].at \in Active \cup {"stuck"}
        /\ task[i].at \in {"begun", "waiting", "expired"} => DepartureStage = "closing"
        /\ task[i].at \in Past => DepartureStage = "draining"
        /\ task[i].at = "exited" => DepartureStage = "gone"
    BY <2>1 DEF GateHeld, DepartureStage
  <2>3. Barred("process") <=> task[i].at # "begun"
    BY <1>2, <2>1, NotNone DEF GateHeld, Barred
  <2>4. Barred("memory") <=> task[i].at \in MemoryStages
    BY <1>2, <2>1 DEF Shut, Barred
  <2>5. /\ Barred("run") <=> task[i].at \in {"draining", "titles", "mcp", "closing", "final",
                                             "closed", "exited", "stuck"}
        /\ Barred("title") <=> task[i].at \in {"mcp", "closing", "final", "closed", "exited",
                                               "stuck"}
    BY <1>2 DEF Barred, Reached
  <2>6. BarredKinds = BarredAt(task[i].at)
    <3>1. \A k \in Kinds : k \in BarredKinds <=> Barred(k)
      BY DEF BarredKinds
    <3>2. BarredKinds \subseteq Kinds /\ BarredAt(task[i].at) \subseteq Kinds
      BY DEF BarredKinds, BarredAt, Kinds
    <3>3. \A k \in Kinds : k \in BarredAt(task[i].at) <=> Barred(k)
      BY <2>2, <2>3, <2>4, <2>5 DEF BarredAt, Kinds, MemoryStages, Active
    <3> QED
      BY <3>1, <3>2, <3>3
  <2> QED
    BY <2>2, <2>6
<1>3. ASSUME NEW k \in Kinds, Busy(k) PROVE ~Barred(k)
  <2>1. CASE k = "run"
    BY <1>3, <2>1 DEF Busy, Barred, Reached, DInv, IInv, Quiet, Shut
  <2>2. CASE k = "title"
    BY <1>3, <2>2 DEF Busy, Barred, Reached, DInv, IInv, Quiet, Shut
  <2>3. CASE k = "process"
    BY <1>3, <2>3 DEF Busy, Barred, DInv, IInv, Connected
  <2> QED
    BY <1>3, <2>1, <2>2, <2>3 DEF Busy
<1> QED
  BY <1>1, <1>2, <1>3 DEF Mapped, BusyKinds, BarredKinds

LEMMA StaysMapped == DInv' => Mapped'
BY IsMapped, PTL

\* Before the final shutdown a failure frees the gate.
LEMMA FailFrees ==
  ASSUME IInv, NEW i \in Requests, Fail(i)
  PROVE  /\ attempt.id = i /\ task[i].at \in Active /\ task'[i].at = "aborting"
         /\ attempt' = NoAttempt /\ memory' = "open" /\ conn' = NextEpoch
<1>1. task[i].at \in Active \ {"begun", "final", "closed", "exited"}
  BY DEF Fail, Active
<1>2. attempt.id = i /\ GateHeld /\ Holder = task[i] /\ TypeOK /\ Gate
  BY <1>1, Holds DEF IInv
<1>3. ~intent' /\ Abort(i)
  BY <1>1, <1>2 DEF Fail, GateHeld
<1> QED
  BY <1>1, <1>2, <1>3, AbortFrees

\* The last step before the end either succeeds, frees the gate or is stuck.
LEMMA FinalFrees ==
  ASSUME IInv, NEW i \in Requests, FinalShutdownFails(i)
  PROVE  /\ attempt.id = i /\ task[i].at = "final"
         /\ \/ /\ task'[i].at = "aborting" /\ attempt' = NoAttempt /\ memory' = "open"
               /\ conn' = NextEpoch /\ ~intent'
            \/ task'[i].at = "stuck" /\ UNCHANGED <<attempt, memory, conn, intent>>
<1>1. TypeOK /\ Gate /\ task[i].at = "final"
  BY DEF IInv, FinalShutdownFails
<1>2. attempt.id = i
  BY <1>1, Holds DEF Active
<1>3. CASE Abort(i) /\ intent' = Withdrawn(intent)
  <2>1. ~intent' /\ task[i].at \in Active \ {"begun", "closed", "exited"}
    BY <1>1, <1>3 DEF Withdrawn, Active
  <2> QED
    BY <1>1, <1>2, <1>3, <2>1, AbortFrees
<1>4. CASE Goto(i, "stuck") /\ UNCHANGED <<gate, hooks, memory, mcp, conn, intent>>
  <2>1. Moved(i, "stuck")
    BY <1>1, <1>4, Goes DEF Stages, Ends
  <2> QED
    BY <1>1, <1>2, <1>4, <2>1 DEF Moved
<1> QED
  BY <1>3, <1>4 DEF FinalShutdownFails

LEMMA ProceedSettles ==
  ASSUME IInv, NEW i \in Requests, Proceed(i)
  PROVE  attempt.id = i /\ task[i].at = "waiting" /\ task'[i].at = "settling"
<1>1. TypeOK /\ Gate /\ task[i].at = "waiting" /\ task[i].reply = "ok"
  BY DEF IInv, Proceed
<1>2. attempt.id = i /\ phase = "preparing"
  BY <1>1, Holds DEF Active, GateHeld
<1>3. Moved(i, "settling")
  BY <1>1, <1>2, Goes DEF Proceed, Stages
<1> QED
  BY <1>1, <1>2, <1>3 DEF Moved

\* The steps of a request that does not hold the attempt
LEMMA AsideKeeps ==
  ASSUME IInv, NEW i \in Requests, ExitTask(i), task[i].at \notin Active
  PROVE  /\ UNCHANGED <<phase, memory, conn, run, intent>>
         /\ task'[i].at \notin MemoryStages
         /\ \/ UNCHANGED attempt
            \/ /\ attempt.id = None /\ attempt'.id = i /\ task'[i].at = "begun"
               /\ UNCHANGED <<hooks, mcp>>
<1>1. PICK s \in Stages : Moved(i, s) /\ Leads(i, s)
  BY TaskMoves DEF IInv
<1>2. Preflight(i) \/ Begin(i) \/ TellAborted(i)
  BY <1>1 DEF ExitTask, Leads, Active
<1>3. task'[i].at \in {"refused", "hooks", "begun", "aborted"}
  BY <1>1, <1>2 DEF Moved, Leads
<1>4. CASE Preflight(i) \/ TellAborted(i)
  BY <1>3, <1>4 DEF Preflight, TellAborted, MemoryStages
<1>5. CASE Begin(i)
  <2>1. CASE phase = "running" /\ attempt.id = None
    <3>1. Goto(i, "begun") /\ attempt'.id = i
      BY <1>5, <2>1 DEF Begin, NoAttempt
    <3>2. task'[i].at = "begun"
      BY <3>1, Goes DEF Moved, Stages, IInv
    <3> QED
      BY <1>5, <2>1, <3>1, <3>2 DEF Begin, MemoryStages
  <2>2. CASE ~(phase = "running" /\ attempt.id = None)
    <3>1. UNCHANGED attempt /\ task' = [task EXCEPT ![i].at = "refused", ![i].failed = TRUE]
      BY <1>5, <2>2 DEF Begin
    <3>2. task'[i].at = "refused"
      BY <3>1, Goes DEF Moved, Stages, Ends, IInv
    <3> QED
      BY <1>5, <3>1, <3>2 DEF Begin, MemoryStages
  <2> QED
    BY <2>1, <2>2
<1> QED
  BY <1>2, <1>4, <1>5

\* Where the holder may go, and what becomes of the attempt and the memory registry
LEMMA HolderKeeps ==
  ASSUME IInv, NEW i \in Requests, ExitTask(i), task[i].at \in Active
  PROVE  /\ attempt.id = i
         /\ \/ /\ task'[i].at = "aborting" /\ attempt' = NoAttempt /\ ~intent'
               /\ memory' = memory \/ memory' = "open"
               /\ conn' \in {Killed, NextEpoch}
            \/ /\ attempt'.id = i
               /\ <<task[i].at, task'[i].at>> \in
                    {<<"begun", "waiting">>, <<"waiting", "expired">>, <<"waiting", "settling">>,
                     <<"settling", "draining">>, <<"draining", "titles">>, <<"titles", "mcp">>,
                     <<"mcp", "closing">>, <<"closing", "final">>, <<"final", "closed">>,
                     <<"closed", "exited">>, <<"final", "stuck">>}
               /\ memory' = IF task[i].at = "draining" THEN "stopped" ELSE memory
               /\ conn' = conn \/ conn' = Killed
               /\ task[i].at # "begun" => conn' = conn
               /\ intent' = intent \/ task[i].at = "closing"
<1>1. TypeOK /\ Gate /\ attempt.id = i /\ GateHeld /\ Holder = task[i]
  BY Holds DEF IInv
<1>2. PICK s \in Stages : Moved(i, s) /\ Leads(i, s)
  BY TaskMoves DEF IInv
<1>3. task'[i].at = s
  BY <1>2 DEF Moved
<1>4. CASE Fail(i)
  <2>1. ~intent'
    BY <1>1, <1>4 DEF Fail, GateHeld
  <2> QED
    BY <1>4, <2>1, FailFrees
<1>5. CASE FinalShutdownFails(i)
  BY <1>5, FinalFrees
<1>6. CASE Proceed(i)
  BY <1>6, ProceedSettles DEF Proceed
<1>7. CASE Announce(i)
  <2>1. attempt'.id = attempt.id
    BY <1>1, <1>7 DEF Announce, TypeOK
  <2> QED
    BY <1>1, <1>2, <1>3, <1>7, <2>1 DEF Announce, Leads
<1>8. CASE AnnounceFails(i)
  <2>1. ~intent'
    BY <1>1, <1>8 DEF AnnounceFails, GateHeld
  <2> QED
    BY <1>1, <1>2, <1>3, <1>8, <2>1 DEF AnnounceFails, Leads
<1>9. CASE Expire(i) \/ Settle(i) \/ StopWork(i) \/ DrainTitles(i)
  BY <1>1, <1>2, <1>3, <1>9 DEF Expire, Settle, StopWork, DrainTitles, Leads
<1>10. CASE DrainMcp(i) \/ Prepare(i) \/ FinalShutdown(i) \/ Leave(i)
  BY <1>1, <1>2, <1>3, <1>10 DEF DrainMcp, Prepare, FinalShutdown, Leave, Leads
<1>11. ~(Preflight(i) \/ Begin(i) \/ TellAborted(i))
  BY <1>2 DEF Leads, Active
<1> QED
  BY <1>4, <1>5, <1>6, <1>7, <1>8, <1>9, <1>10, <1>11 DEF ExitTask

LEMMA ShutTask ==
  ASSUME DInv, NEW i \in Requests, ExitTask(i)
  PROVE  \A j \in Requests : Shut(j)'
<1> IInv /\ TypeOK /\ Gate /\ \A j \in Requests : Shut(j)
  BY DEF DInv, IInv
<1>1. PICK s \in Stages : Moved(i, s)
  BY TaskMoves
<1>2. UNCHANGED <<titles, engine>> /\ (run' = run \/ ~run')
  BY ExitTaskFrame DEF Settle
<1>3. \A j \in Requests \ {i} : task'[j] = task[j]
  BY <1>1 DEF Moved
<1>4. CASE task[i].at \notin Active
  <2>1. /\ UNCHANGED <<memory, run>> /\ task'[i].at \notin MemoryStages
        /\ \/ UNCHANGED attempt
           \/ attempt.id = None /\ attempt'.id = i /\ task'[i].at = "begun"
    BY <1>4, AsideKeeps
  <2>2. CASE UNCHANGED attempt
    <3>1. attempt.id = i => task[i].at = "stuck"
      BY <1>4, NotNone DEF Gate, GateHeld, Holder
    <3>2. task[i].at # "stuck"
      BY TaskMoves DEF Leads, ExitTask
    <3>3. task'[i].at # "stuck"
      BY <2>1 DEF MemoryStages
    <3>4. ASSUME NEW j \in Requests PROVE Shut(j)'
      BY <1>2, <1>3, <2>1, <2>2, <3>1, <3>2, <3>3, <3>4 DEF Shut
    <3> QED
      BY <3>4
  <2>3. CASE attempt.id = None /\ attempt'.id = i /\ task'[i].at = "begun"
    <3>1. memory' = "open"
      BY <2>1, <2>3 DEF Gate, GateFree
    <3>2. \A j \in Requests : task'[j].at # "stuck"
      BY <1>3, <2>3, NotNone DEF Shut
    <3> QED
      BY <2>3, <3>1, <3>2 DEF Shut, MemoryStages
  <2> QED
    BY <2>1, <2>2, <2>3
<1>5. CASE task[i].at \in Active
  <2>0. \A j \in Requests \ {i} : task'[j].at # "stuck"
    BY <1>3, <1>5, HolderKeeps DEF Shut
  <2>1. attempt.id = i /\ (memory = "stopped" <=> task[i].at \in MemoryStages)
    BY <1>5, HolderKeeps DEF Shut
  <2>2. CASE task'[i].at = "aborting" /\ attempt' = NoAttempt
    BY <2>0, <2>2, NotNone DEF Shut, NoAttempt
  <2>3. CASE /\ attempt'.id = i
             /\ <<task[i].at, task'[i].at>> \in
                    {<<"begun", "waiting">>, <<"waiting", "expired">>, <<"waiting", "settling">>,
                     <<"settling", "draining">>, <<"draining", "titles">>, <<"titles", "mcp">>,
                     <<"mcp", "closing">>, <<"closing", "final">>, <<"final", "closed">>,
                     <<"closed", "exited">>, <<"final", "stuck">>}
             /\ memory' = IF task[i].at = "draining" THEN "stopped" ELSE memory
    <3>1. memory' = "stopped" <=> task'[i].at \in MemoryStages
      BY <2>1, <2>3 DEF MemoryStages
    <3>2. task'[i].at = "stuck" => ~run' /\ engine' = "free" /\ titles' = {}
      <4>1. task'[i].at = "stuck" => task[i].at = "final"
        BY <2>3
      <4>2. task[i].at = "final" => ~Settle(i)
        BY DEF Settle
      <4> QED
        BY <1>2, <4>1, <4>2, ExitTaskFrame DEF IInv, Quiet
    <3> QED
      BY <2>0, <2>3, <3>1, <3>2 DEF Shut
  <2> QED
    BY <1>5, <2>2, <2>3, HolderKeeps
<1> QED
  BY <1>4, <1>5

\* Every other step leaves the stages as they are, or begins a request.
LEMMA StagesStay ==
  ASSUME IInv, [Next]_vars, \A i \in Requests : ~ExitTask(i)
  PROVE  /\ attempt'.id = attempt.id /\ UNCHANGED <<memory, intent>>
         /\ \A j \in Requests :
              \/ task'[j].at = task[j].at
              \/ task[j].at = "none" /\ task'[j].at \in {"asking", "hooks", "refused"}
<1> TypeOK /\ Gate
  BY DEF IInv
<1>1. ASSUME NEW i \in Requests, NEW relocates \in BOOLEAN, NEW enabled \in BOOLEAN,
             Request(i, relocates, enabled)
      PROVE  /\ UNCHANGED <<attempt, memory, intent>>
             /\ \A j \in Requests :
                  \/ task'[j].at = task[j].at
                  \/ task[j].at = "none" /\ task'[j].at \in {"asking", "hooks", "refused"}
  <2>1. PICK s \in {"asking", "hooks", "refused"} : Moved(i, s)
    BY <1>1, GateRequest
  <2> QED
    BY <1>1, <2>1 DEF Moved, Request
<1>2. ASSUME NEW i \in Requests, Handle(i)
      PROVE  /\ attempt'.id = attempt.id /\ UNCHANGED <<memory, intent>>
             /\ \A j \in Requests : task'[j].at = task[j].at
  <2>1. attempt'.id = attempt.id
    BY <1>2 DEF Handle, HandleBegin, HandleFinish, TypeOK
  <2> QED
    BY <1>2, <2>1, HandleFrame, Replies DEF Handle, HandleBegin
<1>3. CASE PreflightOver \/ ConnMoves \/ RunMoves \/ RendererMoves \/ UNCHANGED vars
  BY <1>3, ConnFrame, RunFrame, RendererFrame DEF PreflightOver, vars
<1> QED
  BY <1>1, <1>2, <1>3, Movers

LEMMA ShutStep ==
  ASSUME DInv, [Next]_vars
  PROVE  \A j \in Requests : Shut(j)'
<1> IInv /\ TypeOK /\ Gate /\ \A j \in Requests : Shut(j)
  BY DEF DInv, IInv
<1>1. CASE \E i \in Requests : ExitTask(i)
  BY <1>1, ShutTask
<1>2. ASSUME \A i \in Requests : ~ExitTask(i), NEW j \in Requests PROVE Shut(j)'
  <2>1. /\ attempt'.id = attempt.id /\ memory' = memory
        /\ \/ task'[j].at = task[j].at
           \/ task[j].at = "none" /\ task'[j].at \in {"asking", "hooks", "refused"}
    BY <1>2, StagesStay
  <2>2. attempt.id = j => task'[j].at = task[j].at
    BY <2>1, NotNone DEF Gate, GateHeld, Holder, Active
  <2>3. task'[j].at = "stuck" => ~run' /\ engine' = "free" /\ titles' = {}
    <3>1. SUFFICES ASSUME task[j].at = "stuck"
                   PROVE  ~run' /\ engine' = "free" /\ titles' = {}
      BY <2>1
    <3>2. ~run /\ engine = "free" /\ titles = {} /\ attempt.id = j
      BY <3>1 DEF Shut
    <3>3. ~AcceptsNew
      BY <3>2, NotNone DEF Gate, GateHeld, AcceptsNew
    <3>4. CASE RunMoves
      BY <3>2, <3>3, <3>4 DEF RunMoves, CheckRun, BeginRun, EndRun, Schedule, DontSchedule,
            TitleOver, RunStep
    <3>5. CASE ~RunMoves
      <4>1. UNCHANGED <<run, engine, titles>>
        BY <1>2, <3>5, Movers, HandleFrame, ConnFrame, RendererFrame DEF Request, PreflightOver, vars
      <4> QED
        BY <3>2, <4>1
    <3> QED
      BY <3>4, <3>5
  <2> QED
    BY <2>1, <2>2, <2>3 DEF Shut
<1> QED
  BY <1>1, <1>2

LEMMA DInvInit == Init => DInv
<1>1. Init => \A i \in Requests : Shut(i)
  BY NotNone DEF Init, NoAttempt, Shut
<1> QED
  BY <1>1, IInvInit DEF DInv

LEMMA DInvHolds == Spec => []DInv
<1>1. DInv /\ [Next]_vars => DInv'
  BY ShutStep, IInvStep DEF DInv
<1> QED
  BY <1>1, DInvInit, PTL DEF Spec

-----------------------------------------------------------------------------
(* Each step maps to a step of the departure or leaves it unchanged.       *)

departureVars == <<DepartureStage, BusyKinds, BarredKinds, dirty, intent>>

\* Nothing is seen of a step that leaves the holder where it is.
LEMMA HolderStays ==
  ASSUME DInv, DInv', attempt'.id = attempt.id,
         \A i \in Requests : attempt.id = i => task'[i].at = task[i].at
  PROVE  DepartureStage' = DepartureStage /\ BarredKinds' = BarredKinds
<1>1. Mapped /\ Mapped'
  BY IsMapped, StaysMapped
<1>2. CASE attempt.id = None
  BY <1>1, <1>2 DEF Mapped
<1>3. CASE attempt.id # None
  <2>1. attempt.id \in Requests
    BY <1>3 DEF DInv, IInv, TypeOK
  <2> QED
    BY <1>1, <2>1 DEF Mapped, Active, Past
<1> QED
  BY <1>2, <1>3

LEMMA SameBusy ==
  ASSUME UNCHANGED <<run, titles, conn>>
  PROVE  BusyKinds' = BusyKinds
BY DEF BusyKinds, Busy

\* A step of an exit starts nothing.
LEMMA LessBusy ==
  ASSUME NEW i \in Requests, IInv, ExitTask(i), conn' \in {conn, Killed, NextEpoch}
  PROVE  BusyKinds' \subseteq BusyKinds
<1>1. titles' = titles /\ (run' => run)
  BY ExitTaskFrame DEF Settle
<1>2. ASSUME NEW c \in Conns, conn'[c].at = "live" PROVE conn[c].at = "live"
  BY <1>2 DEF Killed, NextEpoch, IInv, TypeOK
<1> QED
  BY <1>1, <1>2 DEF BusyKinds, Busy

LEMMA SavesStay == IInv' => NothingUnsaved'
BY SavedBehindGate, PTL

LEMMA TaskDeparts ==
  ASSUME DInv, DInv', NEW i \in Requests, ExitTask(i)
  PROVE  Departing!Next \/ UNCHANGED departureVars
<1>0. dirty' = dirty /\ IInv /\ TypeOK /\ TypeOK'
  BY ExitTaskFrame DEF DInv, IInv
<1>1. Mapped /\ Mapped'
  BY IsMapped, StaysMapped
<1>2. CASE task[i].at \notin Active
  <2>1. PICK s \in Stages : Moved(i, s) /\ Leads(i, s)
    BY <1>0, TaskMoves
  <2>2. /\ UNCHANGED <<conn, run, titles, intent>>
        /\ \/ UNCHANGED attempt
           \/ attempt.id = None /\ attempt'.id = i /\ task'[i].at = "begun"
    BY <1>0, <1>2, AsideKeeps, ExitTaskFrame
  <2>3. BusyKinds' = BusyKinds
    BY <2>2, SameBusy
  <2>4. CASE UNCHANGED attempt
    <3>1. attempt.id # i
      BY <1>1, <1>2, <2>1 DEF Mapped, ExitTask, Leads
    <3>2. \A j \in Requests : attempt.id = j => task'[j].at = task[j].at
      BY <2>1, <3>1 DEF Moved
    <3> QED
      BY <1>0, <2>2, <2>3, <2>4, <3>2, HolderStays DEF departureVars
  <2>5. CASE attempt.id = None /\ attempt'.id = i /\ task'[i].at = "begun"
    <3>1. DepartureStage = "open" /\ BarredKinds = {}
      BY <1>1, <2>5 DEF Mapped
    <3>2. DepartureStage' = "closing" /\ BarredKinds' = {}
      BY <1>1, <2>5 DEF Mapped, BarredAt
    <3>3. Departing!Close
      BY <1>0, <2>2, <2>3, <3>1, <3>2 DEF Departing!Close
    <3> QED
      BY <3>3 DEF Departing!Next
  <2> QED
    BY <2>2, <2>4, <2>5
<1>3. CASE task[i].at \in Active
  <2>1. attempt.id = i /\ BarredKinds = BarredAt(task[i].at)
    BY <1>0, <1>1, <1>3, HolderKeeps DEF Mapped
  <2>2. CASE task'[i].at = "aborting" /\ attempt' = NoAttempt /\ ~intent' /\ conn' \in {Killed, NextEpoch}
    <3>1. task[i].at \notin {"closed", "exited"}
      BY <2>2, <1>0, HolderKeeps, TaskMoves DEF Moved, Leads, ExitTask
    <3>2. DepartureStage \in {"closing", "draining"}
      BY <1>1, <1>3, <2>1, <3>1 DEF Mapped, Active, Past
    <3>3. DepartureStage' = "open" /\ BarredKinds' = {}
      BY <1>1, <2>2 DEF Mapped, NoAttempt
    <3>4. BusyKinds' \subseteq BusyKinds /\ intent' = FALSE
      BY <1>0, <2>2, LessBusy DEF TypeOK
    <3>5. Departing!Reopen
      BY <1>0, <3>2, <3>3, <3>4 DEF Departing!Reopen
    <3> QED
      BY <3>5 DEF Departing!Next
  <2>3. ASSUME attempt'.id = i,
               <<task[i].at, task'[i].at>> \in
                    {<<"begun", "waiting">>, <<"waiting", "expired">>, <<"waiting", "settling">>,
                     <<"settling", "draining">>, <<"draining", "titles">>, <<"titles", "mcp">>,
                     <<"mcp", "closing">>, <<"closing", "final">>, <<"final", "closed">>,
                     <<"closed", "exited">>, <<"final", "stuck">>},
               conn' = conn \/ conn' = Killed, task[i].at # "begun" => conn' = conn,
               intent' = intent \/ task[i].at = "closing"
        PROVE  Departing!Next \/ UNCHANGED departureVars
    <3>1. BarredKinds' = BarredAt(task'[i].at)
      BY <1>1, <2>3 DEF Mapped
    <3>2. BusyKinds' \subseteq BusyKinds /\ BusyKinds' \cap BarredKinds' = {}
      BY <1>0, <1>1, <2>3, LessBusy DEF Mapped
    <3>3. /\ task[i].at \in {"begun", "waiting", "expired"} => DepartureStage = "closing"
          /\ task[i].at \in Past => DepartureStage = "draining"
          /\ task'[i].at \in {"begun", "waiting", "expired"} => DepartureStage' = "closing"
          /\ task'[i].at \in Past => DepartureStage' = "draining"
          /\ task'[i].at = "exited" => DepartureStage' = "gone"
      BY <1>1, <2>1, <2>3 DEF Mapped
    <3>4. task[i].at # "begun" /\ task[i].at # "settling" => BusyKinds' = BusyKinds
      <4>1. Settle(i) => task[i].at = "settling"
        BY DEF Settle
      <4> QED
        BY <2>3, <4>1, ExitTaskFrame, SameBusy
    <3>5. CASE task[i].at = "waiting" /\ task'[i].at = "settling"
      <4>1. ~dirty'
        BY <3>3, <3>5, SavesStay DEF DepartureStage, NothingUnsaved, DInv, Past
      <4>2. Departing!Seal
        BY <1>0, <2>1, <2>3, <3>1, <3>3, <3>4, <3>5, <4>1 DEF Departing!Seal, BarredAt, Past
      <4> QED
        BY <4>2 DEF Departing!Next
    <3>6. CASE task[i].at = "closed" /\ task'[i].at = "exited"
      <4>1. Departing!Leave
        BY <1>0, <2>1, <2>3, <3>1, <3>3, <3>4, <3>6
        DEF Departing!Leave, Departing!Quiet, BarredAt, Past
      <4> QED
        BY <4>1 DEF Departing!Next
    <3>7. CASE task[i].at = "closing" /\ intent' # intent
      <4>1. intent' = TRUE
        BY <1>0, <3>7, <2>3, TaskMoves DEF ExitTask, Leads, Prepare, Expire, Fail, Abort, TypeOK
      <4>2. Departing!Relocate
        BY <1>0, <2>1, <2>3, <3>1, <3>3, <3>4, <3>7, <4>1
        DEF Departing!Relocate, Departing!Quiet, BarredAt, Past
      <4> QED
        BY <4>2 DEF Departing!Next
    <3>8. CASE /\ intent' = intent
               /\ ~(task[i].at = "waiting" /\ task'[i].at = "settling")
               /\ ~(task[i].at = "closed" /\ task'[i].at = "exited")
      <4>1. DepartureStage \in {"closing", "draining"} /\ DepartureStage' = DepartureStage
        BY <2>3, <3>3, <3>8 DEF Past
      <4>2. BarredKinds \subseteq BarredKinds' /\ BarredKinds' \subseteq Kinds
        BY <2>1, <2>3, <3>1 DEF BarredAt, Kinds
      <4>3. Departing!Bar
        BY <1>0, <3>2, <3>8, <4>1, <4>2 DEF Departing!Bar
      <4> QED
        BY <4>3 DEF Departing!Next
    <3> QED
      BY <2>3, <3>5, <3>6, <3>7, <3>8
  <2> QED
    BY <1>0, <1>3, <2>2, <2>3, HolderKeeps
<1> QED
  BY <1>2, <1>3

LEMMA OthersDepart ==
  ASSUME DInv, DInv', [Next]_vars, \A i \in Requests : ~ExitTask(i)
  PROVE  Departing!Next \/ UNCHANGED departureVars
<1>0. Mapped /\ Mapped' /\ TypeOK /\ TypeOK' /\ Gate /\ IInv
  BY IsMapped, StaysMapped DEF DInv, IInv
<1>1. attempt'.id = attempt.id /\ intent' = intent
  BY <1>0, StagesStay
<1>2. DepartureStage' = DepartureStage /\ BarredKinds' = BarredKinds
  <2>1. ASSUME NEW i \in Requests, attempt.id = i PROVE task'[i].at = task[i].at
    BY <1>0, <2>1, StagesStay DEF Mapped, Active
  <2> QED
    BY <1>1, <2>1, HolderStays
<1>3. CASE dirty' = dirty
  <2>1. BusyKinds' \in SUBSET (Kinds \ BarredKinds)
    BY <1>0, <1>2 DEF Mapped, BusyKinds
  <2>2. Departing!Work
    BY <1>1, <1>2, <1>3, <2>1 DEF Departing!Work
  <2> QED
    BY <2>2 DEF Departing!Next
<1>4. CASE dirty' # dirty
  <2>1. RendererMoves
    BY <1>4, Movers, HandleFrame, ConnFrame, RunFrame DEF Request, PreflightOver, vars
  <2>2. UNCHANGED <<phase, reserved, run, titles, conn>>
    BY <2>1, RendererFrame
  <2>3. phase \notin {"draining", "ready"}
    <3>1. NothingUnsaved /\ NothingUnsaved'
      BY SavedBehindGate, SavesStay DEF DInv
    <3> QED
      BY <1>0, <1>4, <2>2, <3>1 DEF NothingUnsaved, TypeOK
  <2>4. DepartureStage \in {"open", "closing"} /\ dirty' \in BOOLEAN
    BY <1>0, <2>3 DEF DepartureStage, TypeOK
  <2>5. Departing!Edit
    BY <1>1, <1>2, <2>2, <2>4, SameBusy DEF Departing!Edit
  <2> QED
    BY <2>5 DEF Departing!Next
<1> QED
  BY <1>3, <1>4

\* lifecycle.rs: an exit leaves with everything at rest and saved, or reopens all that it
\* closed; a relocation is requested only in between, and withdrawn with the exit.
THEOREM ExitImplementsDeparture == Spec => ImplementsDeparture
<1>1. Init => Departing!Init
  <2> SUFFICES ASSUME Init PROVE Departing!Init
    OBVIOUS
  <2>1. Mapped /\ attempt.id = None
    BY DInvInit, IsMapped DEF Init, NoAttempt
  <2>2. BusyKinds = {}
    BY DEF Init, BusyKinds, Busy
  <2> QED
    BY <2>1, <2>2 DEF Mapped, Departing!Init, Init
<1>2. DInv /\ DInv' /\ [Next]_vars => [Departing!Next]_departureVars
  BY TaskDeparts, OthersDepart
<1> QED
  BY <1>1, <1>2, DInvHolds, PTL DEF Spec, ImplementsDeparture, Departing!Spec,
     Departing!departureVars, departureVars
=============================================================================
