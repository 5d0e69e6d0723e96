------------------------ MODULE CheckpointWorkerProofs ------------------------
(***************************************************************************)
(* Proofs about CheckpointWorker, for any number of maintenance threads    *)
(* and commits.                                                            *)
(***************************************************************************)
EXTENDS CheckpointWorker, TLAPS

USE CheckpointAssumption DEF storeVars

\* What holds of each thread: one that is gone said so and, unless it failed, has
\* seen what was there when it was paused; one that makes its last attempt was
\* paused; one that is not there yet, or that serves the Store, was not.
Over(m) == m.thread \in {"closing", "closed", "joined"}
Fit(m) ==
  /\ m.pausedAt <= logged
  /\ m.thread = "none" => ~m.stopping
  /\ m.thread # "none" /\ ~m.connected => m.stopping
  /\ m.last => m.stopping
  /\ m.last /\ m.thread = "copying" => m.saw >= m.pausedAt
  /\ Over(m) => ~m.healthy /\ (m.failed \/ (m.stopping /\ m.saw >= m.pausedAt))

Serving(m) == m.thread # "none" /\ ~m.stopping

\* What holds of the Store
StoreFit ==
  /\ step # "idle" => slot # NoWorker
  /\ policy = "relaxed" => slot # NoWorker
  /\ slot # NoWorker => Serving(worker[slot])
  /\ orphaned => /\ slot # NoWorker /\ Over(worker[slot]) /\ step # "send"
                 /\ step = "idle" => policy = "default"

IInv == TypeOK /\ (\A w \in Workers : Fit(worker[w])) /\ StoreFit
-----------------------------------------------------------------------------
(* What the operators on a thread's state return                           *)

LEMMA NoWorkerIsNone == \A w \in Workers : w # NoWorker
BY DEF Workers, NoWorker

LEMMA ReturningFits ==
  ASSUME NEW m \in Worker
  PROVE  /\ Returning(m) \in Worker
         /\ Returning(m).thread = "closing" /\ ~Returning(m).healthy
         /\ Returning(m).pausedAt = m.pausedAt /\ Returning(m).connected = m.connected
         /\ Returning(m).stopping = m.stopping /\ Returning(m).last = m.last
         /\ Returning(m).saw = m.saw /\ Returning(m).failed = m.failed
BY DEF Returning, Worker, Threads

LEMMA LeavingFits ==
  ASSUME NEW m \in Worker
  PROVE  /\ Leaving(m) \in Worker
         /\ Leaving(m).thread = "observing" /\ Leaving(m).last
         /\ Leaving(m).pausedAt = m.pausedAt /\ Leaving(m).connected = m.connected
         /\ Leaving(m).stopping = m.stopping
BY DEF Leaving, Worker, Threads

LEMMA RestFits ==
  ASSUME NEW m \in Worker, NEW deferred \in BOOLEAN
  PROVE  /\ Rest(m, deferred) \in Worker
         /\ Rest(m, deferred).pausedAt = m.pausedAt
         /\ Rest(m, deferred).connected = m.connected
         /\ Rest(m, deferred).stopping = m.stopping /\ Rest(m, deferred).last = m.last
         /\ Rest(m, deferred).saw = m.saw /\ Rest(m, deferred).failed = m.failed
         /\ m.last => Rest(m, deferred).thread = "closing" /\ ~Rest(m, deferred).healthy
         /\ ~m.last => Rest(m, deferred).thread = "waiting"
<1>1. CASE m.last
  BY <1>1, ReturningFits DEF Rest
<1>2. CASE ~m.last
  BY <1>2 DEF Rest, Worker, Threads
<1> QED
  BY <1>1, <1>2
-----------------------------------------------------------------------------
(* A step of one thread                                                    *)

Becomes(m, n) ==
  /\ n \in Worker /\ Fit(n)
  /\ n.thread # "none" /\ n.stopping = m.stopping /\ (Over(m) => Over(n))

LEMMA BecomesKeeps ==
  ASSUME IInv, NEW w \in Workers, NEW n, Becomes(worker[w], n),
         ThreadStep(w, n), behind' \in BOOLEAN
  PROVE  IInv'
<1>1. /\ worker' \in [Workers -> Worker] /\ worker'[w] = n
      /\ \A v \in Workers : v # w => worker'[v] = worker[v]
      /\ UNCHANGED <<logged, policy, slot, step, orphaned>>
  BY DEF IInv, TypeOK, ThreadStep, Becomes
<1>2. TypeOK'
  BY <1>1 DEF IInv, TypeOK
<1>3. ASSUME NEW v \in Workers PROVE Fit(worker[v])'
  <2>1. CASE v = w
    BY <1>1, <2>1 DEF Becomes, Fit, Over
  <2>2. CASE v # w
    BY <1>1, <2>2 DEF IInv, Fit, Over
  <2> QED
    BY <2>1, <2>2
<1>4. StoreFit'
  <2>1. CASE slot = w
    BY <1>1, <2>1 DEF IInv, StoreFit, Serving, Becomes, Over
  <2>2. CASE slot # w
    BY <1>1, <2>2 DEF IInv, TypeOK, StoreFit, Serving, Over
  <2> QED
    BY <2>1, <2>2
<1> QED
  BY <1>2, <1>3, <1>4 DEF IInv

LEMMA RunKeeps ==
  ASSUME IInv, NEW w \in Workers, Run(w)
  PROVE  IInv'
<1> DEFINE m == worker[w]
<1>0. /\ m \in Worker /\ Fit(m) /\ logged \in Nat /\ behind \in BOOLEAN
      /\ m.saw \in Nat /\ m.pausedAt \in Nat
      /\ {m.last, m.stopping, m.failed, m.healthy, m.connected} \subseteq BOOLEAN
  BY DEF IInv, TypeOK, Worker
<1>1. CASE Receive(w)
  <2> DEFINE k == [m EXCEPT !.queued = 0]
             n == [k EXCEPT !.thread = "observing", !.force = FALSE]
  <2>1. /\ k \in Worker /\ k.thread = "waiting" /\ k.stopping = m.stopping /\ k.last = m.last
        /\ k.pausedAt = m.pausedAt /\ k.connected = m.connected /\ UNCHANGED behind
        /\ ThreadStep(w, IF k.stopping THEN Leaving(k) ELSE n)
    BY <1>0, <1>1 DEF Receive, Worker
  <2>2. m.thread = "waiting"
    BY <1>1 DEF Receive
  <2> HIDE DEF k
  <2>3. CASE k.stopping
    <3>1. Fit(Leaving(k))
      BY <1>0, <2>1, <2>2, <2>3, LeavingFits DEF Fit, Over
    <3>2. Becomes(m, Leaving(k))
      BY <1>0, <2>1, <2>2, <3>1, LeavingFits DEF Becomes, Over
    <3> QED
      BY <1>0, <2>1, <2>3, <3>2, BecomesKeeps
  <2>4. CASE ~k.stopping
    <3>1. /\ n \in Worker /\ n.thread = "observing" /\ n.last = k.last /\ n.stopping = k.stopping
          /\ n.pausedAt = k.pausedAt /\ n.connected = k.connected
      BY <2>1 DEF Worker, Threads
    <3> HIDE DEF n
    <3>2. Fit(n)
      BY <1>0, <2>1, <2>2, <3>1 DEF Fit, Over
    <3>3. Becomes(m, n)
      BY <1>0, <2>1, <2>2, <3>1, <3>2 DEF Becomes, Over
    <3> QED
      BY <1>0, <2>1, <2>4, <3>3, BecomesKeeps
  <2> QED
    BY <1>0, <2>1, <2>3, <2>4
<1>2. CASE Timeout(w)
  <2> DEFINE n == [m EXCEPT !.thread = "observing", !.force = TRUE]
  <2>1. ThreadStep(w, n) /\ UNCHANGED behind /\ m.thread = "waiting"
    BY <1>2 DEF Timeout
  <2>2. /\ n \in Worker /\ n.thread = "observing" /\ n.last = m.last /\ n.stopping = m.stopping
        /\ n.pausedAt = m.pausedAt /\ n.connected = m.connected
    BY <1>0 DEF Worker, Threads
  <2> HIDE DEF n
  <2>3. Fit(n)
    BY <1>0, <2>1, <2>2 DEF Fit, Over
  <2>4. Becomes(m, n)
    BY <2>1, <2>2, <2>3 DEF Becomes, Over
  <2> QED
    BY <1>0, <2>1, <2>4, BecomesKeeps
<1>3. CASE Disconnected(w)
  <2>1. ThreadStep(w, Leaving(m)) /\ UNCHANGED behind /\ m.thread = "waiting" /\ ~m.connected
    BY <1>3 DEF Disconnected
  <2>2. Fit(Leaving(m))
    BY <1>0, <2>1, LeavingFits DEF Fit, Over
  <2>3. Becomes(m, Leaving(m))
    BY <1>0, <2>1, <2>2, LeavingFits DEF Becomes, Over
  <2> QED
    BY <1>0, <2>1, <2>3, BecomesKeeps
<1> DEFINE k == [m EXCEPT !.saw = logged]
<1>4. /\ k \in Worker /\ k.saw = logged /\ k.pausedAt = m.pausedAt /\ k.last = m.last
      /\ k.stopping = m.stopping /\ k.connected = m.connected /\ k.failed = m.failed
      /\ k.thread = m.thread /\ k.force = m.force
  BY <1>0 DEF Worker
<1>5. ASSUME NEW d \in BOOLEAN, m.thread \in {"observing", "copying"}
      PROVE  Becomes(m, Rest(k, d))
  <2> HIDE DEF k
  <2>1. Fit(Rest(k, d))
    BY <1>0, <1>4, <1>5, RestFits, ZenonT(60) DEF Fit, Over
  <2> QED
    BY <1>0, <1>4, <1>5, <2>1, RestFits, ZenonT(60) DEF Becomes, Over
<1>6. CASE Observe(w)
  <2> DEFINE n == [k EXCEPT !.thread = "copying"]
  <2>1. /\ m.thread = "observing" /\ UNCHANGED behind
        /\ (\E d \in BOOLEAN : ThreadStep(w, Rest(k, d))) \/ ThreadStep(w, n)
    BY <1>4, <1>6 DEF Observe
  <2>2. /\ n \in Worker /\ n.thread = "copying" /\ n.last = k.last /\ n.stopping = k.stopping
        /\ n.pausedAt = k.pausedAt /\ n.connected = k.connected /\ n.saw = k.saw
    <3> HIDE DEF k
    <3> QED
      BY <1>4 DEF Worker, Threads
  <2> HIDE DEF n, k
  <2>3. Fit(n)
    BY <1>0, <1>4, <2>1, <2>2 DEF Fit, Over
  <2>4. Becomes(m, n)
    BY <1>4, <2>1, <2>2, <2>3 DEF Becomes, Over
  <2> QED
    BY <1>0, <1>5, <2>1, <2>4, BecomesKeeps
<1>7. CASE Copy(w)
  <2>1. m.thread = "copying" /\ ThreadStep(w, Rest(m, FALSE)) /\ behind' \in BOOLEAN
    BY <1>7 DEF Copy
  <2>2. Fit(Rest(m, FALSE))
    BY <1>0, <2>1, RestFits DEF Fit, Over
  <2>3. Becomes(m, Rest(m, FALSE))
    BY <1>0, <2>1, <2>2, RestFits DEF Becomes, Over
  <2> QED
    BY <1>0, <2>1, <2>3, BecomesKeeps
<1>8. CASE Busy(w)
  <2>1. m.thread \in {"observing", "copying"} /\ ThreadStep(w, Rest(k, FALSE)) /\ UNCHANGED behind
    BY <1>8 DEF Busy
  <2> HIDE DEF k
  <2> QED
    BY <1>0, <1>5, <2>1, BecomesKeeps
<1>9. CASE Fail(w)
  <2> DEFINE n == [m EXCEPT !.failed = TRUE]
  <2>1. m.thread \in {"observing", "copying"} /\ ThreadStep(w, Returning(n)) /\ UNCHANGED behind
    BY <1>9 DEF Fail
  <2>2. /\ n \in Worker /\ n.failed /\ n.pausedAt = m.pausedAt /\ n.last = m.last
        /\ n.stopping = m.stopping /\ n.connected = m.connected
    BY <1>0 DEF Worker
  <2> HIDE DEF n
  <2>3. Fit(Returning(n))
    BY <1>0, <2>1, <2>2, ReturningFits DEF Fit, Over
  <2>4. Becomes(m, Returning(n))
    BY <1>0, <2>1, <2>2, <2>3, ReturningFits DEF Becomes, Over
  <2> QED
    BY <1>0, <2>1, <2>4, BecomesKeeps
<1>10. CASE Close(w)
  <2> DEFINE n0 == [m EXCEPT !.thread = "closed"]
             n1 == [n0 EXCEPT !.queued = 0]
             n == [n1 EXCEPT !.deferred = FALSE, !.force = FALSE, !.last = FALSE]
  <2>1. m.thread = "closing" /\ ThreadStep(w, n) /\ UNCHANGED behind
    BY <1>10 DEF Close
  <2>2. /\ n \in Worker /\ n.thread = "closed" /\ ~n.last /\ n.stopping = m.stopping
        /\ n.pausedAt = m.pausedAt /\ n.connected = m.connected /\ n.saw = m.saw
        /\ n.failed = m.failed /\ n.healthy = m.healthy
    <3>0. /\ n0 \in Worker /\ n0.thread = "closed" /\ n0.stopping = m.stopping
          /\ n0.pausedAt = m.pausedAt /\ n0.connected = m.connected /\ n0.saw = m.saw
          /\ n0.failed = m.failed /\ n0.healthy = m.healthy
      BY <1>0 DEF Worker, Threads
    <3> HIDE DEF n0
    <3>1. /\ n1 \in Worker /\ n1.thread = "closed" /\ n1.stopping = m.stopping
          /\ n1.pausedAt = m.pausedAt /\ n1.connected = m.connected /\ n1.saw = m.saw
          /\ n1.failed = m.failed /\ n1.healthy = m.healthy
      BY <3>0 DEF Worker, Threads
    <3> HIDE DEF n1
    <3> QED
      BY <3>1 DEF Worker, Threads
  <2> HIDE DEF n
  <2>3. Fit(n)
    BY <1>0, <2>1, <2>2 DEF Fit, Over
  <2>4. Becomes(m, n)
    BY <2>1, <2>2, <2>3 DEF Becomes, Over
  <2> QED
    BY <1>0, <2>1, <2>4, BecomesKeeps
<1> QED
  BY <1>1, <1>2, <1>3, <1>6, <1>7, <1>8, <1>9, <1>10 DEF Run
-----------------------------------------------------------------------------
(* A step of the Store or of a drain                                       *)

\* The thread goes on as it is, whatever flags it is given.
LEMMA CommitKeeps ==
  ASSUME IInv, Commit
  PROVE  IInv'
<1>1. TypeOK'
  BY DEF IInv, TypeOK, Commit
<1>2. ASSUME NEW w \in Workers PROVE Fit(worker[w])'
  <2>1. /\ Fit(worker[w]) /\ worker[w].pausedAt \in Nat /\ logged \in Nat
        /\ logged' = logged + 1 /\ worker' = worker
    BY DEF IInv, TypeOK, Worker, Commit
  <2> QED
    BY <2>1 DEF Fit, Over
<1>3. StoreFit'
  <2>1. UNCHANGED <<policy, slot, worker>>
        /\ step' = (IF slot = NoWorker THEN "idle" ELSE "check")
        /\ orphaned' = (slot # NoWorker /\ Gone(slot))
    BY DEF Commit
  <2> QED
    BY <2>1 DEF IInv, StoreFit, Serving, Gone, Over, TypeOK
<1> QED
  BY <1>1, <1>2, <1>3 DEF IInv

LEMMA NotifyKeeps ==
  ASSUME IInv, Notify
  PROVE  IInv'
<1>1. CASE CheckHealth
  <2>1. slot \in Workers /\ UNCHANGED <<logged, behind, slot, orphaned, worker>>
    BY <1>1 DEF CheckHealth, IInv, StoreFit, TypeOK
  <2>2. TypeOK'
    BY <1>1 DEF IInv, TypeOK, CheckHealth
  <2>3. ASSUME NEW w \in Workers PROVE Fit(worker[w])'
    BY <2>1 DEF IInv, Fit, Over
  <2>4. StoreFit'
    <3>1. Over(worker[slot]) => ~Healthy(slot)
      BY <2>1 DEF IInv, Fit, Healthy
    <3> QED
      BY <1>1, <2>1, <3>1 DEF CheckHealth, IInv, StoreFit, Serving, Over
  <2> QED
    BY <2>2, <2>3, <2>4 DEF IInv
<1>2. CASE Send
  <2> DEFINE m == worker[slot]
  <2>1. /\ slot \in Workers /\ UNCHANGED <<logged, behind, slot, orphaned>> /\ step = "send"
        /\ step' = "idle"
    BY <1>2 DEF Send, IInv, StoreFit, TypeOK
  <2>2. m \in Worker
    BY <2>1 DEF IInv, TypeOK
  <2>3. PICK n \in Worker : /\ worker' = [worker EXCEPT ![slot] = n]
                            /\ n.thread = m.thread /\ n.connected = m.connected
                            /\ n.stopping = m.stopping /\ n.last = m.last /\ n.saw = m.saw
                            /\ n.pausedAt = m.pausedAt /\ n.failed = m.failed
                            /\ n.healthy => m.healthy
    <3>1. CASE m.thread = "closed"
      <4> DEFINE n == [m EXCEPT !.healthy = FALSE]
      <4>1. worker' = [worker EXCEPT ![slot] = n]
        BY <1>2, <3>1 DEF Send
      <4>2. n \in Worker
        BY <2>2 DEF Worker
      <4> QED
        BY <2>2, <4>1, <4>2 DEF Worker
    <3>2. CASE m.thread # "closed"
      <4> DEFINE n == [m EXCEPT !.queued = 1]
      <4>1. worker' = [worker EXCEPT ![slot] = n]
        BY <1>2, <3>2 DEF Send, TrySend
      <4>2. n \in Worker
        BY <2>2 DEF Worker
      <4> QED
        BY <2>2, <4>1, <4>2 DEF Worker
    <3> QED
      BY <3>1, <3>2
  <2>4. policy' \in {policy, "default"}
    BY <1>2 DEF Send
  <2>5. worker'[slot] = n /\ \A w \in Workers : w # slot => worker'[w] = worker[w]
    BY <2>1, <2>3 DEF IInv, TypeOK
  <2>6. TypeOK'
    BY <2>1, <2>3, <2>4 DEF IInv, TypeOK
  <2>7. ASSUME NEW w \in Workers PROVE Fit(worker[w])'
    BY <2>1, <2>3, <2>5 DEF IInv, Fit, Over
  <2>8. StoreFit'
    BY <2>1, <2>3, <2>4, <2>5 DEF IInv, StoreFit, Serving, Over
  <2> QED
    BY <2>6, <2>7, <2>8 DEF IInv
<1> QED
  BY <1>1, <1>2 DEF Notify

LEMMA PauseKeeps ==
  ASSUME IInv, Pause
  PROVE  IInv'
<1> DEFINE m == worker[slot]
           k == [m EXCEPT !.stopping = TRUE]
           n == [k EXCEPT !.pausedAt = logged]
<1>0. /\ slot \in Workers /\ m \in Worker /\ Fit(m) /\ Serving(m) /\ logged \in Nat
      /\ UNCHANGED <<logged, behind, step>> /\ step = "idle"
      /\ policy' = "default" /\ slot' = NoWorker /\ orphaned' = FALSE
  BY DEF Pause, IInv, TypeOK, StoreFit
<1>9. worker' = [worker EXCEPT ![slot] = n]
  BY <1>0 DEF Pause, IInv, TypeOK
<1>1. /\ slot \in Workers /\ m \in Worker /\ Fit(m) /\ Serving(m) /\ logged \in Nat
      /\ UNCHANGED <<logged, behind, step>> /\ step = "idle"
      /\ policy' = "default" /\ slot' = NoWorker /\ orphaned' = FALSE
      /\ worker' = [worker EXCEPT ![slot] = n]
  BY <1>0, <1>9
<1>2. /\ k \in Worker /\ k.thread = m.thread /\ k.connected = m.connected /\ k.stopping
      /\ k.last = m.last /\ k.saw = m.saw /\ k.failed = m.failed /\ k.healthy = m.healthy
  BY <1>1 DEF Worker
<1> HIDE DEF k
<1>3. /\ n \in Worker /\ n.thread = m.thread /\ n.connected = m.connected /\ n.stopping
      /\ n.last = m.last /\ n.saw = m.saw /\ n.failed = m.failed /\ n.healthy = m.healthy
      /\ n.pausedAt = logged
  BY <1>1, <1>2 DEF Worker
<1> HIDE DEF n
<1>4. Fit(n)
  BY <1>1, <1>3 DEF Fit, Serving, Over
<1>5. worker'[slot] = n /\ \A w \in Workers : w # slot => worker'[w] = worker[w]
  BY <1>1, <1>3 DEF IInv, TypeOK
<1>6. TypeOK'
  BY <1>1, <1>3 DEF IInv, TypeOK
<1>7. ASSUME NEW w \in Workers PROVE Fit(worker[w])'
  BY <1>1, <1>4, <1>5 DEF IInv, Fit, Over
<1>8. StoreFit'
  BY <1>1 DEF StoreFit
<1> QED
  BY <1>6, <1>7, <1>8 DEF IInv

LEMMA ResumeKeeps ==
  ASSUME IInv, NEW w \in Workers, Resume(w)
  PROVE  IInv'
<1> DEFINE n1 == [Unborn EXCEPT !.thread = "waiting"]
           n2 == [n1 EXCEPT !.connected = TRUE]
           n3 == [n2 EXCEPT !.healthy = TRUE]
           n == [n3 EXCEPT !.queued = 1]
<1>1. /\ slot = NoWorker /\ step = "idle" /\ UNCHANGED <<logged, behind, step, orphaned>>
      /\ policy' = "relaxed" /\ slot' = w /\ worker' = [worker EXCEPT ![w] = n]
      /\ logged \in Nat /\ ~orphaned
  BY DEF Resume, IInv, TypeOK, StoreFit
<1>2. /\ n1 \in Worker /\ n1.thread = "waiting" /\ ~n1.stopping /\ ~n1.last /\ n1.pausedAt = 0
  <2>1. Unborn \in Worker /\ ~Unborn.stopping /\ ~Unborn.last /\ Unborn.pausedAt = 0
    BY DEF Unborn, Worker, Threads
  <2> QED
    BY <2>1 DEF Worker, Threads
<1>3. /\ n \in Worker /\ n.thread = "waiting" /\ n.connected /\ ~n.stopping /\ ~n.last
      /\ n.pausedAt = 0
  <2> HIDE DEF n1
  <2>1. /\ n2 \in Worker /\ n2.thread = "waiting" /\ n2.connected /\ ~n2.stopping /\ ~n2.last
        /\ n2.pausedAt = 0
    BY <1>2 DEF Worker
  <2> HIDE DEF n2
  <2>2. /\ n3 \in Worker /\ n3.thread = "waiting" /\ n3.connected /\ ~n3.stopping /\ ~n3.last
        /\ n3.pausedAt = 0
    BY <2>1 DEF Worker
  <2> HIDE DEF n3
  <2> QED
    BY <2>2 DEF Worker
<1> HIDE DEF n
<1>4. Fit(n) /\ Serving(n)
  BY <1>1, <1>3 DEF Fit, Over, Serving
<1>5. worker'[w] = n /\ \A v \in Workers : v # w => worker'[v] = worker[v]
  BY <1>1, <1>3 DEF IInv, TypeOK
<1>6. TypeOK'
  BY <1>1, <1>3 DEF IInv, TypeOK
<1>7. ASSUME NEW v \in Workers PROVE Fit(worker[v])'
  BY <1>1, <1>4, <1>5 DEF IInv, Fit, Over
<1>8. StoreFit'
  BY <1>1, <1>4, <1>5, NoWorkerIsNone DEF StoreFit, Serving
<1> QED
  BY <1>6, <1>7, <1>8 DEF IInv

LEMMA DrainKeeps ==
  ASSUME IInv, NEW w \in Workers, Disconnect(w) \/ Join(w)
  PROVE  IInv'
<1> DEFINE m == worker[w]
<1>1. m \in Worker /\ Fit(m) /\ m.stopping /\ slot # w /\ UNCHANGED <<logged, behind, storeVars>>
  BY NoWorkerIsNone DEF Disconnect, Join, IInv, TypeOK, StoreFit, Serving
<1>2. PICK n \in Worker : /\ worker' = [worker EXCEPT ![w] = n] /\ Fit(n)
  <2>1. CASE Disconnect(w)
    <3> DEFINE n == [m EXCEPT !.connected = FALSE]
    <3>1. worker' = [worker EXCEPT ![w] = n]
      BY <2>1 DEF Disconnect
    <3>2. /\ n \in Worker /\ n.thread = m.thread /\ n.stopping = m.stopping
          /\ n.last = m.last /\ n.saw = m.saw /\ n.failed = m.failed /\ n.healthy = m.healthy
          /\ n.pausedAt = m.pausedAt
      BY <1>1 DEF Worker
    <3> HIDE DEF n
    <3>3. Fit(n)
      BY <1>1, <3>2 DEF Fit, Over
    <3> QED
      BY <3>1, <3>2, <3>3
  <2>2. CASE Join(w)
    <3> DEFINE n == [m EXCEPT !.thread = "joined"]
    <3>1. worker' = [worker EXCEPT ![w] = n] /\ m.thread = "closed"
      BY <2>2 DEF Join
    <3>2. /\ n \in Worker /\ n.thread = "joined" /\ n.stopping = m.stopping
          /\ n.last = m.last /\ n.saw = m.saw /\ n.failed = m.failed /\ n.healthy = m.healthy
          /\ n.pausedAt = m.pausedAt /\ n.connected = m.connected
      BY <1>1 DEF Worker, Threads
    <3> HIDE DEF n
    <3>3. Fit(n)
      BY <1>1, <3>1, <3>2 DEF Fit, Over
    <3> QED
      BY <3>1, <3>2, <3>3
  <2> QED
    BY <2>1, <2>2
<1>3. worker'[w] = n /\ \A v \in Workers : v # w => worker'[v] = worker[v]
  BY <1>2 DEF IInv, TypeOK
<1>4. TypeOK'
  BY <1>1, <1>2 DEF IInv, TypeOK
<1>5. ASSUME NEW v \in Workers PROVE Fit(worker[v])'
  BY <1>1, <1>2, <1>3 DEF IInv, Fit, Over
<1>6. StoreFit'
  BY <1>1, <1>3 DEF IInv, TypeOK, StoreFit, Serving, Over
<1> QED
  BY <1>4, <1>5, <1>6 DEF IInv
-----------------------------------------------------------------------------
LEMMA StartsFit == Init => IInv
<1> SUFFICES ASSUME Init PROVE IInv
  OBVIOUS
<1>1. /\ Unborn \in Worker /\ Unborn.thread = "none" /\ Unborn.pausedAt = 0 /\ ~Unborn.last
      /\ ~Unborn.stopping
  BY DEF Unborn, Worker, Threads
<1>2. TypeOK
  <2>1. worker \in [Workers -> Worker]
    BY <1>1 DEF Init
  <2>2. logged \in 0..MaxCommits
    BY DEF Init
  <2> QED
    BY <2>1, <2>2 DEF Init, TypeOK
<1>3. \A w \in Workers : Fit(worker[w])
  BY <1>1 DEF Init, Fit, Over
<1>4. StoreFit
  BY DEF Init, StoreFit
<1> QED
  BY <1>2, <1>3, <1>4 DEF IInv

LEMMA StaysFit == IInv /\ [Next]_vars => IInv'
<1> SUFFICES ASSUME IInv, [Next]_vars PROVE IInv'
  OBVIOUS
<1>1. CASE Next
  BY <1>1, CommitKeeps, NotifyKeeps, PauseKeeps, ResumeKeeps, DrainKeeps, RunKeeps DEF Next
<1>2. CASE UNCHANGED vars
  BY <1>2 DEF IInv, TypeOK, Fit, Over, StoreFit, Serving, vars
<1> QED
  BY <1>1, <1>2

\* The channel holds one message at most and every flag its type, for any number of
\* threads and commits (checkpoint_worker.rs:119).
THEOREM TypeCorrect == Spec => []TypeOK
<1>1. IInv => TypeOK
  BY DEF IInv
<1> QED
  BY <1>1, StartsFit, StaysFit, PTL DEF Spec

\* No commit made after the thread's death returns with the relaxed policy, wherever
\* the thread's end fell between the health check and the send (checkpoint_worker.rs:115).
THEOREM SomeoneMaintains == Spec => []RelaxedOnlyWhenMaintained
<1>1. IInv => RelaxedOnlyWhenMaintained
  BY DEF IInv, StoreFit, RelaxedOnlyWhenMaintained
<1> QED
  BY <1>1, StartsFit, StaysFit, PTL DEF Spec

\* A drain that returns without a failure has seen every commit made before the pause
\* (checkpoint_worker.rs:93).
THEOREM DrainsCover == Spec => []DrainCovers
<1>1. IInv => DrainCovers
  BY DEF IInv, Fit, Over, DrainCovers
<1> QED
  BY <1>1, StartsFit, StaysFit, PTL DEF Spec
-----------------------------------------------------------------------------
(* How far a thread is from its end once it was asked to stop              *)

Ahead(m) ==
  CASE m.thread = "joined" -> 0
    [] m.thread = "closed" -> 1
    [] m.thread = "closing" -> 2
    [] m.thread = "copying" /\ m.last -> 3
    [] m.thread = "observing" /\ m.last -> 4
    [] m.thread = "waiting" /\ ~m.deferred -> 5
    [] m.thread = "copying" /\ ~m.last -> 6
    [] m.thread = "observing" /\ ~m.last /\ m.force -> 7
    [] m.thread = "waiting" /\ m.deferred -> 8
    [] OTHER -> 9

\* The sender may still be there.
StepsLeft(m) == Ahead(m) + IF m.connected THEN 1 ELSE 0

LEMMA StepsAreFew == \A m : StepsLeft(m) \in 0..10
BY DEF StepsLeft, Ahead

LEMMA AheadIs ==
  ASSUME NEW m \in Worker
  PROVE  /\ m.thread = "joined" => Ahead(m) = 0
         /\ m.thread = "closed" => Ahead(m) = 1
         /\ m.thread = "closing" => Ahead(m) = 2
         /\ m.thread = "copying" => Ahead(m) = IF m.last THEN 3 ELSE 6
         /\ m.thread = "observing" => Ahead(m) = IF m.last THEN 4 ELSE IF m.force THEN 7 ELSE 9
         /\ m.thread = "waiting" => Ahead(m) = IF m.deferred THEN 8 ELSE 5
BY DEF Ahead, Worker

Nearer(m, n) == n.stopping /\ StepsLeft(n) < StepsLeft(m)

\* What a thread does of itself leaves the channel's sender alone.
LEMMA NearerIf ==
  ASSUME NEW m \in Worker, NEW n \in Worker, m.stopping, n.stopping = m.stopping,
         n.connected = m.connected, Ahead(n) < Ahead(m), Ahead(m) \in 0..9, Ahead(n) \in 0..9
  PROVE  Nearer(m, n)
BY DEF Nearer, StepsLeft

LEMMA AheadRange == \A m : Ahead(m) \in 0..9
BY DEF Ahead

\* The other flags have no part in it.
LEMMA SameStepsLeft ==
  ASSUME NEW m \in Worker, NEW n \in Worker, n.thread = m.thread, n.last = m.last,
         n.force = m.force, n.deferred = m.deferred, n.connected = m.connected
  PROVE  StepsLeft(n) = StepsLeft(m)
<1>1. Ahead(n) = Ahead(m)
  <2>1. CASE m.thread = "none"
    BY <2>1 DEF Ahead
  <2>2. CASE m.thread # "none"
    <3>1. m.thread \in Threads \ {"none"}
      BY <2>2 DEF Worker
    <3> QED
      BY <3>1, AheadIs DEF Threads
  <2> QED
    BY <2>1, <2>2
<1> QED
  BY <1>1 DEF StepsLeft

LEMMA LeavingNearer ==
  ASSUME NEW m \in Worker, m.thread = "waiting", m.stopping
  PROVE  Nearer(m, Leaving(m))
<1>1. Leaving(m) \in Worker /\ Leaving(m).thread = "observing" /\ Leaving(m).last
      /\ Leaving(m).stopping = m.stopping /\ Leaving(m).connected = m.connected
  BY LeavingFits
<1>2. Ahead(Leaving(m)) = 4 /\ Ahead(m) \in {5, 8}
  BY <1>1, AheadIs
<1>3. Ahead(Leaving(m)) < Ahead(m)
  BY <1>2
<1> QED
  BY <1>1, <1>3, AheadRange, NearerIf

LEMMA RestNearer ==
  ASSUME NEW m \in Worker, NEW deferred \in BOOLEAN, m.thread \in {"observing", "copying"},
         m.stopping, deferred => m.thread = "observing" /\ ~m.force
  PROVE  Nearer(m, Rest(m, deferred))
<1> DEFINE n == Rest(m, deferred)
<1>1. n \in Worker /\ n.stopping = m.stopping /\ n.connected = m.connected
  BY RestFits
<1>2. Ahead(n) < Ahead(m)
  <2>1. CASE m.last
    <3>1. Ahead(n) = 2
      BY <1>1, <2>1, RestFits, AheadIs
    <3>2. Ahead(m) \in {3, 4}
      BY <2>1, AheadIs
    <3> QED
      BY <3>1, <3>2
  <2>2. CASE ~m.last
    <3>1. n.thread = "waiting" /\ n.deferred = deferred
      BY <2>2 DEF Rest, Worker
    <3>2. Ahead(n) = IF deferred THEN 8 ELSE 5
      <4> HIDE DEF n
      <4> QED
        BY <1>1, <3>1, AheadIs
    <3>3. Ahead(m) \in {6, 7, 9} /\ (deferred => Ahead(m) = 9)
      BY <2>2, AheadIs
    <3> QED
      BY <3>2, <3>3
  <2> QED
    BY <2>1, <2>2
<1> QED
  BY <1>1, <1>2, AheadRange, NearerIf

\* Every step of a thread that was asked to stop brings its end nearer.
LEMMA RunNearer ==
  ASSUME TypeOK, NEW w \in Workers, worker[w].stopping, Run(w)
  PROVE  Nearer(worker[w], worker'[w])
<1> DEFINE m == worker[w]
<1>0. m \in Worker /\ logged \in Nat
  BY DEF TypeOK
<1> DEFINE k == [m EXCEPT !.saw = logged]
           q == [m EXCEPT !.queued = 0]
<1>1. /\ k \in Worker /\ k.thread = m.thread /\ k.last = m.last /\ k.force = m.force
      /\ k.stopping = m.stopping /\ k.connected = m.connected /\ k.deferred = m.deferred
  BY <1>0 DEF Worker
<1>2. /\ q \in Worker /\ q.thread = m.thread /\ q.last = m.last /\ q.force = m.force
      /\ q.stopping = m.stopping /\ q.connected = m.connected /\ q.deferred = m.deferred
  <2> HIDE DEF m
  <2>1. 0 \in 0..1
    OBVIOUS
  <2> QED
    BY <1>0, <2>1 DEF Worker
<1>3. StepsLeft(k) = StepsLeft(m) /\ StepsLeft(q) = StepsLeft(m)
  <2> HIDE DEF k, q
  <2>1. StepsLeft(k) = StepsLeft(m)
    BY <1>0, <1>1, SameStepsLeft
  <2>2. StepsLeft(q) = StepsLeft(m)
    BY <1>0, <1>2, SameStepsLeft
  <2> QED
    BY <2>1, <2>2
<1>4. \A n : ThreadStep(w, n) => worker'[w] = n
  BY DEF ThreadStep, TypeOK
<1> HIDE DEF k, q
<1>5. CASE Receive(w)
  <2>1. ThreadStep(w, Leaving(q)) /\ m.thread = "waiting"
    BY <1>2, <1>5 DEF Receive, q
  <2>2. Nearer(q, Leaving(q))
    BY <1>2, <2>1, LeavingNearer
  <2> QED
    BY <1>3, <1>4, <2>1, <2>2 DEF Nearer
<1>6. CASE Timeout(w)
  <2> DEFINE n == [m EXCEPT !.thread = "observing", !.force = TRUE]
  <2>1. ThreadStep(w, n) /\ m.thread = "waiting" /\ m.deferred
    BY <1>6 DEF Timeout
  <2>2. /\ n \in Worker /\ n.thread = "observing" /\ n.force
        /\ n.stopping = m.stopping /\ n.connected = m.connected
    BY <1>0 DEF Worker, Threads
  <2> HIDE DEF n
  <2>3. Ahead(n) \in {4, 7} /\ Ahead(m) = 8
    BY <1>0, <2>1, <2>2, AheadIs
  <2>4. Ahead(n) < Ahead(m) /\ worker'[w] = n
    BY <1>4, <2>1, <2>3
  <2> QED
    BY <1>0, <2>2, <2>4, AheadRange, NearerIf
<1>7. CASE Disconnected(w)
  BY <1>0, <1>4, <1>7, LeavingNearer DEF Disconnected
<1>8. CASE Observe(w)
  <2> DEFINE n == [k EXCEPT !.thread = "copying"]
  <2>1. /\ m.thread = "observing"
        /\ \/ \E d \in BOOLEAN : ThreadStep(w, Rest(k, d)) /\ (d => ~k.force)
           \/ ThreadStep(w, n)
    BY <1>1, <1>8 DEF Observe, k
  <2>2. ASSUME NEW d \in BOOLEAN, ThreadStep(w, Rest(k, d)), d => ~k.force
        PROVE  Nearer(m, worker'[w])
    BY <1>1, <1>3, <1>4, <2>1, <2>2, RestNearer DEF Nearer
  <2>3. CASE ThreadStep(w, n)
    <3>1. /\ n \in Worker /\ n.thread = "copying" /\ n.last = k.last
          /\ n.stopping = k.stopping /\ n.connected = k.connected
      BY <1>1 DEF Worker, Threads
    <3> HIDE DEF n
    <3>2. Ahead(n) = (IF k.last THEN 3 ELSE 6) /\ Ahead(k) \in (IF k.last THEN {4} ELSE {7, 9})
      BY <1>1, <2>1, <3>1, AheadIs
    <3>3. Ahead(n) < Ahead(k)
      BY <3>2
    <3>4. Nearer(k, n)
      BY <1>1, <3>1, <3>3, AheadRange, NearerIf
    <3> QED
      BY <1>3, <1>4, <2>3, <3>4 DEF Nearer
  <2> QED
    BY <2>1, <2>2, <2>3
<1>9. CASE Copy(w)
  BY <1>0, <1>4, <1>9, RestNearer DEF Copy
<1>10. CASE Busy(w)
  <2>1. ThreadStep(w, Rest(k, FALSE)) /\ m.thread \in {"observing", "copying"}
    BY <1>10 DEF Busy, k
  <2>2. Nearer(k, Rest(k, FALSE))
    BY <1>1, <2>1, RestNearer
  <2> QED
    BY <1>3, <1>4, <2>1, <2>2 DEF Nearer
<1>11. CASE Fail(w)
  <2> DEFINE n == [m EXCEPT !.failed = TRUE]
  <2>1. ThreadStep(w, Returning(n)) /\ m.thread \in {"observing", "copying"}
    BY <1>11 DEF Fail
  <2>2. n \in Worker /\ n.stopping = m.stopping /\ n.connected = m.connected
    BY <1>0 DEF Worker
  <2> HIDE DEF n
  <2>3. Ahead(Returning(n)) = 2 /\ Ahead(m) \in {3, 4, 6, 7, 9}
    BY <1>0, <2>1, <2>2, ReturningFits, AheadIs
  <2>4. Ahead(Returning(n)) < Ahead(m) /\ worker'[w] = Returning(n)
    BY <1>4, <2>1, <2>3
  <2> QED
    BY <1>0, <2>2, <2>4, ReturningFits, AheadRange, NearerIf
<1>12. CASE Close(w)
  <2>1. /\ worker'[w].thread = "closed" /\ m.thread = "closing"
        /\ worker'[w].stopping = m.stopping /\ worker'[w].connected = m.connected
    BY <1>0, <1>4, <1>12 DEF Close, Worker
  <2>2. Ahead(worker'[w]) = 1 /\ Ahead(m) = 2
    BY <2>1 DEF Ahead
  <2> QED
    BY <1>0, <2>1, <2>2 DEF Nearer, StepsLeft
<1> QED
  BY <1>5, <1>6, <1>7, <1>8, <1>9, <1>10, <1>11, <1>12 DEF Run

\* So does a step of the drain that waits for it.
LEMMA DrainNearer ==
  ASSUME TypeOK, NEW w \in Workers, worker[w].stopping, Disconnect(w) \/ Join(w)
  PROVE  Nearer(worker[w], worker'[w])
<1> DEFINE m == worker[w]
<1>0. m \in Worker
  BY DEF TypeOK
<1>1. CASE Disconnect(w)
  <2>1. /\ m.connected /\ ~worker'[w].connected
        /\ worker'[w].thread = m.thread /\ worker'[w].last = m.last
        /\ worker'[w].force = m.force /\ worker'[w].deferred = m.deferred
        /\ worker'[w].stopping = m.stopping
    BY <1>0, <1>1 DEF Disconnect, MayDisconnect, TypeOK, Worker
  <2>2. Ahead(worker'[w]) = Ahead(m)
    BY <2>1 DEF Ahead
  <2> QED
    BY <2>1, <2>2, AheadRange DEF Nearer, StepsLeft
<1>2. CASE Join(w)
  <2>1. /\ worker'[w].thread = "joined" /\ m.thread = "closed"
        /\ worker'[w].stopping = m.stopping /\ worker'[w].connected = m.connected
    BY <1>0, <1>2 DEF Join, TypeOK, Worker
  <2>2. Ahead(worker'[w]) = 0 /\ Ahead(m) = 1
    BY <2>1 DEF Ahead
  <2> QED
    BY <1>0, <2>1, <2>2 DEF Nearer, StepsLeft
<1> QED
  BY <1>1, <1>2

\* From the pause on whatever happens to a thread brings the end of its drain nearer:
\* no timer, no wakeup that was still queued, no busy database and no commit of the
\* Store, which may have another thread by now, sends it back (checkpoint_worker.rs:93).
DrainsAreShort ==
  [][\A w \in Workers : worker[w].stopping /\ worker'[w] # worker[w] =>
       worker'[w].stopping /\ StepsLeft(worker'[w]) < StepsLeft(worker[w])]_vars

LEMMA StoppedMoves ==
  ASSUME IInv, Next, NEW w \in Workers, worker[w].stopping, worker'[w] # worker[w]
  PROVE  Nearer(worker[w], worker'[w])
<1>0. TypeOK /\ slot # w /\ worker[w].thread # "none"
  BY NoWorkerIsNone DEF IInv, StoreFit, Serving, Fit
<1>1. CASE Commit \/ Notify \/ Pause
  <2>1. worker'[w] = worker[w]
    BY <1>0, <1>1 DEF Commit, Notify, CheckHealth, Send, Pause, TypeOK
  <2> QED
    BY <2>1
<1>2. ASSUME NEW v \in Workers, Resume(v) \/ Disconnect(v) \/ Join(v) \/ Run(v)
      PROVE  Nearer(worker[w], worker'[w])
  <2>1. CASE v = w
    BY <1>0, <1>2, <2>1, RunNearer, DrainNearer DEF Resume
  <2>2. CASE v # w
    <3>1. \E n : worker' = [worker EXCEPT ![v] = n]
      BY <1>0, <1>2, ZenonT(60) DEF Resume, Disconnect, Join, Run, Receive, Timeout, Disconnected, Observe, Copy,
                         Busy, Fail, Close, ThreadStep
    <3>2. worker'[w] = worker[w]
      BY <1>0, <2>2, <3>1 DEF TypeOK
    <3> QED
      BY <3>2
  <2> QED
    BY <2>1, <2>2
<1> QED
  BY <1>1, <1>2 DEF Next

\* A drain ends within ten steps of its thread and its own, for any number of threads and
\* commits: at most two rounds of the loop and the return are ahead of it at the pause.
THEOREM DrainsStayShort == Spec => DrainsAreShort /\ \A m : StepsLeft(m) \in 0..10
<1>1. IInv /\ [Next]_vars =>
        [\A w \in Workers : worker[w].stopping /\ worker'[w] # worker[w] =>
           worker'[w].stopping /\ StepsLeft(worker'[w]) < StepsLeft(worker[w])]_vars
  BY StoppedMoves DEF Nearer
<1>2. IInv /\ [Next]_vars => IInv'
  BY StaysFit
<1>3. \A m : StepsLeft(m) \in 0..10
  BY StepsAreFew
<1>4. Spec => DrainsAreShort
  BY <1>1, <1>2, StartsFit, PTL DEF Spec, DrainsAreShort
<1> QED
  BY <1>3, <1>4
=============================================================================
