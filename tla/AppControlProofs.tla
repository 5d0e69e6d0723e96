-------------------------- MODULE AppControlProofs --------------------------
(***************************************************************************)
(* Proofs about AppControl, for every set of requests, of native calls and *)
(* of clients and every value of the limits.  Whatever happens, a receipt  *)
(* moves in one of six ways and a job of the page in one of four; what the *)
(* receipts say is true because of those moves alone.                      *)
(***************************************************************************)
EXTENDS AppControl, TLAPS

USE DEF grantVars, innerVars, callVars, pageVars, wireVars, OnlyPage

Op  == [phase : Phases, nonce : 0..MaxNonces, lease : 0..MaxPages, grant : 0..MaxGrants,
        outcome : Outcomes, sent : Nat]
Job == [at : Stages, nonce : 0..MaxNonces]

-----------------------------------------------------------------------------
\* The inductive invariant

PluginOK ==
  /\ grant \in 0..MaxGrants /\ last \in 1..MaxGrants /\ settling \in BOOLEAN
  /\ exit \in {"open", "reserved", "down"}

\* A receipt carries the number of an acceptance, and nothing is known of later ones.
TableOK ==
  /\ ops \in [Ids -> Op] /\ nonces \in [Ids -> 0..MaxNonces]
  /\ denied \subseteq Ids \X Nonces
  /\ lease \in 0..MaxPages /\ ready \in BOOLEAN
  /\ \A id \in Ids : ops[id].phase # "none" => ops[id].nonce \in 1..nonces[id]
  /\ \A id \in Ids, n \in Nonces : <<id, n>> \in denied => n <= nonces[id]

CallerAt == {"idle", "read", "send", "relock", "wait", "done"}
CallerType == [at : CallerAt, id : Ids \cup {None}, grant : 0..MaxGrants, nonce : 0..MaxNonces,
          page : 0..MaxPages]

CallersOK ==
  /\ caller \in [Callers -> CallerType] /\ revoked \subseteq Natives
  /\ \A c \in Callers :
       /\ caller[c].at \in {"read", "send", "relock"} => caller[c].id \in Ids
       /\ caller[c].at = "send" => caller[c].nonce \in 1..nonces[caller[c].id]
       /\ caller[c].at = "read" => caller[c].id \in Natives \/ caller[c].grant # 0

JobsOK ==
  /\ job \in [Ids -> Job] /\ ran \in [Ids -> [Nonces -> Nat]]
  /\ \A id \in Ids :
       /\ job[id].nonce <= nonces[id]
       /\ job[id].at \in Awaiting => job[id].nonce >= 1
       /\ \A n \in Nonces : n > nonces[id] => ran[id][n] = 0

PageOK == /\ page \in Pages /\ loading \in BOOLEAN /\ lane \in Seq(Ids)
          /\ loading => page < MaxPages

WireOK ==
  /\ events \subseteq [id : Ids, nonce : Nonces, copy : Nat]
  /\ mounts \subseteq [kind : {"register", "confirm"}, page : Pages]
  /\ claims \subseteq [page : Pages, id : Ids, nonce : Nonces, read : 0..Unread]
  /\ reports \subseteq [page : Pages, id : Ids, nonce : Nonces,
                        res : {"ok", "error", "unstarted"}, own : BOOLEAN]
  /\ \A e \in events : e.nonce <= nonces[e.id]
  /\ \A m \in claims : m.nonce <= nonces[m.id]

\* What was accepted and not handed out has not begun, and no job may begin it.
Begun(id, n) == job[id].nonce = n /\ job[id].at \in {"granted", "exec"}

Untouched(id, n) == ran[id][n] = 0 /\ <<id, n>> \notin denied

HistoryOK(id) ==
  LET op == ops[id] IN
  /\ op.phase = "queued" => Untouched(id, op.nonce) /\ ~Begun(id, op.nonce)
  /\ op.phase = "claimed" => <<id, op.nonce>> \notin denied
  /\ op.outcome # "none" => op.phase = "complete"
  /\ op.outcome = "notsent" => <<id, op.nonce>> \in denied
  /\ op.outcome = "ok" => ran[id][op.nonce] = 1
  /\ job[id].at = "granted" => Untouched(id, job[id].nonce)
  /\ job[id].at = "exec" => ran[id][job[id].nonce] = 1
  /\ \A n \in Nonces : ran[id][n] \in {0, 1} /\ (<<id, n>> \in denied => ran[id][n] = 0)

ReportsTrue == \A m \in reports : m.res = "ok" => ran[m.id][m.nonce] = 1

\* A claim that read the grant of what it asks for read the one in force.
UnderGrant(id) ==
  ops[id].phase = "queued" =>
    /\ ops[id].grant # 0
    /\ \A m \in claims : m.id = id /\ m.nonce = ops[id].nonce /\ m.read = ops[id].grant
                           => ops[id].grant = grant \/ settling

Typed == PluginOK /\ TableOK /\ CallersOK /\ JobsOK /\ PageOK /\ WireOK
IInv ==
  /\ Typed
  /\ \A id \in Ids : HistoryOK(id)
  /\ ReportsTrue
  /\ \A id \in Ids \ Natives : UnderGrant(id)

-----------------------------------------------------------------------------
\* The ways of a receipt

Forgotten(id) == ops'[id] = Blank
Over(id) ==
  /\ Open(id)
  /\ ops'[id].phase = "complete" /\ ops'[id].nonce = ops[id].nonce
  /\ \/ ops'[id].outcome = "unknown"
     \/ ops'[id].outcome = "notsent" /\ ops[id].phase = "queued"
     \/ /\ ops'[id].outcome = "ok" /\ ops[id].phase = "claimed"
        /\ ran[id][ops[id].nonce] = 1
Resent(id)    == ops[id].phase = "queued" /\ ops'[id] = [ops[id] EXCEPT !.sent = @ + 1]
HandedOut(id) ==
  /\ ops[id].phase = "queued" /\ ops'[id] = [ops[id] EXCEPT !.phase = "claimed"]
  /\ id \notin Natives => \E m \in claims : /\ m.id = id /\ m.nonce = ops[id].nonce
                                           /\ m.read = ops[id].grant
Taken(id) ==
  /\ nonces'[id] = nonces[id] + 1
  /\ ops'[id].phase = "queued" /\ ops'[id].outcome = "none" /\ ops'[id].nonce = nonces'[id]
  /\ id \notin Natives => ops'[id].grant # 0

Moves(id) == \/ ops'[id] = ops[id]
             \/ Forgotten(id) \/ Over(id) \/ Resent(id) \/ HandedOut(id) \/ Taken(id)

\* Begun and Untouched, of the state after a step
WillBegin(id, n)     == job'[id].nonce = n /\ job'[id].at \in {"granted", "exec"}
StaysUntouched(id, n) == ran'[id][n] = 0 /\ <<id, n>> \notin denied'

Denies(id, n) == ops'[id].outcome = "notsent" /\ ops'[id].nonce = n

TableStep ==
  /\ ops' \in [Ids -> Op] /\ nonces' \in [Ids -> 0..MaxNonces]
  /\ \A id \in Ids : Moves(id) /\ nonces[id] <= nonces'[id]
  /\ denied' \subseteq Ids \X Nonces
  /\ \A id \in Ids, n \in Nonces : <<id, n>> \in denied' <=> <<id, n>> \in denied \/ Denies(id, n)

\* The table after a step is typed, and what it denies is noted.
LEMMA ReceiptsMove ==
  ASSUME IInv, NEW table \in [Ids -> Op], Receipts(table),
         nonces' \in [Ids -> 0..MaxNonces],
         \A id \in Ids : Moves(id) /\ nonces[id] <= nonces'[id]
  PROVE  TableStep
<1>1. ops' = table
  BY DEF Receipts
<1>2. ASSUME NEW id \in Ids, table[id].outcome = "notsent" PROVE table[id].nonce \in Nonces
  <2>1. Moves(id) /\ HistoryOK(id) /\ ops[id] \in Op /\ nonces[id] \in 0..MaxNonces
        /\ (ops[id].phase # "none" => ops[id].nonce \in 1..nonces[id])
    BY DEF IInv, Typed, TableOK
  <2>2. ops'[id] = ops[id] \/ Over(id)
    <3>1. ~Forgotten(id) /\ ~Taken(id)
      BY <1>1, <1>2 DEF Forgotten, Blank, Taken
    <3>2. ~Resent(id) /\ ~HandedOut(id)
      BY <1>1, <1>2, <2>1 DEF Resent, HandedOut, HistoryOK, Op
    <3> QED  BY <2>1, <3>1, <3>2 DEF Moves
  <2>3. ops[id].phase # "none" /\ table[id].nonce = ops[id].nonce
    BY <1>1, <1>2, <2>1, <2>2 DEF Over, Open, HistoryOK
  <2> QED  BY <2>1, <2>3, AppControlAssumption DEF Nonces
<1>3. denied' = denied \cup {<<id, table[id].nonce>> :
                             id \in {i \in Ids : table[i].outcome = "notsent"}}
  BY DEF Receipts
<1>4. denied' \subseteq Ids \X Nonces
  BY <1>2, <1>3 DEF IInv, Typed, TableOK
<1>5. ASSUME NEW id \in Ids, NEW n \in Nonces
      PROVE  <<id, n>> \in denied' <=> <<id, n>> \in denied \/ Denies(id, n)
  BY <1>1, <1>3 DEF Denies
<1> QED  BY <1>1, <1>4, <1>5 DEF TableStep

LEMMA SameMoves ==
  ASSUME IInv, UNCHANGED <<ops, nonces, denied>>
  PROVE  TableStep
<1>1. \A id \in Ids : Moves(id) /\ nonces[id] <= nonces'[id]
  BY DEF Moves, IInv, Typed, TableOK
<1>2. ASSUME NEW id \in Ids, NEW n \in Nonces, Denies(id, n) PROVE <<id, n>> \in denied
  BY <1>2 DEF Denies, IInv, HistoryOK
<1> QED  BY <1>1, <1>2 DEF TableStep, IInv, Typed, TableOK

LEMMA ExpireMoves ==
  ASSUME IInv, NEW due, NEW id \in Ids
  PROVE  /\ Expire(due)[id] \in Op
         /\ \/ Expire(due)[id] = ops[id]
            \/ /\ Open(id) /\ Expire(due)[id].phase = "complete"
               /\ Expire(due)[id].nonce = ops[id].nonce
               /\ \/ Expire(due)[id].outcome = "unknown"
                  \/ Expire(due)[id].outcome = "notsent" /\ ops[id].phase = "queued"
<1>1. ops[id] \in Op
  BY DEF IInv, Typed, TableOK
<1>2. Lapsed(ops[id]) = [ops[id] EXCEPT !.phase = "complete",
                           !.outcome = IF ops[id].phase = "queued" THEN "notsent" ELSE "unknown"]
  BY DEF Lapsed, Ended
<1>3. Expire(due)[id] = IF id \in due /\ Open(id) THEN Lapsed(ops[id]) ELSE ops[id]
  BY DEF Expire
<1>4. Lapsed(ops[id]) \in Op
  BY <1>1, <1>2 DEF Op, Phases, Outcomes
<1> QED  BY <1>1, <1>2, <1>3, <1>4 DEF Op

LEMMA ExpiryMoves ==
  ASSUME IInv, NEW due, Receipts(Expire(due)), UNCHANGED nonces
  PROVE  TableStep
<1>1. Expire(due) \in [Ids -> Op]
  BY ExpireMoves DEF Expire
<1>2. \A id \in Ids : Moves(id)
  BY ExpireMoves DEF Moves, Over, Receipts
<1> QED  BY <1>1, <1>2, ReceiptsMove DEF IInv, Typed, TableOK

\* One receipt moves and the others stay.
LEMMA OneMoves ==
  ASSUME IInv, NEW id \in Ids, NEW new \in Op, Receipts([ops EXCEPT ![id] = new]),
         UNCHANGED nonces, ops'[id] = new => Moves(id)
  PROVE  TableStep
<1>1. ops \in [Ids -> Op] /\ nonces \in [Ids -> 0..MaxNonces]
  BY DEF IInv, Typed, TableOK
<1>2. ops' = [ops EXCEPT ![id] = new]
  BY DEF Receipts
<1>3. ASSUME NEW i \in Ids PROVE Moves(i)
  <2>1. CASE i = id
    BY <1>1, <1>2, <2>1
  <2>2. CASE i # id
    BY <1>1, <1>2, <2>2 DEF Moves
  <2> QED  BY <2>1, <2>2
<1>4. [ops EXCEPT ![id] = new] \in [Ids -> Op]
  BY <1>1
<1>5. nonces' \in [Ids -> 0..MaxNonces] /\ \A i \in Ids : nonces[i] <= nonces'[i]
  BY <1>1
<1> QED  BY <1>3, <1>4, <1>5, ReceiptsMove

LEMMA DeliveryFailedMoves ==
  ASSUME IInv, NEW c \in Callers, DeliveryFailed(c)
  PROVE  TableStep
<1> DEFINE id == caller[c].id
           new == Ended(ops[id], "notsent")
<1>1. id \in Ids /\ ops[id] \in Op
  BY DEF IInv, Typed, CallersOK, TableOK, DeliveryFailed
<1>2. CASE ops[id].phase = "queued"
  <2>1. new \in Op /\ new.phase = "complete" /\ new.nonce = ops[id].nonce /\ new.outcome = "notsent"
    BY <1>1 DEF Ended, Op, Phases, Outcomes
  <2>2. Receipts([ops EXCEPT ![id] = new]) /\ UNCHANGED nonces
    BY <1>2 DEF DeliveryFailed
  <2>3. ops'[id] = new => Moves(id)
    BY <1>2, <2>1 DEF Moves, Over, Open
  <2> HIDE DEF id, new
  <2> QED  BY <1>1, <2>1, <2>2, <2>3, OneMoves
<1>3. CASE ops[id].phase # "queued"
  <2>1. UNCHANGED innerVars
    BY <1>3 DEF DeliveryFailed
  <2> QED  BY <2>1, SameMoves
<1> QED  BY <1>2, <1>3

LEMMA RedeliverMoves ==
  ASSUME IInv, NEW id \in Ids, Redeliver(id)
  PROVE  TableStep
<1> DEFINE new == [ops[id] EXCEPT !.sent = @ + 1]
<1>1. ops[id] \in Op /\ ops[id].phase = "queued"
  BY DEF IInv, Typed, TableOK, Redeliver
<1>2. new \in Op
  BY <1>1 DEF Op
<1>3. Receipts([ops EXCEPT ![id] = new]) /\ UNCHANGED nonces
  <2>1. [ops EXCEPT ![id].sent = @ + 1] = [ops EXCEPT ![id] = new]
    OBVIOUS
  <2> QED  BY <2>1 DEF Redeliver
<1>4. ops'[id] = new => Moves(id)
  BY <1>1 DEF Moves, Resent
<1> HIDE DEF new
<1> QED  BY <1>2, <1>3, <1>4, OneMoves

LEMMA ClaimMoves ==
  ASSUME IInv, NEW m \in claims, Claim(m)
  PROVE  TableStep /\ HandedOut(m.id)
<1> DEFINE id == m.id
           new == [ops[id] EXCEPT !.phase = "claimed"]
<1>1. id \in Ids /\ ops[id] \in Op /\ ops \in [Ids -> Op] /\ ops[id].phase = "queued"
      /\ ops[id].nonce = m.nonce /\ (id \notin Natives => m.read = ops[id].grant)
  BY DEF IInv, Typed, TableOK, WireOK, Claim, MayClaim, Authorized
<1>2. new \in Op
  BY <1>1 DEF Op, Phases
<1>3. Receipts([ops EXCEPT ![id] = new]) /\ UNCHANGED nonces
  <2>1. [ops EXCEPT ![id].phase = "claimed"] = [ops EXCEPT ![id] = new]
    OBVIOUS
  <2> QED  BY <2>1 DEF Claim
<1>4. ops'[id] = new => Moves(id) /\ HandedOut(id)
  BY <1>1 DEF Moves, HandedOut
<1>5. ops'[id] = new
  BY <1>1, <1>3 DEF Receipts
<1> HIDE DEF new, id
<1>6. TableStep /\ HandedOut(id)
  BY <1>1, <1>2, <1>3, <1>4, <1>5, OneMoves
<1> QED  BY <1>6 DEF id

LEMMA ReconcileMoves ==
  ASSUME IInv, Reconcile
  PROVE  TableStep
<1> DEFINE table == [id \in Ids |-> IF id \notin Natives /\ ops[id].phase = "queued"
                                       THEN Ended(ops[id], "notsent") ELSE ops[id]]
<1>1. Receipts(table) /\ UNCHANGED nonces
  BY DEF Reconcile
<1>2. ASSUME NEW id \in Ids PROVE table[id] \in Op /\ Moves(id)
  <2>1. ops[id] \in Op /\ ops'[id] = table[id]
    BY <1>1 DEF IInv, Typed, TableOK, Receipts
  <2>2. CASE id \notin Natives /\ ops[id].phase = "queued"
    BY <2>1, <2>2 DEF Ended, Op, Phases, Outcomes, Moves, Over, Open
  <2>3. CASE ~(id \notin Natives /\ ops[id].phase = "queued")
    BY <2>1, <2>3 DEF Moves
  <2> QED  BY <2>2, <2>3
<1>3. table \in [Ids -> Op]
  BY <1>2
<1> HIDE DEF table
<1> QED  BY <1>1, <1>2, <1>3, ReceiptsMove DEF IInv, Typed, TableOK

\* A report ends a receipt that is under way, and as done only if it was executed.
LEMMA CompleteMoves ==
  ASSUME IInv, NEW m \in reports, Complete(m)
  PROVE  TableStep
<1> DEFINE id == m.id
<1>0. id \in Ids /\ HistoryOK(id) /\ UNCHANGED nonces
      /\ m.res \in {"ok", "error", "unstarted"} /\ (m.res = "ok" => ran[id][m.nonce] = 1)
  BY DEF IInv, Typed, WireOK, ReportsTrue, Complete
<1>1. PICK due \in SUBSET {id} :
        Receipts(CASE lease # m.page -> ops
                   [] lease = m.page /\ MayComplete(m, Expire(due)[id]) ->
                        [Expire(due) EXCEPT ![id] = Completed(Expire(due)[id], m.res)]
                   [] OTHER -> Expire(due))
  BY DEF Complete
<1>2. CASE lease # m.page
  <2>1. Receipts(ops)
    BY <1>1, <1>2
  <2>2. ops' = ops /\ ops \in [Ids -> Op]
    BY <2>1 DEF Receipts, IInv, Typed, TableOK
  <2> QED  BY <1>0, <2>1, <2>2, ReceiptsMove DEF Moves, IInv, Typed, TableOK
<1>3. CASE lease = m.page /\ ~MayComplete(m, Expire(due)[id])
  <2>1. Receipts(Expire(due))
    BY <1>1, <1>3
  <2> QED  BY <1>0, <2>1, ExpiryMoves
<1>4. CASE lease = m.page /\ MayComplete(m, Expire(due)[id])
  <2> DEFINE op == Expire(due)[id]
             new == Completed(op, m.res)
  <2>1. op.nonce = m.nonce /\ op.phase \in IF m.res = "ok" THEN {"claimed"} ELSE {"queued", "claimed"}
    BY <1>4 DEF MayComplete
  <2>2. op = ops[id] /\ op \in Op
    BY <1>0, <2>1, ExpireMoves
  <2>3. op.outcome = "none"
    BY <1>0, <2>1, <2>2 DEF HistoryOK, Op, Outcomes
  <2>4. new \in Op /\ new.phase = "complete" /\ new.nonce = op.nonce
        /\ \/ new.outcome = "unknown"
           \/ new.outcome = "notsent" /\ op.phase = "queued"
           \/ new.outcome = "ok" /\ m.res = "ok"
    <3>1. CASE m.res = "ok"
      BY <2>2, <3>1 DEF Completed, Ended, Op, Phases, Outcomes
    <3>2. CASE m.res # "ok" /\ (m.res = "unstarted" /\ op.phase = "queued")
      BY <2>2, <3>2 DEF Completed, Ended, Op, Phases, Outcomes
    <3>3. CASE m.res # "ok" /\ ~(m.res = "unstarted" /\ op.phase = "queued")
      BY <2>2, <3>3 DEF Completed, Ended, Op, Phases, Outcomes
    <3> QED  BY <3>1, <3>2, <3>3
  <2>5. ASSUME ops'[id] = new PROVE Moves(id)
    <3>1. Over(id)
      BY <1>0, <2>1, <2>2, <2>4, <2>5 DEF Over, Open
    <3> QED  BY <3>1 DEF Moves
  <2>6. Receipts([Expire(due) EXCEPT ![id] = new])
    BY <1>1, <1>4
  <2>7. ASSUME NEW i \in Ids
        PROVE  Moves(i) /\ [Expire(due) EXCEPT ![id] = new][i] \in Op
    <3>1. CASE i = id
      BY <1>0, <2>4, <2>5, <2>6, <3>1 DEF Receipts, Expire
    <3>2. CASE i # id
      <4>1. Expire(due)[i] = ops[i] /\ ops[i] \in Op
        BY <3>2 DEF Expire, IInv, Typed, TableOK
      <4> QED  BY <2>6, <3>2, <4>1 DEF Receipts, Expire, Moves
    <3> QED  BY <3>1, <3>2
  <2>8. [Expire(due) EXCEPT ![id] = new] \in [Ids -> Op]
    BY <2>7 DEF Expire
  <2>9. nonces' \in [Ids -> 0..MaxNonces] /\ \A i \in Ids : nonces[i] <= nonces'[i]
    BY <1>0 DEF IInv, Typed, TableOK
  <2> HIDE DEF new
  <2> QED  BY <2>6, <2>7, <2>8, <2>9, ReceiptsMove
<1> QED  BY <1>2, <1>3, <1>4

\* An acceptance may end and forget receipts before it adds one.
LEMMA EnqueueMoves ==
  ASSUME IInv, NEW c \in Callers, Enqueue(c)
  PROVE  TableStep
<1> DEFINE id == caller[c].id
<1>0. /\ id \in Ids /\ (id \in Natives \/ caller[c].grant # 0) /\ caller[c].grant \in 0..MaxGrants
      /\ nonces \in [Ids -> 0..MaxNonces] /\ lease \in 0..MaxPages
  BY DEF IInv, Typed, CallersOK, TableOK, Enqueue, CallerType
<1>1. PICK due, old \in SUBSET Ids :
        LET table == Aged(due, old) IN
        \/ Refuse(c, table)
        \/ /\ ~Full(table, id)
           /\ \E room \in Evictions(table) : Insert(c, room) \/ Refuse(c, room)
  BY DEF Enqueue
<1> DEFINE table == Aged(due, old)
           Left(t) == \A i \in Ids : t[i] \in Op /\ (ops'[i] = t[i] => Moves(i))
<1>2. Left(table) /\ table \in [Ids -> Op]
  <2>1. ASSUME NEW i \in Ids PROVE table[i] \in Op /\ (ops'[i] = table[i] => Moves(i))
    <3>1. CASE table[i] = Blank
      BY <3>1, AppControlAssumption DEF Blank, Op, Phases, Outcomes, Moves, Forgotten
    <3>2. CASE table[i] = Expire(due)[i]
      BY <3>2, ExpireMoves DEF Moves, Over
    <3> QED  BY <3>1, <3>2 DEF Aged
  <2> QED  BY <2>1 DEF Aged
<1>3. ASSUME NEW t \in [Ids -> Op], Left(t), Refuse(c, t) PROVE TableStep
  <2>1. Receipts(t) /\ UNCHANGED nonces
    BY <1>3 DEF Refuse
  <2> QED  BY <1>0, <1>3, <2>1, ReceiptsMove DEF Receipts
<1>4. ASSUME NEW t \in Evictions(table) PROVE Left(t) /\ t \in [Ids -> Op]
  <2>1. t = table \/ \E v \in Ids : t = [table EXCEPT ![v] = Blank]
    BY DEF Evictions
  <2>2. ASSUME NEW v \in Ids, t = [table EXCEPT ![v] = Blank] PROVE Left(t) /\ t \in [Ids -> Op]
    <3>1. Blank \in Op
      BY AppControlAssumption DEF Blank, Op, Phases, Outcomes
    <3>2. t \in [Ids -> Op]
      BY <1>2, <2>2, <3>1
    <3>3. ASSUME NEW i \in Ids, ops'[i] = t[i] PROVE Moves(i)
      BY <1>2, <2>2, <3>3 DEF Moves, Forgotten
    <3> QED  BY <3>2, <3>3
  <2> QED  BY <1>2, <2>1, <2>2
<1>5. ASSUME NEW t \in [Ids -> Op], Left(t), ~Full(table, id), Insert(c, t) PROVE TableStep
  <2>1. nonces[id] < MaxNonces /\ MaxNonces \in Nat
    BY <1>0, <1>5, AppControlAssumption DEF Full
  <2>2. nonces' = [nonces EXCEPT ![id] = @ + 1] /\ Receipts([t EXCEPT ![id] = New(c)])
    BY <1>5 DEF Insert
  <2>3. New(c) \in Op /\ New(c).phase = "queued" /\ New(c).outcome = "none"
        /\ New(c).nonce = nonces[id] + 1 /\ New(c).grant = caller[c].grant
    BY <1>0, <2>1 DEF New, Op, Phases, Outcomes
  <2>4. nonces' \in [Ids -> 0..MaxNonces] /\ \A i \in Ids : nonces[i] <= nonces'[i]
    BY <1>0, <2>1, <2>2
  <2>5. [t EXCEPT ![id] = New(c)] \in [Ids -> Op]
    BY <2>3
  <2>6. ASSUME NEW i \in Ids PROVE Moves(i)
    <3>1. CASE i = id
      <4>1. ops'[id] = New(c) /\ nonces'[id] = nonces[id] + 1
        BY <1>0, <2>2 DEF Receipts
      <4> QED  BY <1>0, <2>3, <3>1, <4>1 DEF Moves, Taken
    <3>2. CASE i # id
      <4>1. ops'[i] = t[i]
        BY <2>2, <3>2 DEF Receipts
      <4> QED  BY <1>5, <4>1
    <3> QED  BY <3>1, <3>2
  <2> QED  BY <2>2, <2>4, <2>5, <2>6, ReceiptsMove
<1> HIDE DEF table, Left
<1> QED  BY <1>1, <1>2, <1>3, <1>4, <1>5 DEF table

LEMMA TableMoves ==
  ASSUME IInv, Next
  PROVE  TableStep
<1>1. ASSUME NEW c \in Callers, CallerStep(c) PROVE TableStep
  <2>1. CASE \E id \in Ids : Call(c, id)
    BY <2>1, SameMoves DEF Call
  <2>2. CASE Enqueue(c)
    BY <2>2, EnqueueMoves
  <2>3. CASE Send(c)
    BY <2>3, SameMoves DEF Send
  <2>4. CASE DeliveryFailed(c)
    BY <2>4, DeliveryFailedMoves
  <2>5. CASE Return(c)
    BY <2>5, ExpiryMoves DEF Return
  <2> QED  BY <1>1, <2>1, <2>2, <2>3, <2>4, <2>5 DEF CallerStep
<1>2. ASSUME NEW c \in Natives, Revoke(c) PROVE TableStep
  BY <1>2, SameMoves DEF Revoke
<1>3. ASSUME NEW id \in Ids, Query(id) PROVE TableStep
  BY <1>3, ExpiryMoves, RedeliverMoves DEF Query, Lapse
<1>4. CASE GrantStep
  <2>1. CASE Commit \/ Reserve \/ Abort
    BY <2>1, SameMoves DEF Commit, Reserve, Abort
  <2>2. CASE Reconcile
    BY <2>2, ReconcileMoves
  <2>3. CASE Shutdown
    BY <2>3, ExpiryMoves DEF Shutdown, NoRenderer, Invalidated
  <2> QED  BY <1>4, <2>1, <2>2, <2>3 DEF GrantStep
<1>5. CASE HostStep
  <2>1. ASSUME NEW m \in mounts, Register(m) PROVE TableStep
    BY <2>1, ExpiryMoves DEF Register, Invalidated
  <2>2. ASSUME NEW m \in mounts, Confirm(m) PROVE TableStep
    BY <2>2, SameMoves DEF Confirm
  <2>3. ASSUME NEW m \in claims, ReadGrant(m) \/ Deny(m) PROVE TableStep
    BY <2>3, SameMoves DEF ReadGrant, Deny
  <2>4. ASSUME NEW m \in claims, Claim(m) PROVE TableStep
    BY <2>4, ClaimMoves
  <2>5. ASSUME NEW m \in reports, Complete(m) PROVE TableStep
    BY <2>5, CompleteMoves
  <2> QED  BY <1>5, <2>1, <2>2, <2>3, <2>4, <2>5 DEF HostStep
<1>6. CASE PageStep
  <2>1. ASSUME NEW e \in events, Handle(e) PROVE TableStep
    BY <2>1, SameMoves DEF Handle
  <2>2. ASSUME NEW id \in Ids, JobStep(id) PROVE TableStep
    BY <2>2, SameMoves DEF JobStep, Begin, Flushed, Granted, Executed
  <2>3. CASE Unload
    BY <2>3, ExpiryMoves DEF Unload, NoRenderer, Invalidated
  <2>4. CASE Load
    BY <2>4, SameMoves DEF Load
  <2> QED  BY <1>6, <2>1, <2>2, <2>3, <2>4 DEF PageStep
<1> QED  BY <1>1, <1>2, <1>3, <1>4, <1>5, <1>6 DEF Next

-----------------------------------------------------------------------------
\* The ways of a job

\* It ends, is forgotten or goes on without executing.
Calm(id) == job'[id].at \notin {"granted", "exec"}
Allowed(id) ==
  /\ HandedOut(id) /\ job[id].nonce = ops[id].nonce
  /\ job'[id] = [job[id] EXCEPT !.at = "granted"]
Starts(id) ==
  /\ job[id].at = "granted" /\ UNCHANGED innerVars
  /\ job'[id] = [job[id] EXCEPT !.at = "exec"]
  /\ ran'[id] = [ran[id] EXCEPT ![job[id].nonce] = @ + 1]

Goes(id) == \/ Starts(id)
            \/ ran'[id] = ran[id] /\ (job'[id] = job[id] \/ Calm(id) \/ Allowed(id))

Numbered(id) == /\ job'[id].nonce <= nonces[id]
                /\ job'[id].at \in Awaiting => job'[id].nonce >= 1

JobsStep ==
  /\ job' \in [Ids -> Job] /\ ran' \in [Ids -> [Nonces -> Nat]]
  /\ \A id \in Ids : Goes(id) /\ Numbered(id)

LEMMA SameJobs ==
  ASSUME IInv, UNCHANGED <<job, ran>>
  PROVE  JobsStep
BY DEF JobsStep, Goes, Numbered, IInv, Typed, JobsOK

\* One job goes on with its number, without executing.
LEMMA OneJob ==
  ASSUME IInv, NEW id \in Ids, NEW at \in Stages \ {"granted", "exec"},
         at = "recent" \/ job[id].nonce >= 1,
         job' = [job EXCEPT ![id].at = at], UNCHANGED ran
  PROVE  JobsStep
<1>1. job \in [Ids -> Job] /\ ran \in [Ids -> [Nonces -> Nat]]
      /\ \A i \in Ids : job[i].nonce <= nonces[i] /\ (job[i].at \in Awaiting => job[i].nonce >= 1)
  BY DEF IInv, Typed, JobsOK
<1>2. job' \in [Ids -> Job] /\ job'[id] = [job[id] EXCEPT !.at = at]
  BY <1>1 DEF Job
<1>3. Goes(id) /\ Numbered(id)
  BY <1>1, <1>2 DEF Goes, Calm, Numbered, Job, Awaiting
<1>4. ASSUME NEW i \in Ids, i # id PROVE Goes(i) /\ Numbered(i)
  BY <1>1, <1>4 DEF Goes, Numbered
<1> QED  BY <1>1, <1>2, <1>3, <1>4 DEF JobsStep

LEMMA EndsJob ==
  ASSUME IInv, NEW id \in Ids, NEW res, Ends(id, res), job[id].nonce >= 1, UNCHANGED ran
  PROVE  JobsStep
BY OneJob DEF Ends, Stages, Awaiting

LEMMA ClaimsJob ==
  ASSUME IInv, NEW id \in Ids, Claims(id), job[id].at \in Awaiting, UNCHANGED ran
  PROVE  JobsStep
BY OneJob DEF Claims, Stages, Awaiting, IInv, Typed, JobsOK

LEMMA JobMoves ==
  ASSUME IInv, NEW id \in Ids, JobStep(id)
  PROVE  JobsStep
<1>0. job[id].at \in Awaiting => job[id].nonce >= 1
  BY DEF IInv, Typed, JobsOK
<1>1. CASE Begin(id)
  <2>1. job[id].at \in Awaiting /\ UNCHANGED ran
    BY <1>1 DEF Begin, Awaiting
  <2>2. CASE GivesUp(id)
    BY <1>0, <2>1, <2>2, EndsJob DEF GivesUp
  <2>3. CASE Claims(id)
    BY <2>1, <2>3, ClaimsJob
  <2>4. CASE job' = [job EXCEPT ![id].at = "flush"]
    BY <1>0, <2>1, <2>4, OneJob DEF Stages, Awaiting
  <2> QED  BY <1>1, <2>2, <2>3, <2>4 DEF Begin
<1>2. CASE Flushed(id)
  <2>1. job[id].at \in Awaiting /\ UNCHANGED ran
    BY <1>2 DEF Flushed, Awaiting
  <2> QED  BY <1>0, <1>2, <2>1, EndsJob, ClaimsJob DEF Flushed, GivesUp
<1>3. CASE Granted(id)
  <2>1. job[id].at = "granted" /\ job[id].nonce >= 1
    BY <1>0, <1>3 DEF Granted, Awaiting
  <2>2. CASE Execute(id)
    <3>1. job \in [Ids -> Job] /\ ran \in [Ids -> [Nonces -> Nat]]
          /\ \A i \in Ids : job[i].nonce <= nonces[i] /\ (job[i].at \in Awaiting => job[i].nonce >= 1)
      BY DEF IInv, Typed, JobsOK
    <3>2. job' = [job EXCEPT ![id].at = "exec"] /\ ran' = [ran EXCEPT ![id][job[id].nonce] = @ + 1]
      BY <2>2 DEF Execute
    <3>3. job[id].nonce \in Nonces
      BY <2>1, <3>1, AppControlAssumption DEF Job, Nonces
    <3>4. job' \in [Ids -> Job] /\ ran' \in [Ids -> [Nonces -> Nat]]
      BY <3>1, <3>2, <3>3 DEF Job, Stages, Awaiting
    <3>5. Goes(id) /\ Numbered(id)
      BY <1>3, <2>1, <3>1, <3>2 DEF Goes, Starts, Numbered, Granted, Job
    <3>6. ASSUME NEW i \in Ids, i # id PROVE Goes(i) /\ Numbered(i)
      BY <3>1, <3>2, <3>6 DEF Goes, Numbered
    <3> QED  BY <3>4, <3>5, <3>6 DEF JobsStep
  <2>3. CASE GivesUp(id) /\ UNCHANGED ran
    BY <2>1, <2>3, EndsJob DEF GivesUp
  <2> QED  BY <1>3, <2>2, <2>3 DEF Granted
<1>4. CASE Executed(id)
  <2>1. job[id].at \in Awaiting /\ UNCHANGED ran
    BY <1>4 DEF Executed, Awaiting
  <2> QED  BY <1>0, <1>4, <2>1, EndsJob DEF Executed
<1> QED  BY <1>1, <1>2, <1>3, <1>4 DEF JobStep

LEMMA ClaimJob ==
  ASSUME IInv, NEW m \in claims, Claim(m)
  PROVE  JobsStep
<1> DEFINE id == m.id
<1>1. id \in Ids /\ m.nonce \in Nonces /\ HandedOut(id) /\ ops[id].nonce = m.nonce /\ UNCHANGED ran
  BY ClaimMoves DEF IInv, Typed, WireOK, Claim, MayClaim
<1>2. CASE Awaits(m)
  <2>1. job' = [job EXCEPT ![id].at = "granted"] /\ job[id].nonce = m.nonce
    BY <1>2 DEF Claim, Awaits
  <2>2. job \in [Ids -> Job] /\ ran \in [Ids -> [Nonces -> Nat]]
        /\ \A i \in Ids : job[i].nonce <= nonces[i] /\ (job[i].at \in Awaiting => job[i].nonce >= 1)
    BY DEF IInv, Typed, JobsOK
  <2>3. job' \in [Ids -> Job]
    BY <2>1, <2>2 DEF Job, Stages, Awaiting
  <2>4. Goes(id) /\ Numbered(id)
    BY <1>1, <2>1, <2>2 DEF Goes, Allowed, Numbered, Job, Nonces
  <2>5. ASSUME NEW i \in Ids, i # id PROVE Goes(i) /\ Numbered(i)
    BY <1>1, <2>1, <2>2, <2>5 DEF Goes, Numbered
  <2> QED  BY <1>1, <2>2, <2>3, <2>4, <2>5 DEF JobsStep
<1>3. CASE ~Awaits(m)
  BY <1>3, SameJobs DEF Claim
<1> QED  BY <1>2, <1>3

\* The page remembers what ended, and forgets another.
LEMMA CompleteJob ==
  ASSUME IInv, NEW m \in reports, Complete(m)
  PROVE  JobsStep
<1> DEFINE id == m.id
           jobs == [job EXCEPT ![id].at = "recent"]
<1>1. id \in Ids /\ UNCHANGED ran
      /\ job \in [Ids -> Job] /\ ran \in [Ids -> [Nonces -> Nat]] /\ nonces \in [Ids -> 0..MaxNonces]
      /\ \A i \in Ids : job[i].nonce <= nonces[i] /\ (job[i].at \in Awaiting => job[i].nonce >= 1)
  BY DEF IInv, Typed, WireOK, TableOK, JobsOK, Complete
<1>2. CASE job' = job
  BY <1>1, <1>2, SameJobs
<1>3. CASE job' \in Remembered(id)
  <2>1. job' = jobs \/ \E i \in Ids : job' = [jobs EXCEPT ![i] = NoJob]
    BY <1>3 DEF Remembered
  <2>2. CASE job' = jobs
    <3>1. "recent" \in Stages \ {"granted", "exec"}
      BY DEF Stages, Awaiting
    <3> QED  BY <1>1, <2>2, <3>1, OneJob
  <2>3. ASSUME NEW i \in Ids, job' = [jobs EXCEPT ![i] = NoJob] PROVE JobsStep
    <3>1. NoJob \in Job /\ jobs \in [Ids -> Job]
      BY <1>1, AppControlAssumption DEF NoJob, Job, Stages
    <3>2. job' \in [Ids -> Job]
      BY <2>3, <3>1
    <3>3. ASSUME NEW k \in Ids PROVE Goes(k) /\ Numbered(k)
      <4>1. CASE k = i
        BY <1>1, <2>3, <3>1, <4>1 DEF Goes, Calm, Numbered, NoJob, Awaiting
      <4>2. CASE k # i /\ k = id
        BY <1>1, <2>3, <3>1, <4>2 DEF Goes, Calm, Numbered, Job, Awaiting
      <4>3. CASE k # i /\ k # id
        BY <1>1, <2>3, <3>1, <4>3 DEF Goes, Numbered
      <4> QED  BY <4>1, <4>2, <4>3
    <3> QED  BY <1>1, <3>2, <3>3 DEF JobsStep
  <2> QED  BY <2>1, <2>2, <2>3
<1> QED  BY <1>2, <1>3 DEF Complete

LEMMA HandleJob ==
  ASSUME IInv, NEW e \in events, Handle(e)
  PROVE  JobsStep
<1>1. e.id \in Ids /\ e.nonce \in Nonces /\ e.nonce <= nonces[e.id] /\ UNCHANGED ran
      /\ job \in [Ids -> Job] /\ ran \in [Ids -> [Nonces -> Nat]]
      /\ \A i \in Ids : job[i].nonce <= nonces[i] /\ (job[i].at \in Awaiting => job[i].nonce >= 1)
  BY DEF IInv, Typed, WireOK, JobsOK, Handle
<1>2. CASE Ignore(e) \/ Reject(e)
  BY <1>1, <1>2, SameJobs DEF Ignore, Reject
<1>3. CASE Accept(e)
  <2>1. job' = [job EXCEPT ![e.id] = [at |-> "waiting", nonce |-> e.nonce]]
    BY <1>3 DEF Accept
  <2>2. job' \in [Ids -> Job]
    BY <1>1, <2>1, AppControlAssumption DEF Job, Stages, Awaiting, Nonces
  <2>3. Goes(e.id) /\ Numbered(e.id)
    BY <1>1, <2>1 DEF Goes, Calm, Numbered, Nonces
  <2>4. ASSUME NEW i \in Ids, i # e.id PROVE Goes(i) /\ Numbered(i)
    BY <1>1, <2>1, <2>4 DEF Goes, Numbered
  <2> QED  BY <1>1, <2>2, <2>3, <2>4 DEF JobsStep
<1> QED  BY <1>2, <1>3 DEF Handle

LEMMA LoadJob ==
  ASSUME IInv, Load
  PROVE  JobsStep
<1>1. job' = [id \in Ids |-> NoJob] /\ UNCHANGED ran /\ NoJob \in Job
      /\ ran \in [Ids -> [Nonces -> Nat]] /\ nonces \in [Ids -> 0..MaxNonces]
  BY AppControlAssumption DEF IInv, Typed, TableOK, JobsOK, Load, NoJob, Job, Stages
<1> QED  BY <1>1 DEF JobsStep, Goes, Calm, Numbered, NoJob, Awaiting

LEMMA JobsMove ==
  ASSUME IInv, Next
  PROVE  JobsStep
<1>1. ASSUME NEW c \in Callers, CallerStep(c) PROVE JobsStep
  BY <1>1, SameJobs DEF CallerStep, Call, Enqueue, Send, DeliveryFailed, Return
<1>2. ASSUME NEW c \in Natives, Revoke(c) PROVE JobsStep
  BY <1>2, SameJobs DEF Revoke
<1>3. ASSUME NEW id \in Ids, Query(id) PROVE JobsStep
  BY <1>3, SameJobs DEF Query, Lapse, Redeliver
<1>4. CASE GrantStep
  BY <1>4, SameJobs DEF GrantStep, Commit, Reconcile, Reserve, Abort, Shutdown, ExitMoves
<1>5. CASE HostStep
  <2>1. ASSUME NEW m \in mounts, Register(m) \/ Confirm(m) PROVE JobsStep
    BY <2>1, SameJobs DEF Register, Confirm
  <2>2. ASSUME NEW m \in claims, ReadGrant(m) PROVE JobsStep
    BY <2>2, SameJobs DEF ReadGrant
  <2>3. ASSUME NEW m \in claims, Deny(m) PROVE JobsStep
    <3>1. CASE Awaits(m)
      <4>1. m.id \in Ids /\ job[m.id].nonce >= 1
        BY <3>1 DEF IInv, Typed, WireOK, Awaits, Nonces
      <4> QED  BY <2>3, <3>1, <4>1, EndsJob DEF Deny
    <3>2. CASE ~Awaits(m)
      BY <2>3, <3>2, SameJobs DEF Deny
    <3> QED  BY <3>1, <3>2
  <2> QED  BY <1>5, <2>1, <2>2, <2>3, ClaimJob, CompleteJob DEF HostStep
<1>6. CASE PageStep
  <2>1. CASE Unload
    BY <2>1, SameJobs DEF Unload
  <2> QED  BY <1>6, <2>1, HandleJob, JobMoves, LoadJob DEF PageStep
<1> QED  BY <1>1, <1>2, <1>3, <1>4, <1>5, <1>6 DEF Next

-----------------------------------------------------------------------------
\* What the receipts say stays true

LEMMA HistoryStep ==
  ASSUME IInv, TableStep, JobsStep, NEW id \in Ids
  PROVE  HistoryOK(id)'
<1> DEFINE op == ops[id]
           new == ops'[id]
<1>0. /\ op \in Op /\ new \in Op /\ nonces[id] \in 0..MaxNonces /\ nonces'[id] \in 0..MaxNonces
      /\ job[id] \in Job /\ job'[id] \in Job
      /\ ran[id] \in [Nonces -> Nat] /\ ran'[id] \in [Nonces -> Nat]
      /\ op.phase # "none" => op.nonce \in 1..nonces[id]
      /\ \A n \in Nonces : (<<id, n>> \in denied => n <= nonces[id]) /\ (n > nonces[id] => ran[id][n] = 0)
      /\ job[id].nonce <= nonces[id] /\ (job[id].at \in Awaiting => job[id].nonce >= 1)
      /\ HistoryOK(id) /\ Moves(id) /\ Goes(id) /\ Numbered(id)
      /\ \A n \in Nonces : <<id, n>> \in denied' <=> <<id, n>> \in denied \/ Denies(id, n)
  BY DEF IInv, Typed, TableOK, JobsOK, TableStep, JobsStep
<1>1. op.phase # "none" => op.nonce \in Nonces
  BY <1>0, AppControlAssumption DEF Nonces
<1>2. job[id].at \in Awaiting => job[id].nonce \in Nonces
  BY <1>0, AppControlAssumption DEF Nonces, Job
\* A denial is new only of what was still queued.
<1>3. ASSUME NEW n \in Nonces, Denies(id, n), <<id, n>> \notin denied
      PROVE  op.phase = "queued" /\ n = op.nonce /\ Over(id)
  <2>1. new # op
    BY <1>0, <1>3 DEF HistoryOK, Denies
  <2>2. Over(id)
    <3>1. ~Forgotten(id) /\ ~Taken(id)
      BY <1>3 DEF Denies, Forgotten, Blank, Taken
    <3>2. ~Resent(id) /\ ~HandedOut(id)
      BY <1>0, <1>3 DEF Denies, Resent, HandedOut, HistoryOK, Op
    <3> QED  BY <1>0, <2>1, <3>1, <3>2 DEF Moves
  <2> QED  BY <1>3, <2>2 DEF Over, Denies
<1>4. ASSUME NEW n \in Nonces, Untouched(id, n), ~(op.phase = "queued" /\ n = op.nonce),
             ~(Starts(id) /\ n = job[id].nonce)
      PROVE  StaysUntouched(id, n)
  <2>1. <<id, n>> \notin denied'
    BY <1>0, <1>3, <1>4 DEF Untouched
  <2>2. ran'[id][n] = 0
    BY <1>0, <1>4 DEF Goes, Starts, Untouched
  <2> QED  BY <2>1, <2>2 DEF StaysUntouched
<1>5. ASSUME NEW n \in Nonces, ran[id][n] = 1 PROVE ran'[id][n] = 1
  BY <1>0, <1>2, <1>5 DEF Goes, Starts, HistoryOK, Untouched, Awaiting
<1>6. ASSUME new.phase = "queued"
      PROVE  StaysUntouched(id, new.nonce) /\ ~WillBegin(id, new.nonce)
  <2>1. CASE Taken(id)
    <3>1. new.nonce = nonces[id] + 1 /\ new.nonce \in Nonces /\ new.outcome = "none"
      BY <1>0, <2>1, AppControlAssumption DEF Taken, Nonces
    <3>2. ran[id][new.nonce] = 0 /\ <<id, new.nonce>> \notin denied'
      BY <1>0, <3>1 DEF Denies
    <3>3. ~Starts(id)
      BY <1>0, <2>1 DEF Starts, Taken
    <3>4. ran'[id][new.nonce] = 0
      BY <1>0, <3>2, <3>3 DEF Goes
    <3>5. job'[id].nonce # new.nonce
      BY <1>0, <3>1 DEF Numbered, Job
    <3> QED  BY <3>2, <3>4, <3>5 DEF StaysUntouched, WillBegin
  <2>2. CASE ~Taken(id)
    <3>1. op.phase = "queued" /\ new.nonce = op.nonce /\ new.outcome = op.outcome /\ ~HandedOut(id)
      BY <1>0, <1>6, <2>2 DEF Moves, Forgotten, Blank, Over, Resent, HandedOut, Op
    <3>2. Untouched(id, op.nonce) /\ ~Begun(id, op.nonce) /\ op.outcome # "notsent"
          /\ op.nonce \in Nonces
      BY <1>0, <1>1, <3>1 DEF HistoryOK
    <3>3. <<id, op.nonce>> \notin denied'
      BY <1>0, <3>1, <3>2 DEF Denies, Untouched
    <3>4. ran'[id][op.nonce] = 0
      BY <1>0, <3>2 DEF Goes, Starts, Untouched, Begun
    <3>5. ~WillBegin(id, op.nonce)
      BY <1>0, <3>1, <3>2 DEF Goes, Calm, Allowed, Starts, Begun, WillBegin, Job
    <3> QED  BY <3>1, <3>3, <3>4, <3>5 DEF StaysUntouched
  <2> QED  BY <2>1, <2>2
<1>7. ASSUME new.phase = "claimed" PROVE <<id, new.nonce>> \notin denied'
  <2>1. new = op \/ HandedOut(id)
    BY <1>0, <1>7 DEF Moves, Forgotten, Blank, Over, Resent, Taken, Op
  <2>2. new.nonce = op.nonce /\ new.outcome = op.outcome /\ op.phase \in {"queued", "claimed"}
    BY <1>0, <1>7, <2>1 DEF HandedOut, Op
  <2>3. op.nonce \in Nonces /\ <<id, op.nonce>> \notin denied /\ op.outcome = "none"
    BY <1>0, <1>1, <2>2 DEF HistoryOK, Untouched
  <2> QED  BY <1>0, <2>2, <2>3 DEF Denies
<1>8. ASSUME new.outcome # "none" PROVE new.phase = "complete"
  BY <1>0, <1>8 DEF HistoryOK, Moves, Forgotten, Blank, Over, Resent, HandedOut, Taken, Op
<1>9. ASSUME new.outcome # "none" PROVE new.nonce = op.nonce /\ (new = op \/ Over(id)) /\ op.nonce \in Nonces
  <2>1. new = op \/ Over(id)
    BY <1>0, <1>9 DEF HistoryOK, Moves, Forgotten, Blank, Resent, HandedOut, Taken, Op
  <2> QED  BY <1>0, <1>1, <1>9, <2>1 DEF Over, Open, HistoryOK
<1>10. ASSUME new.outcome = "notsent" PROVE <<id, new.nonce>> \in denied'
  BY <1>0, <1>9, <1>10 DEF Denies
<1>11. ASSUME new.outcome = "ok" PROVE ran'[id][new.nonce] = 1
  BY <1>0, <1>5, <1>9, <1>11 DEF HistoryOK, Over
<1>12. ASSUME job'[id].at = "granted" PROVE StaysUntouched(id, job'[id].nonce)
  <2>1. CASE job'[id] = job[id]
    <3>1. ~Starts(id) /\ job[id].nonce \in Nonces /\ Untouched(id, job[id].nonce)
      BY <1>0, <1>2, <1>12, <2>1 DEF Starts, Job, HistoryOK, Awaiting
    <3>2. ~(op.phase = "queued" /\ job[id].nonce = op.nonce)
      BY <1>0, <1>12, <2>1 DEF HistoryOK, Begun
    <3> QED  BY <1>4, <2>1, <3>1, <3>2
  <2>2. CASE job'[id] # job[id]
    <3>1. Allowed(id) /\ ran'[id] = ran[id]
      BY <1>0, <1>12, <2>2 DEF Goes, Starts, Calm, Job
    <3>2. op.phase = "queued" /\ job'[id].nonce = op.nonce /\ new.outcome = op.outcome
      BY <1>0, <3>1 DEF Allowed, HandedOut, Job, Op
    <3>3. Untouched(id, op.nonce) /\ op.outcome = "none" /\ op.nonce \in Nonces
      BY <1>0, <1>1, <3>2 DEF HistoryOK
    <3> QED  BY <1>0, <3>1, <3>2, <3>3 DEF Untouched, StaysUntouched, Denies
  <2> QED  BY <2>1, <2>2
<1>13. ASSUME job'[id].at = "exec" PROVE ran'[id][job'[id].nonce] = 1
  <2>1. CASE Starts(id)
    <3>1. ran[id][job[id].nonce] = 0 /\ job[id].nonce \in Nonces /\ job'[id].nonce = job[id].nonce
      BY <1>0, <1>2, <2>1 DEF Starts, HistoryOK, Untouched, Awaiting, Job
    <3> QED  BY <1>0, <2>1, <3>1 DEF Starts
  <2>2. CASE ~Starts(id)
    BY <1>0, <1>13, <2>2 DEF Goes, Calm, Allowed, HistoryOK, Job
  <2> QED  BY <2>1, <2>2
<1>14. ASSUME NEW n \in Nonces
       PROVE  ran'[id][n] \in {0, 1} /\ (<<id, n>> \in denied' => ran'[id][n] = 0)
  <2>1. ran[id][n] \in {0, 1} /\ (<<id, n>> \in denied => ran[id][n] = 0)
    BY <1>0 DEF HistoryOK
  <2>2. CASE Starts(id) /\ n = job[id].nonce
    <3>1. Untouched(id, n) /\ denied' = denied
      BY <1>0, <2>2 DEF Starts, HistoryOK
    <3> QED  BY <1>0, <2>2, <3>1 DEF Starts, Untouched
  <2>3. CASE ~(Starts(id) /\ n = job[id].nonce)
    <3>1. ran'[id][n] = ran[id][n]
      BY <1>0, <2>3 DEF Goes, Starts
    <3>2. ASSUME <<id, n>> \in denied' PROVE ran[id][n] = 0
      BY <1>0, <1>3, <2>1, <3>2 DEF HistoryOK, Untouched
    <3> QED  BY <2>1, <3>1, <3>2
  <2> QED  BY <2>2, <2>3
<1> QED  BY <1>6, <1>7, <1>8, <1>10, <1>11, <1>12, <1>13, <1>14
     DEF HistoryOK, Untouched, Begun, StaysUntouched, WillBegin

-----------------------------------------------------------------------------
\* What is under way between host and page

ReportTyped(m) == m \in [page : Pages, id : Ids, nonce : Nonces,
                         res : {"ok", "error", "unstarted"}, own : BOOLEAN]

\* A report is what a job of this page says when it ends, or turns a request down.
Says(m) == /\ ReportTyped(m)
           /\ m.res = "ok" => job[m.id].at = "exec" /\ m.nonce = job[m.id].nonce
ReportsStep == \A m \in reports' : m \in reports \/ Says(m)

Names(e) == e \in [id : Ids, nonce : Nonces, copy : Nat] /\ e.nonce <= nonces[e.id]
EventsStep == \A e \in events' : e \in events \/ Names(e)

\* A claim is a job's that has not read the grant, or has just read the one in force.
Asks(m) ==
  /\ m \in [page : Pages, id : Ids, nonce : Nonces, read : 0..Unread]
  /\ m.nonce <= nonces[m.id]
  /\ m.read = Unread \/ m.read = GrantNow
ClaimsStep == \A m \in claims' : m \in claims \/ Asks(m)

MountsStep == mounts' \subseteq [kind : {"register", "confirm"}, page : Pages]

LEMMA SameWires ==
  /\ reports' \subseteq reports => ReportsStep
  /\ events' \subseteq events => EventsStep
  /\ claims' \subseteq claims => ClaimsStep
BY DEF ReportsStep, EventsStep, ClaimsStep

LEMMA EndsReport ==
  ASSUME IInv, NEW id \in Ids, NEW res \in {"ok", "error", "unstarted"}, Ends(id, res),
         job[id].nonce \in Nonces, res = "ok" => job[id].at = "exec"
  PROVE  ReportsStep
<1> DEFINE r == Report(id, job[id].nonce, res, TRUE)
<1>1. ReportTyped(r) /\ r.res = res /\ r.id = id /\ r.nonce = job[id].nonce
  <2>1. page \in Pages /\ TRUE \in BOOLEAN
    BY DEF IInv, Typed, PageOK
  <2> QED  BY <2>1, Zenon DEF Report, ReportTyped
<1>2. Says(r)
  BY <1>1 DEF Says
<1>3. reports' = reports \cup {r}
  BY DEF Ends
<1> HIDE DEF r
<1> QED  BY <1>2, <1>3 DEF ReportsStep

LEMMA JobReports ==
  ASSUME IInv, NEW id \in Ids, JobStep(id)
  PROVE  ReportsStep
<1>1. job[id].at \in Awaiting
  BY DEF JobStep, Begin, Flushed, Granted, Executed, Awaiting
<1>2. job[id].nonce \in Nonces
  BY <1>1, AppControlAssumption DEF IInv, Typed, JobsOK, Job, Nonces
<1>3. CASE Begin(id)
  BY <1>2, <1>3, EndsReport, SameWires DEF Begin, GivesUp, Claims
<1>4. CASE Flushed(id)
  BY <1>2, <1>4, EndsReport, SameWires DEF Flushed, GivesUp, Claims
<1>5. CASE Granted(id)
  BY <1>2, <1>5, EndsReport, SameWires DEF Granted, GivesUp, Execute
<1>6. CASE Executed(id)
  <2>1. PICK res \in {"ok", "error"} : Ends(id, res)
    BY <1>6 DEF Executed
  <2> QED  BY <1>2, <1>6, <2>1, EndsReport DEF Executed
<1> QED  BY <1>3, <1>4, <1>5, <1>6 DEF JobStep

LEMMA HandleReports ==
  ASSUME IInv, NEW e \in events, Handle(e)
  PROVE  ReportsStep
<1> DEFINE r == Report(e.id, e.nonce, "unstarted", FALSE)
<1>1. reports' = reports \/ reports' = reports \cup {r}
  BY DEF Handle, Ignore, Reject, Accept
<1>2. ReportTyped(r) /\ r.res = "unstarted"
  <2>1. page \in Pages /\ FALSE \in BOOLEAN /\ "unstarted" \in {"ok", "error", "unstarted"}
        /\ e.id \in Ids /\ e.nonce \in Nonces
    BY DEF IInv, Typed, PageOK, WireOK
  <2> QED  BY <2>1, Zenon DEF Report, ReportTyped
<1>3. Says(r)
  BY <1>2 DEF Says
<1> HIDE DEF r
<1> QED  BY <1>1, <1>3 DEF ReportsStep

LEMMA SendEvents ==
  ASSUME IInv, NEW c \in Callers, Send(c)
  PROVE  EventsStep
<1> DEFINE n == Notice(caller[c].id, caller[c].nonce, 1)
<1>1. caller[c].id \in Ids /\ caller[c].nonce \in 1..nonces[caller[c].id]
      /\ nonces[caller[c].id] \in 0..MaxNonces
  BY DEF IInv, Typed, TableOK, CallersOK, Send
<1>2. Names(n)
  BY <1>1, AppControlAssumption DEF Names, Notice, Nonces
<1>3. events' \subseteq events \cup {n}
  BY DEF Send, Delivered
<1> HIDE DEF n
<1> QED  BY <1>2, <1>3 DEF EventsStep

LEMMA RedeliverEvents ==
  ASSUME IInv, NEW id \in Ids, Redeliver(id)
  PROVE  EventsStep
<1> DEFINE n == Notice(id, ops[id].nonce, ops[id].sent + 1)
<1>1. ops[id].nonce \in 1..nonces[id] /\ ops[id].sent \in Nat /\ nonces[id] \in 0..MaxNonces
  BY DEF IInv, Typed, TableOK, Op, Redeliver
<1>2. Names(n)
  BY <1>1, AppControlAssumption DEF Names, Notice, Nonces
<1>3. events' \subseteq events \cup {n}
  BY DEF Redeliver
<1> HIDE DEF n
<1> QED  BY <1>2, <1>3 DEF EventsStep

LEMMA JobClaims ==
  ASSUME IInv, NEW id \in Ids, JobStep(id)
  PROVE  ClaimsStep
<1> DEFINE m == [page |-> page, id |-> id, nonce |-> job[id].nonce, read |-> Unread]
<1>1. job[id].at \in Awaiting
  BY DEF JobStep, Begin, Flushed, Granted, Executed, Awaiting
<1>2. job[id].nonce \in Nonces /\ job[id].nonce <= nonces[id] /\ page \in Pages
  BY <1>1, AppControlAssumption DEF IInv, Typed, PageOK, JobsOK, Job, Nonces
<1>3. Unread \in 0..Unread
  BY AppControlAssumption DEF Unread
<1>4. Asks(m)
  BY <1>2, <1>3 DEF Asks
<1>5. claims' \subseteq claims \cup {m}
  BY DEF JobStep, Begin, Flushed, Granted, Executed, Claims, GivesUp, Execute
<1> HIDE DEF m
<1> QED  BY <1>4, <1>5 DEF ClaimsStep

LEMMA GrantClaims ==
  ASSUME IInv, NEW m \in claims, ReadGrant(m)
  PROVE  ClaimsStep
<1> DEFINE new == [m EXCEPT !.read = GrantNow]
<1>1. m \in [page : Pages, id : Ids, nonce : Nonces, read : 0..Unread] /\ m.nonce <= nonces[m.id]
  BY DEF IInv, Typed, WireOK
<1>2. GrantNow \in 0..Unread
  BY AppControlAssumption DEF IInv, Typed, PluginOK, GrantNow, Unread
<1>3. Asks(new)
  BY <1>1, <1>2 DEF Asks
<1>4. claims' \subseteq claims \cup {new}
  BY DEF ReadGrant
<1> HIDE DEF new
<1> QED  BY <1>3, <1>4 DEF ClaimsStep

Wires == ReportsStep /\ EventsStep /\ ClaimsStep /\ MountsStep

LEMMA WiresMove ==
  ASSUME IInv, Next
  PROVE  Wires
<1>0. mounts \subseteq [kind : {"register", "confirm"}, page : Pages] /\ page \in Pages
  BY DEF IInv, Typed, WireOK, PageOK
<1>1. UNCHANGED mounts => MountsStep
  BY <1>0 DEF MountsStep
<1>2. ASSUME NEW c \in Callers, CallerStep(c) PROVE Wires
  BY <1>1, <1>2, SameWires, SendEvents
     DEF Wires, CallerStep, Call, Enqueue, Send, DeliveryFailed, Return
<1>3. ASSUME NEW c \in Natives, Revoke(c) PROVE Wires
  BY <1>1, <1>3, SameWires DEF Wires, Revoke
<1>4. ASSUME NEW id \in Ids, Query(id) PROVE Wires
  BY <1>1, <1>4, SameWires, RedeliverEvents DEF Wires, Query, Lapse, Redeliver
<1>5. CASE GrantStep
  BY <1>1, <1>5, SameWires
     DEF Wires, GrantStep, Commit, Reconcile, Reserve, Abort, Shutdown, ExitMoves
<1>6. CASE HostStep
  <2>1. ASSUME NEW m \in mounts, Register(m) PROVE Wires
    <3>1. MountsStep
      BY <1>0, <2>1 DEF Register, MountsStep
    <3> QED  BY <2>1, <3>1, SameWires DEF Wires, Register
  <2>2. ASSUME NEW m \in mounts, Confirm(m) PROVE Wires
    <3>1. MountsStep
      BY <1>0, <2>2 DEF Confirm, MountsStep
    <3> QED  BY <2>2, <3>1, SameWires DEF Wires, Confirm
  <2>3. ASSUME NEW m \in claims, ReadGrant(m) PROVE Wires
    BY <1>1, <2>3, SameWires, GrantClaims DEF Wires, ReadGrant
  <2>4. ASSUME NEW m \in claims, Claim(m) PROVE Wires
    BY <1>1, <2>4, SameWires DEF Wires, Claim
  <2>5. ASSUME NEW m \in claims, Deny(m) PROVE Wires
    <3>1. ReportsStep
      <4>1. m.id \in Ids /\ m.nonce \in Nonces
        BY DEF IInv, Typed, WireOK
      <4> QED  BY <2>5, <4>1, EndsReport, SameWires DEF Deny, Awaits
    <3> QED  BY <1>1, <2>5, <3>1, SameWires DEF Wires, Deny
  <2>6. ASSUME NEW m \in reports, Complete(m) PROVE Wires
    <3>1. UNCHANGED <<events, mounts, claims>> /\ reports' \subseteq reports
      BY <2>6 DEF Complete
    <3> QED  BY <1>1, <3>1, SameWires DEF Wires
  <2> QED  BY <1>6, <2>1, <2>2, <2>3, <2>4, <2>5, <2>6 DEF HostStep
<1>7. CASE PageStep
  <2>1. ASSUME NEW e \in events, Handle(e) PROVE Wires
    BY <1>1, <2>1, SameWires, HandleReports DEF Wires, Handle
  <2>2. ASSUME NEW id \in Ids, JobStep(id) PROVE Wires
    <3>1. UNCHANGED <<events, mounts>>
      BY <2>2 DEF JobStep, Begin, Flushed, Granted, Executed
    <3> QED  BY <1>1, <2>2, <3>1, SameWires, JobReports, JobClaims DEF Wires
  <2>3. CASE Unload
    BY <1>1, <2>3, SameWires DEF Wires, Unload
  <2>4. CASE Load
    <3>1. MountsStep
      <4>1. page' \in Pages
        BY <2>4, AppControlAssumption DEF IInv, Typed, PageOK, Load, Pages
      <4> QED  BY <1>0, <2>4, <4>1 DEF Load, MountsStep
    <3> QED  BY <2>4, <3>1, SameWires DEF Wires, Load
  <2> QED  BY <1>7, <2>1, <2>2, <2>3, <2>4 DEF PageStep
<1> QED  BY <1>2, <1>3, <1>4, <1>5, <1>6, <1>7 DEF Next

-----------------------------------------------------------------------------
\* The parts of the invariant

LEMMA ReportsStay ==
  ASSUME IInv, TableStep, JobsStep, Wires
  PROVE  ReportsTrue'
<1>1. ASSUME NEW m \in reports', m.res = "ok" PROVE ran'[m.id][m.nonce] = 1
  <2>1. m.id \in Ids /\ m.nonce \in Nonces /\ ran[m.id][m.nonce] = 1
    <3>1. CASE m \in reports
      BY <1>1, <3>1 DEF IInv, Typed, WireOK, ReportsTrue
    <3>2. CASE Says(m)
      BY <1>1, <3>2 DEF IInv, HistoryOK, Says, ReportTyped
    <3> QED  BY <3>1, <3>2 DEF Wires, ReportsStep
  <2>2. Goes(m.id) /\ HistoryOK(m.id) /\ ran[m.id] \in [Nonces -> Nat] /\ job[m.id] \in Job
    BY <2>1 DEF IInv, Typed, JobsOK, JobsStep
  <2>3. Starts(m.id) => ran[m.id][job[m.id].nonce] = 0
    BY <2>2 DEF Starts, HistoryOK, Untouched
  <2> QED  BY <2>1, <2>2, <2>3 DEF Goes, Starts
<1> QED  BY <1>1 DEF ReportsTrue

LEMMA TableStays ==
  ASSUME IInv, TableStep, JobsStep, lease' \in 0..MaxPages, ready' \in BOOLEAN
  PROVE  TableOK'
<1>1. ASSUME NEW id \in Ids, ops'[id].phase # "none" PROVE ops'[id].nonce \in 1..nonces'[id]
  <2>1. /\ Moves(id) /\ nonces[id] <= nonces'[id] /\ ops[id] \in Op
        /\ ops[id].phase # "none" => ops[id].nonce \in 1..nonces[id]
        /\ nonces[id] \in 0..MaxNonces /\ nonces'[id] \in 0..MaxNonces
    BY DEF IInv, Typed, TableOK, TableStep
  <2>2. CASE Taken(id)
    BY <2>1, <2>2 DEF Taken
  <2>3. CASE ~Taken(id)
    <3>1. ops'[id].nonce = ops[id].nonce /\ ops[id].phase # "none"
      BY <1>1, <2>1, <2>3 DEF Moves, Forgotten, Blank, Over, Open, Resent, HandedOut, Op
    <3> QED  BY <2>1, <3>1
  <2> QED  BY <2>2, <2>3
<1>2. ASSUME NEW id \in Ids, NEW n \in Nonces, <<id, n>> \in denied' PROVE n <= nonces'[id]
  <2>1. CASE <<id, n>> \in denied
    BY <2>1, AppControlAssumption DEF IInv, Typed, TableOK, TableStep, Nonces
  <2>2. CASE Denies(id, n)
    <3>1. HistoryOK(id)' /\ ops'[id].outcome # "none"
      BY <2>2, HistoryStep DEF Denies
    <3> QED  BY <1>1, <2>2, <3>1 DEF HistoryOK, Denies
  <2> QED  BY <1>2, <2>1, <2>2 DEF TableStep
<1> QED  BY <1>1, <1>2 DEF TableOK, TableStep

LEMMA JobsStay ==
  ASSUME IInv, TableStep, JobsStep
  PROVE  JobsOK'
<1>1. ASSUME NEW id \in Ids
      PROVE  /\ job'[id].nonce <= nonces'[id]
             /\ job'[id].at \in Awaiting => job'[id].nonce >= 1
             /\ \A n \in Nonces : n > nonces'[id] => ran'[id][n] = 0
  <2>1. /\ Goes(id) /\ Numbered(id) /\ nonces[id] <= nonces'[id]
        /\ job[id] \in Job /\ job'[id] \in Job /\ job[id].nonce <= nonces[id]
        /\ nonces[id] \in 0..MaxNonces /\ nonces'[id] \in 0..MaxNonces
        /\ ran[id] \in [Nonces -> Nat]
        /\ \A n \in Nonces : n > nonces[id] => ran[id][n] = 0
    BY DEF IInv, Typed, TableOK, JobsOK, TableStep, JobsStep
  <2>2. job'[id].nonce <= nonces'[id] /\ (job'[id].at \in Awaiting => job'[id].nonce >= 1)
    BY <2>1, AppControlAssumption DEF Numbered, Job
  <2>3. ASSUME NEW n \in Nonces, n > nonces'[id] PROVE ran'[id][n] = 0
    <3>1. n > nonces[id] /\ n # job[id].nonce
      BY <2>1, <2>3, AppControlAssumption DEF Nonces, Job
    <3> QED  BY <2>1, <3>1 DEF Goes, Starts
  <2> QED  BY <2>2, <2>3
<1> QED  BY <1>1 DEF JobsStep, JobsOK

LEMMA WiresStay ==
  ASSUME IInv, TableStep, Wires
  PROVE  WireOK'
<1>1. \A i \in Ids : nonces[i] \in Nat /\ nonces'[i] \in Nat /\ nonces[i] <= nonces'[i]
  BY AppControlAssumption DEF IInv, Typed, TableOK, TableStep
<1>2. ASSUME NEW m \in reports' PROVE ReportTyped(m)
  BY DEF IInv, Typed, WireOK, Wires, ReportsStep, Says, ReportTyped
<1>3. ASSUME NEW e \in events'
      PROVE  e \in [id : Ids, nonce : Nonces, copy : Nat] /\ e.nonce <= nonces'[e.id]
  <2>1. e \in [id : Ids, nonce : Nonces, copy : Nat] /\ e.nonce <= nonces[e.id]
    BY DEF IInv, Typed, WireOK, Wires, EventsStep, Names
  <2> QED  BY <1>1, <2>1, AppControlAssumption DEF Nonces
<1>4. ASSUME NEW m \in claims'
      PROVE  /\ m \in [page : Pages, id : Ids, nonce : Nonces, read : 0..Unread]
             /\ m.nonce <= nonces'[m.id]
  <2>1. m \in [page : Pages, id : Ids, nonce : Nonces, read : 0..Unread] /\ m.nonce <= nonces[m.id]
    BY DEF IInv, Typed, WireOK, Wires, ClaimsStep, Asks
  <2> QED  BY <1>1, <2>1, AppControlAssumption DEF Nonces
<1> QED  BY <1>2, <1>3, <1>4 DEF WireOK, Wires, MountsStep, ReportTyped

\* The grant changes only under a change that is not reconciled yet, and the end of a
\* reconciliation leaves no request of the command line queued.
PluginStep ==
  /\ PluginOK'
  /\ \/ UNCHANGED <<grant, settling>>
     \/ settling' = TRUE
     \/ UNCHANGED grant /\ \A id \in Ids \ Natives : ops'[id].phase # "queued"

LEMMA PluginMoves ==
  ASSUME IInv, Next
  PROVE  PluginStep
<1>0. PluginOK
  BY DEF IInv, Typed
<1>1. ASSUME UNCHANGED grantVars PROVE PluginStep
  BY <1>0, <1>1 DEF PluginStep, PluginOK
<1>2. ASSUME NEW c \in Callers, CallerStep(c) PROVE PluginStep
  BY <1>1, <1>2 DEF CallerStep, Call, Enqueue, Send, DeliveryFailed, Return
<1>3. ASSUME NEW c \in Natives, Revoke(c) PROVE PluginStep
  BY <1>1, <1>3 DEF Revoke
<1>4. ASSUME NEW id \in Ids, Query(id) PROVE PluginStep
  BY <1>1, <1>4 DEF Query, Lapse, Redeliver
<1>5. CASE Commit
  BY <1>0, <1>5, AppControlAssumption DEF Commit, PluginStep, PluginOK
<1>6. CASE Reconcile
  <2>1. ASSUME NEW id \in Ids \ Natives PROVE ops'[id].phase # "queued"
    <3>1. ops[id] \in Op
      BY DEF IInv, Typed, TableOK
    <3>2. ops'[id] = IF ops[id].phase = "queued" THEN Ended(ops[id], "notsent") ELSE ops[id]
      BY <1>6 DEF Reconcile, Receipts
    <3> QED  BY <3>1, <3>2 DEF Ended, Op
  <2> QED  BY <1>0, <1>6, <2>1 DEF Reconcile, PluginStep, PluginOK
<1>7. CASE Reserve \/ Abort \/ Shutdown
  BY <1>0, <1>7 DEF Reserve, Abort, Shutdown, ExitMoves, PluginStep, PluginOK
<1>8. CASE GrantStep
  BY <1>5, <1>6, <1>7, <1>8 DEF GrantStep
<1>9. CASE HostStep
  BY <1>1, <1>9 DEF HostStep, Register, Confirm, ReadGrant, Claim, Deny, Complete
<1>10. ASSUME NEW id \in Ids, JobStep(id) PROVE PluginStep
  BY <1>1, <1>10 DEF JobStep, Begin, Flushed, Granted, Executed
<1>11. CASE PageStep
  BY <1>1, <1>10, <1>11 DEF PageStep, Handle, Unload, Load
<1> QED  BY <1>2, <1>3, <1>4, <1>8, <1>9, <1>11 DEF Next

\* What is newly accepted has a number no claim names yet, and what stays queued keeps
\* the grant that the claims were compared with.
LEMMA GrantStays ==
  ASSUME IInv, TableStep, Wires, PluginStep, NEW id \in Ids \ Natives
  PROVE  UnderGrant(id)'
<1>0. /\ ops[id] \in Op /\ ops'[id] \in Op /\ Moves(id) /\ nonces[id] \in 0..MaxNonces
      /\ UnderGrant(id) /\ grant \in 0..MaxGrants /\ MaxGrants \in Nat
  BY AppControlAssumption DEF IInv, Typed, PluginOK, TableOK, TableStep
<1>1. ASSUME ops'[id].phase = "queued", ~Taken(id)
      PROVE  ops[id].phase = "queued" /\ ops'[id].nonce = ops[id].nonce /\ ops'[id].grant = ops[id].grant
  BY <1>0, <1>1 DEF Moves, Forgotten, Blank, Over, Resent, HandedOut, Op
<1>2. ASSUME ops'[id].phase = "queued" PROVE ops'[id].grant # 0
  BY <1>0, <1>1, <1>2 DEF Taken, UnderGrant
<1>3. ASSUME ops'[id].phase = "queued",
             NEW m \in claims', m.id = id, m.nonce = ops'[id].nonce, m.read = ops'[id].grant
      PROVE  ops'[id].grant = grant' \/ settling'
  <2>1. m \in claims \/ Asks(m)
    BY DEF Wires, ClaimsStep
  <2>2. m.nonce \in Nonces /\ m.nonce <= nonces[id]
    BY <1>3, <2>1 DEF IInv, Typed, WireOK, Asks
  <2>3. ~Taken(id)
    BY <1>0, <1>3, <2>2, AppControlAssumption DEF Taken, Nonces
  <2>4. ops[id].grant = grant \/ settling
    <3>1. CASE m \in claims
      BY <1>0, <1>1, <1>3, <2>3, <3>1 DEF UnderGrant
    <3>2. CASE Asks(m)
      <4>1. m.read = GrantNow
        BY <1>0, <1>3, <3>2 DEF Asks, Unread, Op
      <4> QED  BY <1>1, <1>2, <1>3, <2>3, <4>1 DEF GrantNow
    <3> QED  BY <2>1, <3>1, <3>2
  <2>5. UNCHANGED <<grant, settling>> \/ settling' = TRUE
    BY <1>3 DEF PluginStep
  <2> QED  BY <1>1, <1>3, <2>3, <2>4, <2>5
<1> QED  BY <1>2, <1>3 DEF UnderGrant

\* What a caller holds
CallOK(x) ==
  /\ x \in CallerType
  /\ x.at \in {"read", "send", "relock"} => x.id \in Ids
  /\ x.at = "send" => x.nonce \in 1..nonces[x.id]
  /\ x.at = "read" => x.id \in Natives \/ x.grant # 0
WillHold(x) ==
  /\ x \in CallerType
  /\ x.at \in {"read", "send", "relock"} => x.id \in Ids
  /\ x.at = "send" => x.nonce \in 1..nonces'[x.id]
  /\ x.at = "read" => x.id \in Natives \/ x.grant # 0

LEMMA OneCalls ==
  ASSUME IInv, TableStep, NEW c \in Callers, NEW new, WillHold(new),
         caller' = [caller EXCEPT ![c] = new], revoked' \subseteq Natives
  PROVE  CallersOK'
<1>1. caller \in [Callers -> CallerType] /\ \A d \in Callers : CallOK(caller[d])
  BY DEF IInv, Typed, CallersOK, CallOK
<1>2. \A i \in Ids : nonces[i] \in Nat /\ nonces'[i] \in Nat /\ nonces[i] <= nonces'[i]
  BY AppControlAssumption DEF IInv, Typed, TableOK, TableStep
<1>3. ASSUME NEW d \in Callers PROVE WillHold(caller'[d])
  <2>1. CASE d = c
    BY <1>1, <2>1
  <2>2. CASE d # c
    <3>1. caller'[d] = caller[d] /\ CallOK(caller[d])
      BY <1>1, <2>2
    <3> QED  BY <1>2, <3>1 DEF CallOK, WillHold
  <2> QED  BY <2>1, <2>2
<1>4. caller' \in [Callers -> CallerType]
  BY <1>1 DEF WillHold
<1> QED  BY <1>3, <1>4 DEF CallersOK, WillHold

LEMMA SameCalls ==
  ASSUME IInv, TableStep, UNCHANGED caller, revoked' \subseteq Natives
  PROVE  CallersOK'
<1>1. \A i \in Ids : nonces[i] \in Nat /\ nonces'[i] \in Nat /\ nonces[i] <= nonces'[i]
  BY AppControlAssumption DEF IInv, Typed, TableOK, TableStep
<1> QED  BY <1>1 DEF IInv, Typed, CallersOK

LEMMA RestHolds ==
  ASSUME IInv, NEW c \in Callers
  PROVE  WillHold(Answered(c)) /\ WillHold(Accepted(c)) /\ WillHold(Idle)
<1>1. caller[c] \in CallerType
  BY DEF IInv, Typed, CallersOK
<1>2. WillHold(Idle) /\ WillHold([Idle EXCEPT !.at = "done"])
  BY AppControlAssumption DEF WillHold, Idle, CallerType, CallerAt
<1>3. WillHold([caller[c] EXCEPT !.at = "wait"])
  BY <1>1 DEF WillHold, CallerType, CallerAt
<1> QED  BY <1>2, <1>3 DEF Answered, Accepted

LEMMA CallHolds ==
  ASSUME IInv, NEW c \in Callers, NEW id \in Ids, Call(c, id), TableStep
  PROVE  CallersOK'
<1> DEFINE new == [Idle EXCEPT !.at = "read", !.id = id,
                                !.grant = IF c \in Natives THEN 0 ELSE grant]
<1>1. grant \in 0..MaxGrants /\ MaxGrants \in Nat /\ (c \in Natives => id \in Natives)
      /\ (c \notin Natives => grant # 0)
  BY AppControlAssumption DEF IInv, Typed, PluginOK, Call, GrantNow
<1>2. WillHold(new)
  <2> DEFINE g == IF c \in Natives THEN 0 ELSE grant
  <2>1. g \in 0..MaxGrants /\ (id \in Natives \/ g # 0) /\ 0 \in 0..MaxNonces /\ 0 \in 0..MaxPages
    BY <1>1, AppControlAssumption
  <2>2. Idle \in CallerType
    BY <2>1, AppControlAssumption DEF Idle, CallerType, CallerAt
  <2> HIDE DEF g
  <2>3. new \in CallerType /\ new.at = "read" /\ new.id = id /\ new.grant = g
    BY <2>1, <2>2 DEF CallerType, CallerAt, g
  <2> HIDE DEF new
  <2> QED  BY <2>1, <2>3 DEF WillHold
<1>3. caller' = [caller EXCEPT ![c] = new] /\ revoked' \subseteq Natives
  BY DEF IInv, Typed, CallersOK, Call
<1> HIDE DEF new
<1> QED  BY <1>2, <1>3, OneCalls

LEMMA EnqueueHolds ==
  ASSUME IInv, NEW c \in Callers, Enqueue(c), TableStep
  PROVE  CallersOK'
<1> DEFINE new == [caller[c] EXCEPT !.at = "send", !.nonce = nonces[caller[c].id] + 1,
                                     !.page = lease]
<1>1. revoked' \subseteq Natives
  BY DEF IInv, Typed, CallersOK, Enqueue
<1>2. CASE caller' = [caller EXCEPT ![c] = Answered(c)]
  BY <1>1, <1>2, OneCalls, RestHolds
<1>3. CASE \E table : Insert(c, table)
  <2>1. /\ caller[c] \in CallerType /\ caller[c].id \in Ids /\ lease \in 0..MaxPages
        /\ nonces \in [Ids -> 0..MaxNonces] /\ nonces' \in [Ids -> 0..MaxNonces]
        /\ MaxNonces \in Nat
    BY AppControlAssumption DEF IInv, Typed, TableOK, CallersOK, Enqueue, TableStep
  <2>2. /\ nonces' = [nonces EXCEPT ![caller[c].id] = @ + 1]
        /\ caller' = [caller EXCEPT ![c].at = "send", ![c].nonce = nonces[caller[c].id] + 1,
                                    ![c].page = lease]
    BY <1>3 DEF Insert
  <2>3. nonces'[caller[c].id] = nonces[caller[c].id] + 1
    BY <2>1, <2>2
  <2>4. WillHold(new)
    <3>1. nonces[caller[c].id] + 1 \in 0..MaxNonces
          /\ nonces[caller[c].id] + 1 \in 1..nonces'[caller[c].id]
      BY <2>1, <2>3
    <3>2. new \in CallerType /\ new.at = "send" /\ new.id = caller[c].id
          /\ new.nonce = nonces[caller[c].id] + 1
      BY <2>1, <3>1 DEF CallerType, CallerAt
    <3> HIDE DEF new
    <3> QED  BY <2>1, <3>1, <3>2 DEF WillHold
  <2>5. caller' = [caller EXCEPT ![c] = new]
    BY <2>2 DEF IInv, Typed, CallersOK, CallerType
  <2> HIDE DEF new
  <2> QED  BY <1>1, <2>4, <2>5, OneCalls
<1>4. caller' = [caller EXCEPT ![c] = Answered(c)] \/ \E table : Insert(c, table)
  BY DEF Enqueue, Refuse
<1> QED  BY <1>2, <1>3, <1>4

LEMMA SendHolds ==
  ASSUME IInv, NEW c \in Callers, Send(c), TableStep
  PROVE  CallersOK'
<1> DEFINE new == [caller[c] EXCEPT !.at = "relock"]
<1>1. revoked' \subseteq Natives
  BY DEF IInv, Typed, CallersOK, Send
<1>2. caller[c] \in CallerType /\ caller[c].id \in Ids
  BY DEF IInv, Typed, CallersOK, Send
<1>3. WillHold(new)
  BY <1>2 DEF WillHold, CallerType, CallerAt
<1>4. caller' = [caller EXCEPT ![c] = Accepted(c)] \/ caller' = [caller EXCEPT ![c] = new]
  BY DEF Send
<1> HIDE DEF new
<1> QED  BY <1>1, <1>3, <1>4, OneCalls, RestHolds

LEMMA CallersStay ==
  ASSUME IInv, Next, TableStep
  PROVE  CallersOK'
<1>0. revoked \subseteq Natives
  BY DEF IInv, Typed, CallersOK
<1>1. ASSUME UNCHANGED callVars PROVE CallersOK'
  BY <1>0, <1>1, SameCalls
<1>2. ASSUME NEW c \in Callers, CallerStep(c) PROVE CallersOK'
  <2>1. CASE \E id \in Ids : Call(c, id)
    BY <2>1, CallHolds
  <2>2. CASE Enqueue(c)
    BY <2>2, EnqueueHolds
  <2>3. CASE Send(c)
    BY <2>3, SendHolds
  <2>4. CASE DeliveryFailed(c) \/ Return(c)
    <3>1. UNCHANGED revoked /\ (\/ caller' = [caller EXCEPT ![c] = Answered(c)]
                               \/ caller' = [caller EXCEPT ![c] = Accepted(c)])
      BY <2>4 DEF DeliveryFailed, Return
    <3> QED  BY <1>0, <3>1, OneCalls, RestHolds
  <2> QED  BY <1>2, <2>1, <2>2, <2>3, <2>4 DEF CallerStep
<1>3. ASSUME NEW c \in Natives, Revoke(c) PROVE CallersOK'
  BY <1>0, <1>3, SameCalls DEF Revoke
<1>4. ASSUME NEW id \in Ids, Query(id) PROVE CallersOK'
  BY <1>1, <1>4 DEF Query, Lapse, Redeliver
<1>5. CASE GrantStep
  BY <1>1, <1>5 DEF GrantStep, Commit, Reconcile, Reserve, Abort, Shutdown, ExitMoves
<1>6. CASE HostStep
  BY <1>1, <1>6 DEF HostStep, Register, Confirm, ReadGrant, Claim, Deny, Complete
<1>7. ASSUME NEW id \in Ids, JobStep(id) PROVE CallersOK'
  BY <1>1, <1>7 DEF JobStep, Begin, Flushed, Granted, Executed
<1>8. CASE PageStep
  BY <1>1, <1>7, <1>8 DEF PageStep, Handle, Unload, Load
<1> QED  BY <1>2, <1>3, <1>4, <1>5, <1>6, <1>8 DEF Next

\* The page, and what the host knows of it
SeenOK == PageOK' /\ lease' \in 0..MaxPages /\ ready' \in BOOLEAN

LEMMA PageStays ==
  ASSUME IInv, Next
  PROVE  SeenOK
<1>0. PageOK /\ lease \in 0..MaxPages /\ ready \in BOOLEAN
  BY DEF IInv, Typed, TableOK
<1>1. ASSUME UNCHANGED <<page, loading, lane, lease, ready>> PROVE SeenOK
  BY <1>0, <1>1 DEF SeenOK, PageOK
<1>2. ASSUME NEW c \in Callers, CallerStep(c) PROVE SeenOK
  BY <1>1, <1>2 DEF CallerStep, Call, Enqueue, Send, DeliveryFailed, Return
<1>3. ASSUME NEW c \in Natives, Revoke(c) PROVE SeenOK
  BY <1>1, <1>3 DEF Revoke
<1>4. ASSUME NEW id \in Ids, Query(id) PROVE SeenOK
  BY <1>1, <1>4 DEF Query, Lapse, Redeliver
<1>5. CASE GrantStep
  <2>1. CASE Shutdown
    <3>1. UNCHANGED <<page, loading, lane>> /\ lease' = 0 /\ ready' = FALSE
      BY <2>1 DEF Shutdown, ExitMoves, NoRenderer
    <3>2. PageOK'
      BY <1>0, <3>1 DEF PageOK
    <3>3. lease' \in 0..MaxPages
      BY <3>1, AppControlAssumption
    <3>4. ready' \in BOOLEAN
      BY <3>1, Zenon
    <3> QED  BY <3>2, <3>3, <3>4 DEF SeenOK
  <2> QED  BY <1>1, <1>5, <2>1 DEF GrantStep, Commit, Reconcile, Reserve, Abort, ExitMoves
<1>6. CASE HostStep
  <2>1. ASSUME NEW m \in mounts, Register(m) PROVE SeenOK
    <3>1. m.page \in 0..MaxPages
      BY AppControlAssumption DEF IInv, Typed, WireOK, Pages
    <3> QED  BY <1>0, <2>1, <3>1 DEF Register, SeenOK, PageOK
  <2>2. ASSUME NEW m \in mounts, Confirm(m) PROVE SeenOK
    <3>1. (ready \/ lease = m.page) \in BOOLEAN
      BY Zenon
    <3> QED  BY <1>0, <2>2, <3>1 DEF Confirm, SeenOK, PageOK
  <2>3. ASSUME NEW m \in reports, Complete(m) PROVE SeenOK
    <3>1. lane' \in Seq(Ids)
      <4>1. lane \in Seq(Ids)
        BY <1>0 DEF PageOK
      <4>2. lane' = lane \/ (lane # <<>> /\ lane' = Tail(lane))
        BY <2>3 DEF Complete
      <4>3. lane # <<>> => Tail(lane) \in Seq(Ids)
        BY <4>1
      <4> QED  BY <4>1, <4>2, <4>3
    <3> QED  BY <1>0, <2>3, <3>1 DEF Complete, SeenOK, PageOK
  <2> QED  BY <1>1, <1>6, <2>1, <2>2, <2>3 DEF HostStep, ReadGrant, Claim, Deny
<1>7. CASE PageStep
  <2>1. ASSUME NEW e \in events, Handle(e) PROVE SeenOK
    <3>1. e.id \in Ids
      BY DEF IInv, Typed, WireOK
    <3>2. lane' \in Seq(Ids)
      <4>1. lane' = lane \/ lane' = Append(lane, e.id)
        BY <2>1 DEF Handle, Ignore, Reject, Accept
      <4> QED  BY <1>0, <3>1, <4>1 DEF PageOK
    <3> QED  BY <1>0, <2>1, <3>2 DEF Handle, SeenOK, PageOK
  <2>2. ASSUME NEW id \in Ids, JobStep(id) PROVE SeenOK
    BY <1>1, <2>2 DEF JobStep, Begin, Flushed, Granted, Executed
  <2>3. CASE Unload
    <3>1. /\ UNCHANGED <<page, lane>> /\ lease' = 0 /\ ready' = FALSE
          /\ loading' = TRUE /\ page < MaxPages
      BY <2>3 DEF Unload, NoRenderer
    <3>2. PageOK'
      BY <1>0, <3>1 DEF PageOK
    <3>3. lease' \in 0..MaxPages
      BY <3>1, AppControlAssumption
    <3>4. ready' \in BOOLEAN
      BY <3>1, Zenon
    <3> QED  BY <3>2, <3>3, <3>4 DEF SeenOK
  <2>4. CASE Load
    <3>1. /\ UNCHANGED <<lease, ready>> /\ lane' = <<>>
          /\ loading' = FALSE /\ page' = page + 1 /\ page < MaxPages
      BY <1>0, <2>4 DEF Load, PageOK
    <3>2. page' \in Pages /\ <<>> \in Seq(Ids)
      BY <1>0, <3>1, AppControlAssumption DEF PageOK, Pages
    <3> QED  BY <1>0, <3>1, <3>2 DEF SeenOK, PageOK
  <2> QED  BY <1>7, <2>1, <2>2, <2>3, <2>4 DEF PageStep
<1> QED  BY <1>2, <1>3, <1>4, <1>5, <1>6, <1>7 DEF Next

-----------------------------------------------------------------------------
\* The invariant, and what follows

LEMMA Initially ==
  ASSUME Init
  PROVE  IInv
<1>1. PluginOK /\ TableOK
  <2>1. Blank \in Op /\ Blank.phase = "none"
    BY AppControlAssumption DEF Blank, Op, Phases, Outcomes
  <2>2. PluginOK
    <3>1. grant = 1 /\ last = 1 /\ settling = FALSE /\ exit = "open"
      BY DEF Init
    <3>2. grant \in 0..MaxGrants /\ last \in 1..MaxGrants
      BY <3>1, AppControlAssumption
    <3>3. settling \in BOOLEAN /\ exit \in {"open", "reserved", "down"}
      BY <3>1, Zenon
    <3> QED  BY <3>2, <3>3 DEF PluginOK
  <2>3. lease = 0 /\ ready = FALSE /\ denied = {}
        /\ ops = [id \in Ids |-> Blank] /\ nonces = [id \in Ids |-> 0]
    BY DEF Init
  <2>4. lease \in 0..MaxPages /\ 0 \in 0..MaxNonces
    BY <2>3, AppControlAssumption
  <2>5. ready \in BOOLEAN
    BY <2>3, Zenon
  <2> QED  BY <2>1, <2>2, <2>3, <2>4, <2>5 DEF TableOK
<1>2. CallersOK
  <2>1. Idle \in CallerType /\ Idle.at = "idle"
    BY AppControlAssumption DEF Idle, CallerType, CallerAt
  <2> QED  BY <2>1 DEF Init, CallersOK
<1>3. JobsOK /\ PageOK
  <2>1. NoJob \in Job /\ NoJob.nonce = 0 /\ NoJob.at \notin Awaiting
    BY AppControlAssumption DEF NoJob, Job, Stages, Awaiting
  <2>2. JobsOK
    BY <2>1, AppControlAssumption DEF Init, JobsOK
  <2>3. page = 1 /\ loading = FALSE /\ lane = <<>>
    BY DEF Init
  <2>4. <<>> \in Seq(Ids) /\ 1 \in Pages
    BY AppControlAssumption DEF Pages
  <2> QED  BY <2>2, <2>3, <2>4 DEF PageOK
<1>4. WireOK /\ ReportsTrue
  BY AppControlAssumption DEF Init, WireOK, ReportsTrue, Pages
<1>5. ASSUME NEW id \in Ids PROVE HistoryOK(id) /\ UnderGrant(id)
  BY DEF Init, HistoryOK, UnderGrant, Blank, NoJob, Begun
<1> QED  BY <1>1, <1>2, <1>3, <1>4, <1>5 DEF IInv, Typed

\* What a step does with the receipts, the jobs and the messages, all at once
StepMoves == TableStep /\ JobsStep /\ Wires /\ PluginStep

LEMMA Stutter ==
  ASSUME IInv, UNCHANGED vars
  PROVE  StepMoves /\ CallersOK' /\ SeenOK
<1>1. TableStep /\ JobsStep
  BY SameMoves, SameJobs DEF vars
<1>2. Wires
  BY SameWires DEF vars, Wires, MountsStep, IInv, Typed, WireOK
<1>3. PluginStep /\ SeenOK
  BY DEF vars, PluginStep, SeenOK, IInv, Typed, PluginOK, PageOK, TableOK
<1>4. CallersOK'
  BY <1>1, SameCalls DEF vars, IInv, Typed, CallersOK
<1> QED  BY <1>1, <1>2, <1>3, <1>4 DEF StepMoves

LEMMA Steps ==
  ASSUME IInv, [Next]_vars
  PROVE  StepMoves /\ CallersOK' /\ SeenOK
<1>1. CASE Next
  BY <1>1, TableMoves, JobsMove, WiresMove, PluginMoves, CallersStay, PageStays DEF StepMoves
<1>2. CASE UNCHANGED vars
  BY <1>2, Stutter
<1> QED  BY <1>1, <1>2

LEMMA Inductive ==
  ASSUME IInv, [Next]_vars
  PROVE  IInv'
<1>1. TableStep /\ JobsStep /\ Wires /\ PluginStep /\ CallersOK' /\ SeenOK
  BY Steps DEF StepMoves
<1>2. TableOK' /\ JobsOK' /\ WireOK' /\ PluginOK' /\ PageOK' /\ ReportsTrue'
  BY <1>1, TableStays, JobsStay, WiresStay, ReportsStay DEF SeenOK, PluginStep
<1>3. \A id \in Ids : HistoryOK(id)'
  BY <1>1, HistoryStep
<1>4. \A id \in Ids \ Natives : UnderGrant(id)'
  BY <1>1, GrantStays
<1> QED  BY <1>1, <1>2, <1>3, <1>4 DEF IInv, Typed

LEMMA Invariant == Spec => []IInv
<1>1. Init => IInv
  BY Initially
<1>2. IInv /\ [Next]_vars => IInv'
  BY Inductive
<1> QED  BY <1>1, <1>2, PTL DEF Spec

\* Every variable keeps its type: no claim, report or notification names an acceptance
\* that was never made.
THEOREM TypeCorrect == Spec => []TypeOK
<1>1. IInv => TypeOK
  BY DEF IInv, Typed, PluginOK, TableOK, CallersOK, JobsOK, PageOK, WireOK, TypeOK, Op, Job,
         CallerType, CallerAt
<1> QED  BY <1>1, Invariant, PTL

\* Receipts tell the truth: a request executes at most once per acceptance, never once
\* a receipt said that it was not sent, and it did if a receipt says that it is done.
THEOREM OutcomesTrue == Spec => []OutcomeTrue
<1>1. ASSUME IInv PROVE OutcomeTrue
  <2>1. ASSUME NEW id \in Ids
        PROVE  /\ \A n \in Nonces : ran[id][n] <= IF <<id, n>> \in denied THEN 0 ELSE 1
               /\ ops[id].outcome = "ok" => ran[id][ops[id].nonce] = 1
    <3>1. HistoryOK(id)
      BY <1>1 DEF IInv
    <3>2. ASSUME NEW n \in Nonces PROVE ran[id][n] <= IF <<id, n>> \in denied THEN 0 ELSE 1
      <4>1. ran[id][n] \in {0, 1} /\ (<<id, n>> \in denied => ran[id][n] = 0)
        BY <3>1 DEF HistoryOK
      <4> QED  BY <4>1
    <3> QED  BY <3>1, <3>2 DEF HistoryOK
  <2> QED  BY <2>1 DEF OutcomeTrue
<1> QED  BY <1>1, Invariant, PTL

\* What the command line asked for is handed out under the grant it was accepted under,
\* or while a change of the grant is not reconciled yet.
THEOREM GrantHolds == Spec => ClaimsUnderGrant
<1>1. ASSUME IInv, [Next]_vars, NEW id \in Ids \ Natives,
             ops[id].phase = "queued", ops'[id].phase = "claimed"
      PROVE  ops[id].grant = grant \/ settling
  <2>1. Moves(id) /\ ops[id] \in Op /\ UnderGrant(id)
    BY <1>1, Steps DEF StepMoves, TableStep, IInv, Typed, TableOK
  <2>2. HandedOut(id)
    BY <1>1, <2>1 DEF Moves, Forgotten, Blank, Over, Resent, Taken, Op
  <2> QED  BY <1>1, <2>1, <2>2 DEF HandedOut, UnderGrant
<1>2. IInv /\ [Next]_vars
        => [\A id \in Ids \ Natives :
              ops[id].phase = "queued" /\ ops'[id].phase = "claimed"
                => ops[id].grant = grant \/ settling]_vars
  BY <1>1
<1> QED  BY <1>2, Invariant, PTL DEF Spec, ClaimsUnderGrant

\* A completed receipt stays as it is, and what was handed out is never queued again,
\* until the receipt is forgotten and its identifier is free.
THEOREM ReceiptsOnlyForward == Spec => ReceiptsFinal
<1>1. ASSUME IInv, [Next]_vars, NEW id \in Ids
      PROVE  \/ Forgets(ops[id], ops'[id])
             \/ /\ ops[id].phase = "complete" => ops'[id] = ops[id]
                /\ ops[id].phase = "claimed" => ops'[id].phase # "queued"
  <2>1. /\ Moves(id) /\ ops[id] \in Op /\ nonces[id] \in 0..MaxNonces
        /\ ops[id].phase # "none" => ops[id].nonce \in 1..nonces[id]
    BY <1>1, Steps DEF StepMoves, TableStep, IInv, Typed, TableOK
  <2>2. CASE Taken(id)
    BY <2>1, <2>2 DEF Taken, Forgets
  <2>3. CASE ~Taken(id)
    BY <2>1, <2>3 DEF Moves, Forgotten, Blank, Over, Open, Resent, HandedOut, Forgets, Op
  <2> QED  BY <2>2, <2>3
<1>2. IInv /\ [Next]_vars
        => [\A id \in Ids :
              Forgets(ops[id], ops'[id]) \/
                /\ ops[id].phase = "complete" => ops'[id] = ops[id]
                /\ ops[id].phase = "claimed" => ops'[id].phase # "queued"]_vars
  BY <1>1
<1> QED  BY <1>2, Invariant, PTL DEF Spec, ReceiptsFinal

-----------------------------------------------------------------------------
\* The abstract ledger

\* Only an acceptance moves the numbers on.
LEMMA NoncesMove ==
  ASSUME IInv, [Next]_vars, NEW id \in Ids
  PROVE  nonces'[id] = nonces[id] \/ Taken(id)
<1>1. ASSUME NEW c \in Callers, NEW table \in [Ids -> Op], Insert(c, table),
             caller[c].at = "read", UNCHANGED lease
      PROVE  nonces'[id] = nonces[id] \/ Taken(id)
  <2>1. caller[c] \in CallerType /\ nonces \in [Ids -> 0..MaxNonces] /\ caller[c].id \in Ids
        /\ (caller[c].id \in Natives \/ caller[c].grant # 0)
    BY <1>1 DEF IInv, Typed, CallersOK, TableOK
  <2>2. /\ nonces' = [nonces EXCEPT ![caller[c].id] = @ + 1]
        /\ ops' = [table EXCEPT ![caller[c].id] = New(c)]
    BY <1>1 DEF Insert, Receipts
  <2>3. CASE id = caller[c].id
    <3>1. ops'[id] = New(c) /\ nonces'[id] = nonces[id] + 1
      BY <1>1, <2>1, <2>2, <2>3
    <3> QED  BY <2>1, <2>3, <3>1 DEF New, Taken
  <2>4. CASE id # caller[c].id
    BY <2>1, <2>2, <2>4
  <2> QED  BY <2>3, <2>4
<1>2. ASSUME NEW c \in Callers, Enqueue(c) PROVE nonces'[id] = nonces[id] \/ Taken(id)
  <2>1. PICK due \in SUBSET Ids, old \in SUBSET Ids :
          \/ UNCHANGED nonces
          \/ \E room \in Evictions(Aged(due, old)) : Insert(c, room) \/ UNCHANGED nonces
    BY <1>2 DEF Enqueue, Refuse
  <2>2. ASSUME NEW room \in Evictions(Aged(due, old)) PROVE room \in [Ids -> Op]
    <3>1. Blank \in Op
      BY AppControlAssumption DEF Blank, Op, Phases, Outcomes
    <3>2. Aged(due, old) \in [Ids -> Op]
      BY <3>1, ExpireMoves DEF Aged
    <3>3. room = Aged(due, old) \/ \E v \in Ids : room = [Aged(due, old) EXCEPT ![v] = Blank]
      BY <2>2 DEF Evictions
    <3> QED  BY <3>1, <3>2, <3>3
  <2>3. caller[c].at = "read" /\ UNCHANGED lease
    BY <1>2 DEF Enqueue
  <2> QED  BY <1>1, <2>1, <2>2, <2>3
<1>3. ASSUME NEW c \in Callers, CallerStep(c) PROVE nonces'[id] = nonces[id] \/ Taken(id)
  BY <1>2, <1>3 DEF CallerStep, Call, Send, DeliveryFailed, Return
<1>4. CASE \E c \in Natives : Revoke(c)
  BY <1>4 DEF Revoke
<1>5. CASE \E i \in Ids : Query(i)
  BY <1>5 DEF Query, Lapse, Redeliver
<1>6. CASE GrantStep
  BY <1>6 DEF GrantStep, Commit, Reconcile, Reserve, Abort, Shutdown, ExitMoves, NoRenderer
<1>7. CASE HostStep
  BY <1>7 DEF HostStep, Register, Confirm, ReadGrant, Claim, Deny, Complete
<1>8. CASE PageStep
  BY <1>8 DEF PageStep, Handle, JobStep, Begin, Flushed, Granted, Executed, Unload, Load, NoRenderer
<1> QED  BY <1>3, <1>4, <1>5, <1>6, <1>7, <1>8 DEF Next, vars

\* What HistoryStep and the types say of one acceptance
Told(id, n) ==
  /\ n > nonces[id] => ran[id][n] = 0 /\ <<id, n>> \notin denied /\ job[id].nonce # n
  /\ MayRun(id, n) => ran[id][n] = 0 /\ <<id, n>> \notin denied
  /\ ops[id].phase = "queued" /\ ops[id].nonce = n
       => n <= nonces[id] /\ ran[id][n] = 0 /\ <<id, n>> \notin denied /\ ~MayRun(id, n)
  /\ <<id, n>> \in denied => ran[id][n] = 0
  /\ ran[id][n] \in Nat

LEMMA WhatIsTold ==
  ASSUME IInv, NEW id \in Ids, NEW n \in Nonces
  PROVE  Told(id, n)
<1>1. /\ ops[id] \in Op /\ nonces[id] \in 0..MaxNonces /\ job[id] \in Job
      /\ ran[id] \in [Nonces -> Nat] /\ n \in Nat
      /\ ops[id].phase # "none" => ops[id].nonce \in 1..nonces[id]
      /\ <<id, n>> \in denied => n <= nonces[id]
      /\ n > nonces[id] => ran[id][n] = 0
      /\ job[id].nonce <= nonces[id]
      /\ HistoryOK(id)
  BY DEF IInv, Typed, TableOK, JobsOK, Nonces
<1>2. n > nonces[id] => ran[id][n] = 0 /\ <<id, n>> \notin denied /\ job[id].nonce # n
  BY <1>1 DEF Job
<1>3. MayRun(id, n) => ran[id][n] = 0 /\ <<id, n>> \notin denied
  BY <1>1 DEF MayRun, HistoryOK, Untouched
<1>4. ops[id].phase = "queued" /\ ops[id].nonce = n
       => n <= nonces[id] /\ ran[id][n] = 0 /\ <<id, n>> \notin denied /\ ~MayRun(id, n)
  BY <1>1 DEF HistoryOK, Untouched, Begun, MayRun, Op
<1> QED  BY <1>1, <1>2, <1>3, <1>4 DEF Told, HistoryOK

\* One acceptance moves as the ledger allows.
LEMMA EntryMoves ==
  ASSUME IInv, [Next]_vars, NEW id \in Ids, NEW n \in Nonces
  PROVE  \/ EntryOf(id, n)' = EntryOf(id, n)
         \/ Ledger!Move(EntryOf(id, n), EntryOf(id, n)')
<1> DEFINE says  == SaysOf(id, n)
           may   == MayRun(id, n)
           says2 == SaysOf(id, n)'
           may2  == MayRun(id, n)'
           e == Ledger!At(says, may, ran[id][n])
           f == Ledger!At(says2, may2, ran'[id][n])
           queued  == ops[id].phase = "queued" /\ ops[id].nonce = n
           queued2 == ops'[id].phase = "queued" /\ ops'[id].nonce = n
<1>1. TableStep /\ JobsStep /\ IInv'
  BY Steps, Inductive DEF StepMoves
<1>2. Told(id, n) /\ Told(id, n)'
  <2>1. IInv' => Told(id, n)'
    BY WhatIsTold, PTL
  <2> QED  BY <1>1, <2>1, WhatIsTold
<1>3. /\ ops[id] \in Op /\ ops'[id] \in Op /\ job[id] \in Job /\ job'[id] \in Job
      /\ nonces[id] \in Nat /\ nonces'[id] \in Nat /\ nonces[id] <= nonces'[id] /\ n \in Nat
      /\ ran[id] \in [Nonces -> Nat] /\ HistoryOK(id) /\ Moves(id) /\ Goes(id)
      /\ <<id, n>> \in denied' <=> <<id, n>> \in denied \/ Denies(id, n)
  BY <1>1 DEF IInv, Typed, TableOK, JobsOK, TableStep, JobsStep, Numbered, Nonces
<1>4. EntryOf(id, n) = e /\ EntryOf(id, n)' = f
  BY DEF EntryOf, Ledger!At
<1>5. /\ says = IF n > nonces[id] THEN "nothing" ELSE IF <<id, n>> \in denied THEN "never"
                ELSE IF queued THEN "open" ELSE "sent"
      /\ says2 = IF n > nonces'[id] THEN "nothing" ELSE IF <<id, n>> \in denied' THEN "never"
                 ELSE IF queued2 THEN "open" ELSE "sent"
  BY DEF SaysOf
<1>6. /\ may  \in BOOLEAN /\ (may  <=> job[id].at = "granted" /\ job[id].nonce = n)
      /\ may2 \in BOOLEAN /\ (may2 <=> job'[id].at = "granted" /\ job'[id].nonce = n)
  BY DEF MayRun
<1>7. /\ n > nonces[id] => ran[id][n] = 0 /\ ~may
      /\ n > nonces'[id] => ran'[id][n] = 0 /\ ~may2
      /\ may => ran[id][n] = 0 /\ <<id, n>> \notin denied
      /\ may2 => ran'[id][n] = 0 /\ <<id, n>> \notin denied'
      /\ queued => ran[id][n] = 0 /\ <<id, n>> \notin denied /\ ~may
      /\ queued2 => n <= nonces'[id] /\ ran'[id][n] = 0 /\ <<id, n>> \notin denied' /\ ~may2
      /\ <<id, n>> \in denied => ran[id][n] = 0 /\ ~may
      /\ <<id, n>> \in denied' => ran'[id][n] = 0 /\ ~may2
  BY <1>2, <1>6 DEF Told, MayRun
<1> HIDE DEF says, may, says2, may2
<1>8. CASE n > nonces'[id]
  <2>1. says = "nothing" /\ says2 = "nothing" /\ may = FALSE /\ may2 = FALSE
        /\ ran[id][n] = 0 /\ ran'[id][n] = 0
    BY <1>3, <1>5, <1>6, <1>7, <1>8
  <2> QED  BY <1>4, <2>1
<1>9. CASE nonces[id] < n /\ n <= nonces'[id]
  <2>1. Taken(id) /\ n = nonces[id] + 1
    BY <1>3, <1>9, NoncesMove DEF Taken
  <2>2. queued2
    BY <1>3, <2>1 DEF Taken
  <2>3. says = "nothing" /\ may = FALSE /\ ran[id][n] = 0
    BY <1>3, <1>5, <1>6, <1>7, <1>9
  <2>4. says2 = "open" /\ may2 = FALSE /\ ran'[id][n] = 0
    BY <1>3, <1>5, <1>6, <1>7, <1>9, <2>2
  <2> QED  BY <1>4, <2>3, <2>4, Ledger!EntryMove, Zenon
<1>10. CASE n <= nonces[id] /\ <<id, n>> \in denied
  <2>1. says = "never" /\ says2 = "never" /\ may = FALSE /\ may2 = FALSE
        /\ ran[id][n] = 0 /\ ran'[id][n] = 0
    BY <1>3, <1>5, <1>6, <1>7, <1>10
  <2> QED  BY <1>4, <2>1
<1>11. CASE n <= nonces[id] /\ <<id, n>> \notin denied /\ queued
  <2>1. says = "open" /\ may = FALSE /\ ran[id][n] = 0
    BY <1>3, <1>5, <1>6, <1>7, <1>11
  <2>2. ran'[id][n] = 0
    BY <1>3, <1>6, <1>11, <2>1 DEF Goes, Starts
  <2>3. CASE queued2
    <3>1. says2 = "open" /\ may2 = FALSE
      BY <1>3, <1>5, <1>6, <1>7, <1>11, <2>3
    <3> QED  BY <1>4, <2>1, <2>2, <3>1
  <2>4. CASE <<id, n>> \in denied'
    <3>1. says2 = "never" /\ may2 = FALSE
      BY <1>3, <1>5, <1>6, <1>7, <1>11, <2>4
    <3> QED  BY <1>4, <2>1, <2>2, <3>1, Ledger!EntryMove, Zenon
  <2>5. CASE <<id, n>> \notin denied' /\ ~queued2
    <3>1. says2 = "sent"
      BY <1>3, <1>5, <1>11, <2>5
    <3>2. CASE may2 = TRUE
      BY <1>4, <2>1, <2>2, <3>1, <3>2, Ledger!EntryMove, Zenon
    <3>3. CASE may2 = FALSE
      BY <1>4, <2>1, <2>2, <3>1, <3>3, Ledger!EntryMove, Zenon
    <3> QED  BY <1>6, <3>2, <3>3
  <2> QED  BY <2>3, <2>4, <2>5
<1>12. CASE n <= nonces[id] /\ <<id, n>> \notin denied /\ ~queued
  <2>1. says = "sent"
    BY <1>3, <1>5, <1>12
  <2>2. <<id, n>> \notin denied'
    <3>1. ASSUME Denies(id, n) PROVE FALSE
      <4>1. ~Forgotten(id) /\ ~Taken(id)
        BY <3>1 DEF Denies, Forgotten, Blank, Taken
      <4>2. ops[id].outcome # "notsent" \/ ops[id].nonce # n
        BY <1>3, <1>12 DEF HistoryOK
      <4>3. ~Resent(id) /\ ~HandedOut(id) /\ ops'[id] # ops[id]
        BY <1>3, <3>1, <4>2 DEF Denies, Resent, HandedOut, HistoryOK, Op
      <4>4. Over(id) /\ ops'[id].outcome = "notsent"
        BY <1>3, <3>1, <4>1, <4>3 DEF Moves, Denies
      <4> QED  BY <1>12, <3>1, <4>4 DEF Over, Denies
    <3> QED  BY <1>3, <1>12, <3>1
  <2>3. ~queued2
    BY <1>3, <1>12 DEF Moves, Forgotten, Blank, Over, Resent, HandedOut, Taken, Op
  <2>4. says2 = "sent"
    BY <1>3, <1>5, <1>12, <2>2, <2>3
  <2>5. CASE Starts(id) /\ job[id].nonce = n
    <3>1. may = TRUE /\ may2 = FALSE /\ ran'[id][n] = ran[id][n] + 1
      BY <1>3, <1>6, <2>5 DEF Starts, Job
    <3> QED  BY <1>4, <2>1, <2>4, <3>1, Ledger!GrantedMove, Zenon
  <2>6. CASE ~(Starts(id) /\ job[id].nonce = n)
    <3>1. ran'[id][n] = ran[id][n]
      BY <1>3, <2>6 DEF Goes, Starts
    <3>2. may2 => may
      BY <1>3, <1>6, <1>12, <2>6 DEF Goes, Starts, Calm, Allowed, HandedOut, Job
    <3>3. CASE may2 = may
      BY <1>4, <2>1, <2>4, <3>1, <3>3
    <3>4. CASE may = TRUE /\ may2 = FALSE
      BY <1>4, <2>1, <2>4, <3>1, <3>4, Ledger!GrantedMove, Zenon
    <3> QED  BY <1>6, <3>2, <3>3, <3>4
  <2> QED  BY <2>5, <2>6
<1> QED  BY <1>3, <1>8, <1>9, <1>10, <1>11, <1>12

LEMMA LedgerOfType == IInv => LedgerOf \in [Ids \X Nonces -> Ledger!Entry]
<1>1. ASSUME IInv, NEW id \in Ids, NEW n \in Nonces PROVE EntryOf(id, n) \in Ledger!Entry
  <2>1. ran[id][n] \in Nat
    BY <1>1 DEF IInv, Typed, JobsOK
  <2>2. SaysOf(id, n) \in Ledger!Says
    BY Zenon DEF SaysOf, Ledger!Says
  <2>3. MayRun(id, n) \in BOOLEAN
    BY DEF MayRun
  <2> QED  BY <2>1, <2>2, <2>3 DEF EntryOf, Ledger!Entry
<1> QED  BY <1>1 DEF LedgerOf

LEMMA LedgerInit == Init => Ledger!Init
<1>1. ASSUME Init, NEW id \in Ids, NEW n \in Nonces
      PROVE  EntryOf(id, n) = Ledger!At("nothing", FALSE, 0)
  <2>1. n > 0 /\ nonces[id] = 0 /\ ran[id][n] = 0 /\ job[id] = NoJob
    BY <1>1 DEF Init, Nonces
  <2>2. SaysOf(id, n) = "nothing" /\ MayRun(id, n) = FALSE
    BY <2>1 DEF SaysOf, MayRun, NoJob
  <2> QED  BY <2>1, <2>2 DEF EntryOf, Ledger!At
<1> QED  BY <1>1 DEF LedgerOf, Ledger!Init

LEMMA LedgerStep == IInv /\ [Next]_vars => [Ledger!Next]_LedgerOf
<1> SUFFICES ASSUME IInv, [Next]_vars PROVE Ledger!Next
  OBVIOUS
<1>1. LedgerOf' \in [Ids \X Nonces -> Ledger!Entry]
  <2>1. IInv' => (LedgerOf \in [Ids \X Nonces -> Ledger!Entry])'
    BY LedgerOfType, PTL
  <2> QED  BY <2>1, Inductive
<1>2. ASSUME NEW c \in Ids \X Nonces
      PROVE  LedgerOf'[c] = LedgerOf[c] \/ Ledger!Move(LedgerOf[c], LedgerOf'[c])
  <2>1. c[1] \in Ids /\ c[2] \in Nonces
    OBVIOUS
  <2>2. LedgerOf[c] = EntryOf(c[1], c[2]) /\ LedgerOf'[c] = EntryOf(c[1], c[2])'
    BY DEF LedgerOf
  <2> QED  BY <2>1, <2>2, EntryMoves
<1> QED  BY <1>1, <1>2 DEF Ledger!Next

\* The receipts of the space implement the abstract ledger: an acceptance that nobody was
\* handed, or of which a receipt said that it was not sent, is never executed, one that
\* was handed out is executed at most once and only by the job that holds the answer.
THEOREM ReceiptsImplementLedger == Spec => ImplementsLedger
BY Invariant, LedgerInit, LedgerStep, PTL DEF Spec, ImplementsLedger, Ledger!Spec

-----------------------------------------------------------------------------
\* The jobs of the page

\* The lane is the requests that wait for their turn, each once and in their order; only
\* the first one has left its place.
LaneOK ==
  /\ \A i, j \in 1..Len(lane) : lane[i] = lane[j] => i = j
  /\ \A i \in 1..Len(lane) : /\ lane[i] \in Pending \ Urgent
                             /\ i # 1 => job[lane[i]].at = "waiting"
  /\ \A id \in Pending \ Urgent : \E i \in 1..Len(lane) : lane[i] = id

\* A claim of this page belongs to the one job that waits for its answer.
Ours(m) == m.page = page
AsksOK ==
  /\ \A m \in claims : m.page <= page
  /\ \A m \in claims : Ours(m) => job[m.id].at = "claim" /\ job[m.id].nonce = m.nonce
  /\ \A m, k \in claims : Ours(m) /\ Ours(k) /\ m.id = k.id => m = k
  /\ \A id \in Ids : job[id].at = "claim" => \E m \in claims : Ours(m) /\ m.id = id

\* So does the report of a job that ended.
Own(m) == m.own /\ m.page = page
EndsOK ==
  /\ \A m \in reports : m.page <= page
  /\ \A m \in reports : Own(m) => job[m.id].at = "over" /\ job[m.id].nonce = m.nonce
  /\ \A m, k \in reports : Own(m) /\ Own(k) /\ m.id = k.id => m = k
  /\ \A id \in Ids : job[id].at = "over" => \E m \in reports : Own(m) /\ m.id = id

PageInv == LaneOK /\ AsksOK /\ EndsOK

\* The steps of a job, in their order
Place == [at \in Stages |-> CASE at = "none" -> 0 [] at = "waiting" -> 1 [] at = "flush" -> 2
                              [] at = "claim" -> 3 [] at = "granted" -> 4 [] at = "exec" -> 5
                              [] at = "over" -> 6 [] at = "recent" -> 7]
Onward(id) == /\ Place[job'[id].at] > Place[job[id].at]
              /\ job[id].at # "none" => job'[id].nonce = job[id].nonce
Dropped(id) == job'[id] = NoJob /\ (job[id].at = "recent" \/ page' # page)

\* A request that the page took up only goes forward, and it is not dropped before its
\* report was answered, except by a reload.
JobsGoForward == [][\A id \in Ids : job'[id] = job[id] \/ Onward(id) \/ Dropped(id)]_vars

\* Of the requests of the lane at most one is past its turn, and nothing waits behind a
\* request whose answer is lost: what was claimed has its claim under way, what ended its
\* report.
Past == {id \in Ids \ Urgent : job[id].at \in Awaiting \ {"waiting"}}
LaneKeepsMoving ==
  /\ \A i, j \in Past : i = j
  /\ \A id \in Pending \ Urgent : lane # <<>> /\ job[Head(lane)].at \in Awaiting
  /\ \A id \in Ids :
       /\ job[id].at = "claim" => \E m \in claims : Awaits(m) /\ m.id = id
       /\ job[id].at = "over" => \E m \in reports : Own(m) /\ m.id = id /\ m.nonce = job[id].nonce

\* What of a request the page may change in a step without the lane
Walks(id, to) ==
  /\ id \in Pending /\ to \in Awaiting \ {"waiting"}
  /\ MayBegin(id) \/ job[id].at # "waiting"
  /\ job' = [job EXCEPT ![id].at = to]
  /\ UNCHANGED <<lane, page>>

LEMMA PageTypes ==
  ASSUME IInv
  PROVE  /\ job \in [Ids -> Job] /\ lane \in Seq(Ids) /\ page \in Pages /\ Pages \subseteq Nat
         /\ \A m \in claims : m \in [page : Pages, id : Ids, nonce : Nonces, read : 0..Unread]
         /\ \A m \in reports : m \in [page : Pages, id : Ids, nonce : Nonces,
                                     res : {"ok", "error", "unstarted"}, own : BOOLEAN]
         /\ \A e \in events : e \in [id : Ids, nonce : Nonces, copy : Nat]
BY DEF IInv, Typed, JobsOK, PageOK, WireOK, Pages

\* What left its place in the lane is the first.
LEMMA FirstIsHead ==
  ASSUME IInv, LaneOK, NEW id \in Pending \ Urgent, job[id].at # "waiting"
  PROVE  lane # <<>> /\ id = Head(lane)
<1>1. PICK i \in 1..Len(lane) : lane[i] = id
  BY DEF LaneOK
<1>2. i = 1 /\ lane \in Seq(Ids)
  BY <1>1, PageTypes DEF LaneOK
<1> QED  BY <1>1, <1>2

LEMMA WalkLane ==
  ASSUME IInv, LaneOK, NEW id \in Ids, NEW to, Walks(id, to)
  PROVE  LaneOK'
<1>1. job \in [Ids -> Job] /\ lane \in Seq(Ids) /\ lane' = lane
      /\ job'[id].at = to /\ \A i \in Ids \ {id} : job'[i] = job[i]
  BY PageTypes DEF Walks, Job
<1>2. Pending' = Pending
  BY <1>1 DEF Pending, Walks
<1>3. id \notin Urgent => lane # <<>> /\ id = Head(lane)
  <2>1. CASE job[id].at # "waiting"
    BY <2>1, FirstIsHead DEF Walks
  <2>2. CASE job[id].at = "waiting"
    <3>1. MayBegin(id) /\ id \in Pending
      BY <2>2 DEF Walks
    <3>2. id \notin Urgent => lane # <<>>
      BY <1>1, <3>1 DEF LaneOK
    <3> QED  BY <3>1, <3>2 DEF MayBegin
  <2> QED  BY <2>1, <2>2
<1>4. ASSUME NEW i \in 1..Len(lane), i # 1 PROVE lane[i] # id
  <2>1. lane[i] \notin Urgent /\ 1 \in 1..Len(lane) /\ Head(lane) = lane[1]
    BY <1>1, <1>4 DEF LaneOK
  <2> QED  BY <1>3, <1>4, <2>1 DEF LaneOK
<1>5. ASSUME NEW i \in 1..Len(lane), i # 1 PROVE job'[lane[i]].at = "waiting"
  <2>1. lane[i] \in Ids \ {id} /\ job[lane[i]].at = "waiting"
    BY <1>1, <1>4, <1>5 DEF LaneOK
  <2> QED  BY <1>1, <2>1
<1> QED  BY <1>1, <1>2, <1>5 DEF LaneOK

LEMMA SameAsks ==
  ASSUME AsksOK, UNCHANGED <<claims, page>>,
         \A i \in Ids : job'[i] = job[i] \/ (job'[i].at # "claim" /\ job[i].at # "claim"), IInv
  PROVE  AsksOK'
BY PageTypes DEF AsksOK, Ours

LEMMA GainsAsk ==
  ASSUME IInv, AsksOK, NEW id \in Ids, Claims(id), job[id].at # "claim", UNCHANGED page
  PROVE  AsksOK'
<1> DEFINE new == [page |-> page, id |-> id, nonce |-> job[id].nonce, read |-> Unread]
<1>1. /\ claims' = claims \cup {new} /\ job \in [Ids -> Job]
      /\ job' = [job EXCEPT ![id].at = "claim"] /\ page \in Nat
  BY PageTypes DEF Claims
<1>0. new.page = page /\ new.id = id /\ new.nonce = job[id].nonce
  OBVIOUS
<1> HIDE DEF new
<1>2. ASSUME NEW m \in claims, Ours(m) PROVE m.id # id /\ m.id \in Ids
  BY <1>2, PageTypes DEF AsksOK
<1>3. \A m \in claims' : m.page <= page'
  BY <1>0, <1>1 DEF AsksOK
<1>4. ASSUME NEW m \in claims', Ours(m)'
      PROVE  job'[m.id].at = "claim" /\ job'[m.id].nonce = m.nonce
  <2>1. CASE m = new
    BY <1>0, <1>1, <2>1 DEF Job
  <2>2. CASE m \in claims
    BY <1>1, <1>2, <1>4, <2>2 DEF AsksOK, Ours
  <2> QED  BY <1>1, <2>1, <2>2
<1>5. ASSUME NEW m \in claims', NEW k \in claims', Ours(m)', Ours(k)', m.id = k.id PROVE m = k
  BY <1>0, <1>1, <1>2, <1>5 DEF AsksOK, Ours
<1>6. ASSUME NEW i \in Ids, job'[i].at = "claim" PROVE \E m \in claims' : Ours(m)' /\ m.id = i
  <2>1. CASE i = id
    BY <1>0, <1>1, <2>1 DEF Ours
  <2>2. CASE i # id
    BY <1>1, <1>6, <2>2 DEF AsksOK, Ours
  <2> QED  BY <2>1, <2>2
<1> QED  BY <1>3, <1>4, <1>5, <1>6 DEF AsksOK

\* The claim of a job that goes on, or one of a page that is gone
LEMMA LosesAsk ==
  ASSUME IInv, AsksOK, NEW m \in claims, NEW to, to # "claim",
         claims' = claims \ {m}, UNCHANGED page,
         IF Ours(m) THEN job' = [job EXCEPT ![m.id].at = to] ELSE UNCHANGED job
  PROVE  AsksOK'
<1>1. job \in [Ids -> Job] /\ m.id \in Ids
  BY PageTypes
<1>2. CASE Ours(m)
  <2>1. job'[m.id].at = to /\ \A i \in Ids \ {m.id} : job'[i] = job[i]
    BY <1>1, <1>2 DEF Job
  <2>2. ASSUME NEW k \in claims', Ours(k)
        PROVE  k.id \in Ids \ {m.id}
    BY <1>2, <2>2, PageTypes DEF AsksOK
  <2>3. ASSUME NEW i \in Ids, job'[i].at = "claim" PROVE \E k \in claims' : Ours(k)' /\ k.id = i
    <3>1. i # m.id /\ job[i].at = "claim"
      BY <2>1, <2>3
    <3> QED  BY <3>1 DEF AsksOK, Ours
  <2> QED  BY <2>1, <2>2, <2>3 DEF AsksOK, Ours
<1>3. CASE ~Ours(m)
  BY <1>3 DEF AsksOK, Ours
<1> QED  BY <1>2, <1>3

LEMMA RereadsAsk ==
  ASSUME IInv, AsksOK, NEW m \in claims, ReadGrant(m)
  PROVE  AsksOK'
<1> DEFINE new == [m EXCEPT !.read = GrantNow]
<1>1. /\ claims' = (claims \ {m}) \cup {new} /\ UNCHANGED <<job, page>>
      /\ new.page = m.page /\ new.id = m.id /\ new.nonce = m.nonce
  BY PageTypes DEF ReadGrant
<1> HIDE DEF new
<1>2. ASSUME NEW k \in claims' PROVE k \in claims \ {m} \/ k = new
  BY <1>1
<1>3. ASSUME NEW k \in claims', NEW l \in claims', Ours(k)', Ours(l)', k.id = l.id PROVE k = l
  BY <1>1, <1>3 DEF AsksOK, Ours
<1>4. ASSUME NEW i \in Ids, job'[i].at = "claim" PROVE \E k \in claims' : Ours(k)' /\ k.id = i
  <2>1. PICK k \in claims : Ours(k) /\ k.id = i
    BY <1>1, <1>4 DEF AsksOK
  <2> QED  BY <1>1, <2>1 DEF Ours
<1>5. \A k \in claims' : k.page <= page'
  BY <1>1, <1>2 DEF AsksOK
<1>6. \A k \in claims' : Ours(k)' => job'[k.id].at = "claim" /\ job'[k.id].nonce = k.nonce
  BY <1>1, <1>2 DEF AsksOK, Ours
<1> QED  BY <1>3, <1>4, <1>5, <1>6 DEF AsksOK

LEMMA SameEnds ==
  ASSUME EndsOK, UNCHANGED <<reports, page>>, IInv,
         \A i \in Ids : job'[i] = job[i] \/ (job'[i].at # "over" /\ job[i].at # "over")
  PROVE  EndsOK'
BY PageTypes DEF EndsOK, Own

LEMMA RejectEnds ==
  ASSUME IInv, EndsOK, NEW e \in events, Reject(e), UNCHANGED page
  PROVE  EndsOK'
<1> DEFINE new == Report(e.id, e.nonce, "unstarted", FALSE)
<1>1. reports' = reports \cup {new} /\ UNCHANGED job /\ page \in Nat
  BY PageTypes DEF Reject
<1>2. new.own = FALSE /\ new.page = page
  BY DEF Report
<1> HIDE DEF new
<1> QED  BY <1>1, <1>2 DEF EndsOK, Own

LEMMA GainsEnd ==
  ASSUME IInv, EndsOK, NEW id \in Ids, NEW res, Ends(id, res), job[id].at # "over",
         UNCHANGED page
  PROVE  EndsOK'
<1> DEFINE new == Report(id, job[id].nonce, res, TRUE)
<1>1. /\ reports' = reports \cup {new} /\ job \in [Ids -> Job]
      /\ job' = [job EXCEPT ![id].at = "over"] /\ page \in Nat
  BY PageTypes DEF Ends
<1>2. new.own = TRUE /\ new.page = page /\ new.id = id /\ new.nonce = job[id].nonce
  BY DEF Report
<1> HIDE DEF new
<1>3. ASSUME NEW m \in reports, Own(m) PROVE m.id # id /\ m.id \in Ids
  BY <1>3, PageTypes DEF EndsOK
<1>4. \A m \in reports' : m.page <= page'
  BY <1>1, <1>2 DEF EndsOK
<1>5. ASSUME NEW m \in reports', Own(m)'
      PROVE  job'[m.id].at = "over" /\ job'[m.id].nonce = m.nonce
  <2>1. CASE m = new
    BY <1>1, <1>2, <2>1 DEF Job
  <2>2. CASE m \in reports
    BY <1>1, <1>3, <1>5, <2>2 DEF EndsOK, Own
  <2> QED  BY <1>1, <2>1, <2>2
<1>6. ASSUME NEW m \in reports', NEW k \in reports', Own(m)', Own(k)', m.id = k.id PROVE m = k
  BY <1>1, <1>2, <1>3, <1>6 DEF EndsOK, Own
<1>7. ASSUME NEW i \in Ids, job'[i].at = "over" PROVE \E m \in reports' : Own(m)' /\ m.id = i
  <2>1. CASE i = id
    BY <1>1, <1>2, <2>1 DEF Own
  <2>2. CASE i # id
    BY <1>1, <1>7, <2>2 DEF EndsOK, Own
  <2> QED  BY <2>1, <2>2
<1> QED  BY <1>4, <1>5, <1>6, <1>7 DEF EndsOK

LEMMA RememberedJobs ==
  ASSUME IInv, NEW id \in Ids, job' \in Remembered(id)
  PROVE  /\ job'[id].at = "recent" /\ job'[id].nonce = job[id].nonce
         /\ \A i \in Ids \ {id} : job'[i] = job[i] \/ (job[i].at = "recent" /\ job'[i] = NoJob)
<1> DEFINE jobs == [job EXCEPT ![id].at = "recent"]
<1>1. /\ jobs \in [Ids -> Job] /\ jobs[id].at = "recent" /\ jobs[id].nonce = job[id].nonce
      /\ \A i \in Ids \ {id} : jobs[i] = job[i]
  BY PageTypes DEF Job, Stages
<1>2. job' = jobs \/ \E i \in Ids \ {id} : jobs[i].at = "recent" /\ job' = [jobs EXCEPT ![i] = NoJob]
  BY DEF Remembered
<1> QED  BY <1>1, <1>2

\* The answer to a report: the job is over, and its place in the lane is free.
LEMMA LosesEnd ==
  ASSUME IInv, EndsOK, NEW m \in reports, reports' = reports \ {m}, UNCHANGED page,
         IF Own(m) THEN job' \in Remembered(m.id) ELSE UNCHANGED job
  PROVE  EndsOK'
<1>1. m.id \in Ids
  BY PageTypes
<1>2. CASE Own(m)
  <2>1. /\ job'[m.id].at = "recent"
        /\ \A i \in Ids \ {m.id} : job'[i] = job[i] \/ (job[i].at # "over" /\ job'[i].at # "over")
    BY <1>1, <1>2, RememberedJobs DEF NoJob
  <2>2. ASSUME NEW k \in reports', Own(k)
        PROVE  k.id \in Ids \ {m.id}
    BY <1>2, <2>2, PageTypes DEF EndsOK
  <2>3. ASSUME NEW i \in Ids, job'[i].at = "over" PROVE \E k \in reports' : Own(k)' /\ k.id = i
    <3>1. i # m.id /\ job[i].at = "over"
      BY <2>1, <2>3
    <3> QED  BY <3>1 DEF EndsOK, Own
  <2>4. \A k \in reports' : Own(k)' => job'[k.id].at = "over" /\ job'[k.id].nonce = k.nonce
    BY <2>1, <2>2 DEF EndsOK, Own
  <2>5. \A k, l \in reports' : Own(k)' /\ Own(l)' /\ k.id = l.id => k = l
    BY DEF EndsOK, Own
  <2>6. \A k \in reports' : k.page <= page'
    BY DEF EndsOK
  <2> QED  BY <2>3, <2>4, <2>5, <2>6 DEF EndsOK
<1>3. CASE ~Own(m)
  BY <1>3 DEF EndsOK, Own
<1> QED  BY <1>2, <1>3

LEMMA LeavesLane ==
  ASSUME IInv, PageInv, NEW m \in reports, Own(m), job' \in Remembered(m.id),
         lane' = IF lane # <<>> /\ m.id = Head(lane) THEN Tail(lane) ELSE lane
  PROVE  LaneOK'
<1> DEFINE id == m.id
<1>0. id \in Ids /\ job[id].at = "over" /\ lane \in Seq(Ids)
  BY PageTypes DEF PageInv, EndsOK
<1>1. /\ job'[id].at = "recent"
      /\ \A i \in Ids \ {id} : job'[i] = job[i] \/ (job[i].at = "recent" /\ job'[i] = NoJob)
  BY <1>0, RememberedJobs
<1>2. Pending' = Pending \ {id} /\ \A i \in Pending \ {id} : job'[i] = job[i]
  BY <1>0, <1>1 DEF Pending, Awaiting, NoJob
<1>3. LaneOK /\ id \in Pending
  BY <1>0 DEF PageInv, Pending, Awaiting
<1>4. CASE id \in Urgent
  <2>1. \A i \in 1..Len(lane) : lane[i] # id
    BY <1>3, <1>4 DEF LaneOK
  <2>2. lane' = lane
    BY <1>0, <2>1
  <2>3. \A i \in 1..Len(lane') : /\ lane'[i] \in Pending' \ Urgent
                                 /\ i # 1 => job'[lane'[i]].at = "waiting"
    BY <1>2, <1>3, <2>1, <2>2 DEF LaneOK
  <2>4. \A i \in Pending' \ Urgent : \E k \in 1..Len(lane') : lane'[k] = i
    BY <1>2, <1>3, <2>2 DEF LaneOK
  <2> QED  BY <1>3, <2>2, <2>3, <2>4 DEF LaneOK
<1>5. CASE id \notin Urgent
  <2>1. lane # <<>> /\ id = Head(lane)
    BY <1>0, <1>3, <1>5, FirstIsHead
  <2>2. /\ lane' = Tail(lane) /\ Len(lane') = Len(lane) - 1 /\ Len(lane) \in Nat
        /\ \A i \in 1..Len(lane') : lane'[i] = lane[i + 1]
        /\ lane[1] = id /\ 1 \in 1..Len(lane)
    BY <1>0, <2>1
  <2>3. \A i, k \in 1..Len(lane') : lane'[i] = lane'[k] => i = k
    <3>1. ASSUME NEW i \in 1..Len(lane'), NEW k \in 1..Len(lane'), lane'[i] = lane'[k] PROVE i = k
      <4>1. i + 1 \in 1..Len(lane) /\ k + 1 \in 1..Len(lane) /\ lane[i + 1] = lane[k + 1]
        BY <2>2, <3>1
      <4>2. i + 1 = k + 1
        BY <1>3, <4>1 DEF LaneOK
      <4> QED  BY <4>2
    <3> QED  BY <3>1
  <2>4. ASSUME NEW i \in 1..Len(lane')
        PROVE  lane'[i] \in Pending' \ Urgent /\ job'[lane'[i]].at = "waiting"
    <3>1. i + 1 \in 1..Len(lane) /\ i + 1 # 1 /\ lane'[i] = lane[i + 1]
      BY <2>2
    <3>2. lane[i + 1] # id /\ lane[i + 1] \in Pending \ Urgent /\ job[lane[i + 1]].at = "waiting"
      BY <1>3, <2>2, <3>1 DEF LaneOK
    <3> QED  BY <1>2, <3>1, <3>2
  <2>5. ASSUME NEW i \in Pending' \ Urgent PROVE \E k \in 1..Len(lane') : lane'[k] = i
    <3>1. i \in Pending \ Urgent /\ i # id
      BY <1>2
    <3>2. PICK k \in 1..Len(lane) : lane[k] = i
      BY <1>3, <3>1 DEF LaneOK
    <3>3. k # 1
      BY <2>2, <3>1, <3>2
    <3>4. k - 1 \in 1..Len(lane') /\ (k - 1) + 1 = k
      BY <2>2, <3>2, <3>3
    <3> QED  BY <2>2, <3>2, <3>4
  <2> QED  BY <2>3, <2>4, <2>5 DEF LaneOK
<1> QED  BY <1>4, <1>5

LEMMA JoinsLane ==
  ASSUME IInv, LaneOK, NEW e \in events, Accept(e)
  PROVE  LaneOK'
<1> DEFINE id == e.id
<1>1. /\ id \in Ids /\ job \in [Ids -> Job] /\ lane \in Seq(Ids)
      /\ job[id].at = "none" /\ job' = [job EXCEPT ![id] = [at |-> "waiting", nonce |-> e.nonce]]
      /\ lane' = IF id \in Urgent THEN lane ELSE Append(lane, id)
  BY PageTypes DEF Accept
<1>2. job'[id].at = "waiting" /\ \A i \in Ids \ {id} : job'[i] = job[i]
  BY <1>1
<1>3. Pending' = Pending \cup {id} /\ id \notin Pending
  BY <1>1, <1>2 DEF Pending, Awaiting
<1>4. \A i \in 1..Len(lane) : lane[i] # id /\ lane[i] \in Ids
  BY <1>1, <1>3 DEF LaneOK
<1>5. CASE id \in Urgent
  <2>1. lane' = lane
    BY <1>1, <1>5
  <2>2. \A i \in Pending' \ Urgent : \E k \in 1..Len(lane') : lane'[k] = i
    BY <1>3, <1>5, <2>1 DEF LaneOK
  <2>3. \A i \in 1..Len(lane') : /\ lane'[i] \in Pending' \ Urgent
                                 /\ i # 1 => job'[lane'[i]].at = "waiting"
    BY <1>2, <1>3, <1>4, <2>1 DEF LaneOK
  <2> QED  BY <2>1, <2>2, <2>3 DEF LaneOK
<1>6. CASE id \notin Urgent
  <2>1. /\ lane' = Append(lane, id) /\ Len(lane') = Len(lane) + 1 /\ Len(lane) \in Nat
        /\ lane'[Len(lane) + 1] = id /\ \A i \in 1..Len(lane) : lane'[i] = lane[i]
    BY <1>1, <1>6
  <2>2. \A i \in 1..Len(lane') : i \in 1..Len(lane) \/ i = Len(lane) + 1
    BY <2>1
  <2>3. \A i, k \in 1..Len(lane') : lane'[i] = lane'[k] => i = k
    BY <1>4, <2>1, <2>2 DEF LaneOK
  <2>4. ASSUME NEW i \in 1..Len(lane')
        PROVE  lane'[i] \in Pending' \ Urgent /\ (i # 1 => job'[lane'[i]].at = "waiting")
    <3>1. CASE i \in 1..Len(lane)
      BY <1>2, <1>3, <1>4, <2>1, <3>1 DEF LaneOK
    <3>2. CASE i = Len(lane) + 1
      BY <1>2, <1>3, <1>6, <2>1, <3>2
    <3> QED  BY <2>2, <3>1, <3>2
  <2>5. ASSUME NEW i \in Pending' \ Urgent PROVE \E k \in 1..Len(lane') : lane'[k] = i
    <3>1. CASE i = id
      BY <2>1, <3>1
    <3>2. CASE i # id
      <4>1. PICK k \in 1..Len(lane) : lane[k] = i
        BY <1>3, <3>2 DEF LaneOK
      <4> QED  BY <2>1, <4>1
    <3> QED  BY <3>1, <3>2
  <2> QED  BY <2>3, <2>4, <2>5 DEF LaneOK
<1> QED  BY <1>5, <1>6

Forward == \A id \in Ids : job'[id] = job[id] \/ Onward(id) \/ Dropped(id)
PageMoves == PageInv' /\ Forward

LEMMA Places ==
  /\ Place["none"] = 0 /\ Place["waiting"] = 1 /\ Place["flush"] = 2 /\ Place["claim"] = 3
  /\ Place["granted"] = 4 /\ Place["exec"] = 5 /\ Place["over"] = 6 /\ Place["recent"] = 7
BY DEF Place, Stages, Awaiting

LEMMA IdlePage ==
  ASSUME IInv, PageInv, UNCHANGED <<job, lane, page, claims, reports>>
  PROVE  PageMoves
<1>1. LaneOK'
  BY DEF PageInv, LaneOK, Pending
<1>2. AsksOK' /\ EndsOK'
  BY SameAsks, SameEnds DEF PageInv
<1> QED  BY <1>1, <1>2 DEF PageMoves, PageInv, Forward

LEMMA WalkForward ==
  ASSUME IInv, NEW id \in Ids, NEW to \in Awaiting, Place[to] > Place[job[id].at],
         job' = [job EXCEPT ![id].at = to]
  PROVE  Forward
<1>1. job \in [Ids -> Job]
  BY PageTypes
<1>2. job'[id].at = to /\ job'[id].nonce = job[id].nonce /\ \A i \in Ids \ {id} : job'[i] = job[i]
  BY <1>1 DEF Job
<1> QED  BY <1>2 DEF Forward, Onward

\* The three things that a job of the page may do at the end of a stage
LEMMA EndsPage ==
  ASSUME IInv, PageInv, NEW id \in Ids, NEW res, Ends(id, res),
         job[id].at \in {"waiting", "flush", "granted", "exec"},
         MayBegin(id) \/ job[id].at # "waiting", UNCHANGED <<lane, page, claims>>
  PROVE  PageMoves
<1>1. job \in [Ids -> Job] /\ job' = [job EXCEPT ![id].at = "over"]
  BY PageTypes DEF Ends
<1>2. Walks(id, "over")
  BY <1>1 DEF Walks, Pending, Awaiting
<1>3. AsksOK'
  <2>1. \A i \in Ids : job'[i] = job[i] \/ (job'[i].at # "claim" /\ job[i].at # "claim")
    BY <1>1 DEF Job
  <2> QED  BY <2>1, SameAsks DEF PageInv
<1>4. Forward
  <2>1. "over" \in Awaiting /\ Place["over"] > Place[job[id].at]
    BY Places DEF Awaiting
  <2> QED  BY <1>1, <2>1, WalkForward
<1> QED  BY <1>2, <1>3, <1>4, WalkLane, GainsEnd DEF PageMoves, PageInv

LEMMA ClaimsPage ==
  ASSUME IInv, PageInv, NEW id \in Ids, Claims(id), job[id].at \in {"waiting", "flush"},
         MayBegin(id) \/ job[id].at # "waiting", UNCHANGED <<lane, page>>
  PROVE  PageMoves
<1>1. job \in [Ids -> Job] /\ job' = [job EXCEPT ![id].at = "claim"] /\ UNCHANGED reports
  BY PageTypes DEF Claims
<1>2. Walks(id, "claim")
  BY <1>1 DEF Walks, Pending, Awaiting
<1>3. EndsOK'
  <2>1. \A i \in Ids : job'[i] = job[i] \/ (job'[i].at # "over" /\ job[i].at # "over")
    BY <1>1 DEF Job
  <2> QED  BY <1>1, <2>1, SameEnds DEF PageInv
<1>4. Forward
  <2>1. "claim" \in Awaiting /\ Place["claim"] > Place[job[id].at]
    BY Places DEF Awaiting
  <2> QED  BY <1>1, <2>1, WalkForward
<1> QED  BY <1>2, <1>3, <1>4, WalkLane, GainsAsk DEF PageMoves, PageInv

LEMMA WalksPage ==
  ASSUME IInv, PageInv, NEW id \in Ids, NEW to \in {"flush", "exec"},
         job[id].at \in {"waiting", "granted"}, Place[to] > Place[job[id].at],
         MayBegin(id) \/ job[id].at # "waiting",
         job' = [job EXCEPT ![id].at = to], UNCHANGED <<lane, page, claims, reports>>
  PROVE  PageMoves
<1>1. job \in [Ids -> Job]
  BY PageTypes
<1>2. Walks(id, to)
  BY <1>1 DEF Walks, Pending, Awaiting
<1>3. AsksOK' /\ EndsOK'
  <2>1. \A i \in Ids : job'[i] = job[i] \/ (/\ job'[i].at # "claim" /\ job[i].at # "claim"
                                           /\ job'[i].at # "over" /\ job[i].at # "over")
    BY <1>1 DEF Job
  <2> QED  BY <2>1, SameAsks, SameEnds DEF PageInv
<1>4. Forward
  BY WalkForward DEF Awaiting
<1> QED  BY <1>2, <1>3, <1>4, WalkLane DEF PageMoves, PageInv

LEMMA JobPage ==
  ASSUME IInv, PageInv, NEW id \in Ids, JobStep(id)
  PROVE  PageMoves
<1>1. CASE Begin(id)
  <2>1. job[id].at = "waiting" /\ MayBegin(id) /\ UNCHANGED <<lane, page>>
    BY <1>1 DEF Begin
  <2>2. CASE job' = [job EXCEPT ![id].at = "flush"] /\ UNCHANGED <<claims, reports>>
    <3>1. Place["flush"] > Place[job[id].at]
      BY <2>1, Places
    <3> QED  BY <2>1, <2>2, <3>1, WalksPage
  <2> QED  BY <1>1, <2>1, <2>2, EndsPage, ClaimsPage DEF Begin, GivesUp
<1>2. CASE Flushed(id)
  BY <1>2, EndsPage, ClaimsPage DEF Flushed, GivesUp
<1>3. CASE Granted(id)
  <2>1. job[id].at = "granted" /\ UNCHANGED <<lane, page>>
    BY <1>3 DEF Granted
  <2>2. CASE Execute(id)
    <3>1. Place["exec"] > Place[job[id].at]
      BY <2>1, Places
    <3> QED  BY <2>1, <2>2, <3>1, WalksPage DEF Execute
  <2> QED  BY <1>3, <2>1, <2>2, EndsPage DEF Granted, GivesUp
<1>4. CASE Executed(id)
  BY <1>4, EndsPage DEF Executed
<1> QED  BY <1>1, <1>2, <1>3, <1>4 DEF JobStep

\* The answer to a claim reaches the one job that waits for it.
LEMMA AnswersPage ==
  ASSUME IInv, PageInv, NEW m \in claims, Claim(m) \/ Deny(m)
  PROVE  PageMoves
<1>1. /\ m.id \in Ids /\ job \in [Ids -> Job] /\ UNCHANGED <<lane, page>>
      /\ claims' = claims \ {m} /\ (Awaits(m) <=> Ours(m))
  BY PageTypes DEF PageInv, AsksOK, Awaits, Ours, Claim, Deny
<1>2. CASE ~Ours(m)
  <2>1. UNCHANGED <<job, reports>>
    BY <1>1, <1>2 DEF Claim, Deny
  <2>2. AsksOK'
    <3>1. IF Ours(m) THEN job' = [job EXCEPT ![m.id].at = "over"] ELSE UNCHANGED job
      BY <1>2, <2>1
    <3> QED  BY <1>1, <3>1, LosesAsk DEF PageInv
  <2>3. LaneOK' /\ EndsOK'
    BY <1>1, <2>1, SameEnds DEF PageInv, LaneOK, Pending
  <2> QED  BY <2>1, <2>2, <2>3 DEF PageMoves, PageInv, Forward
<1>3. CASE Ours(m) /\ Claim(m)
  <2>1. /\ job[m.id].at = "claim" /\ job' = [job EXCEPT ![m.id].at = "granted"]
        /\ UNCHANGED reports
    BY <1>1, <1>3 DEF PageInv, AsksOK, Claim
  <2>2. Walks(m.id, "granted")
    BY <1>1, <2>1 DEF Walks, Pending, Awaiting
  <2>3. \A i \in Ids : job'[i] = job[i] \/ (job'[i].at # "over" /\ job[i].at # "over")
    BY <1>1, <2>1 DEF Job
  <2>4. Forward
    <3>1. "granted" \in Awaiting /\ Place["granted"] > Place[job[m.id].at]
      BY <2>1, Places DEF Awaiting
    <3> QED  BY <1>1, <2>1, <3>1, WalkForward
  <2>5. AsksOK'
    BY <1>1, <1>3, <2>1, LosesAsk DEF PageInv
  <2> QED  BY <1>1, <2>1, <2>2, <2>3, <2>4, <2>5, WalkLane, SameEnds DEF PageMoves, PageInv
<1>4. CASE Ours(m) /\ Deny(m)
  <2>1. /\ job[m.id].at = "claim" /\ job' = [job EXCEPT ![m.id].at = "over"]
        /\ Ends(m.id, "unstarted")
    BY <1>1, <1>4 DEF PageInv, AsksOK, Deny, Ends
  <2>2. Walks(m.id, "over")
    BY <1>1, <2>1 DEF Walks, Pending, Awaiting
  <2>3. Forward
    <3>1. "over" \in Awaiting /\ Place["over"] > Place[job[m.id].at]
      BY <2>1, Places DEF Awaiting
    <3> QED  BY <1>1, <2>1, <3>1, WalkForward
  <2>4. AsksOK'
    BY <1>1, <1>4, <2>1, LosesAsk DEF PageInv
  <2> QED  BY <1>1, <2>1, <2>2, <2>3, <2>4, WalkLane, GainsEnd DEF PageMoves, PageInv
<1> QED  BY <1>2, <1>3, <1>4

LEMMA CompletePage ==
  ASSUME IInv, PageInv, NEW m \in reports, Complete(m)
  PROVE  PageMoves
<1>1. m.id \in Ids /\ reports' = reports \ {m} /\ UNCHANGED <<page, claims>>
  BY PageTypes DEF Complete
<1>2. CASE ~Own(m)
  <2>1. UNCHANGED <<job, lane>>
    BY <1>2 DEF Complete, Own
  <2>2. EndsOK'
    BY <1>1, <1>2, <2>1, LosesEnd DEF PageInv
  <2>3. LaneOK' /\ AsksOK'
    BY <1>1, <2>1, SameAsks DEF PageInv, LaneOK, Pending
  <2> QED  BY <2>1, <2>2, <2>3 DEF PageMoves, PageInv, Forward
<1>3. CASE Own(m)
  <2>1. /\ job' \in Remembered(m.id)
        /\ lane' = IF lane # <<>> /\ m.id = Head(lane) THEN Tail(lane) ELSE lane
    BY <1>3 DEF Complete, Own
  <2>2. /\ job[m.id].at = "over" /\ job'[m.id].at = "recent" /\ job'[m.id].nonce = job[m.id].nonce
        /\ \A i \in Ids \ {m.id} : job'[i] = job[i] \/ (job[i].at = "recent" /\ job'[i] = NoJob)
    BY <1>1, <1>3, <2>1, RememberedJobs DEF PageInv, EndsOK
  <2>3. \A i \in Ids : job'[i] = job[i] \/ (job'[i].at # "claim" /\ job[i].at # "claim")
    BY <2>2 DEF NoJob
  <2>4. AsksOK' /\ EndsOK' /\ LaneOK'
    BY <1>1, <1>3, <2>1, <2>3, SameAsks, LosesEnd, LeavesLane DEF PageInv
  <2>5. Forward
    BY <2>2, Places DEF Forward, Onward, Dropped
  <2> QED  BY <2>4, <2>5 DEF PageMoves, PageInv
<1> QED  BY <1>2, <1>3

LEMMA HandlePage ==
  ASSUME IInv, PageInv, NEW e \in events, Handle(e)
  PROVE  PageMoves
<1>1. UNCHANGED <<page, claims>> /\ e.id \in Ids /\ job \in [Ids -> Job]
  BY PageTypes DEF Handle
<1>2. CASE Ignore(e)
  BY <1>1, <1>2, IdlePage DEF Ignore
<1>3. CASE Reject(e)
  <2>1. UNCHANGED <<job, lane>>
    BY <1>3 DEF Reject
  <2>2. LaneOK' /\ AsksOK'
    BY <1>1, <2>1, SameAsks DEF PageInv, LaneOK, Pending
  <2> QED  BY <1>1, <1>3, <2>1, <2>2, RejectEnds DEF PageMoves, PageInv, Forward
<1>4. CASE Accept(e)
  <2>1. /\ job[e.id].at = "none" /\ job'[e.id].at = "waiting" /\ UNCHANGED reports
        /\ \A i \in Ids \ {e.id} : job'[i] = job[i]
    BY <1>1, <1>4 DEF Accept
  <2>2. AsksOK' /\ EndsOK'
    BY <1>1, <2>1, SameAsks, SameEnds DEF PageInv
  <2>3. Forward
    BY <2>1, Places DEF Forward, Onward
  <2> QED  BY <1>4, <2>2, <2>3, JoinsLane DEF PageMoves, PageInv
<1> QED  BY <1>2, <1>3, <1>4 DEF Handle

LEMMA LoadPage ==
  ASSUME IInv, PageInv, Load
  PROVE  PageMoves
<1>1. /\ job' = [id \in Ids |-> NoJob] /\ lane' = <<>> /\ page' = page + 1
      /\ UNCHANGED <<claims, reports>> /\ page \in Nat
      /\ \A m \in claims : m.page \in Nat /\ m.page <= page
      /\ \A m \in reports : m.page \in Nat /\ m.page <= page
  BY PageTypes DEF Load, PageInv, AsksOK, EndsOK
<1>2. LaneOK'
  BY <1>1 DEF LaneOK, Pending, NoJob, Awaiting
<1>3. AsksOK' /\ EndsOK'
  BY <1>1 DEF AsksOK, EndsOK, Ours, Own, NoJob
<1>4. Forward
  BY <1>1 DEF Forward, Dropped
<1> QED  BY <1>2, <1>3, <1>4 DEF PageMoves, PageInv

LEMMA PageStepMoves ==
  ASSUME IInv, PageInv, [Next]_vars
  PROVE  PageMoves
<1>1. ASSUME NEW c \in Callers, CallerStep(c) PROVE PageMoves
  BY <1>1, IdlePage DEF CallerStep, Call, Enqueue, Send, DeliveryFailed, Return
<1>2. ASSUME NEW c \in Natives, Revoke(c) PROVE PageMoves
  BY <1>2, IdlePage DEF Revoke
<1>3. ASSUME NEW id \in Ids, Query(id) PROVE PageMoves
  BY <1>3, IdlePage DEF Query, Lapse, Redeliver
<1>4. CASE GrantStep
  BY <1>4, IdlePage DEF GrantStep, Commit, Reconcile, Reserve, Abort, Shutdown, ExitMoves
<1>5. CASE HostStep
  <2>1. ASSUME NEW m \in mounts, Register(m) \/ Confirm(m) PROVE PageMoves
    BY <2>1, IdlePage DEF Register, Confirm
  <2>2. ASSUME NEW m \in claims, ReadGrant(m) PROVE PageMoves
    <3>1. AsksOK' /\ UNCHANGED <<job, lane, page, reports>>
      BY <2>2, RereadsAsk DEF ReadGrant, PageInv
    <3>2. LaneOK' /\ EndsOK'
      BY <3>1, SameEnds DEF PageInv, LaneOK, Pending
    <3> QED  BY <3>1, <3>2 DEF PageMoves, PageInv, Forward
  <2> QED  BY <1>5, <2>1, <2>2, AnswersPage, CompletePage DEF HostStep
<1>6. CASE PageStep
  <2>1. CASE Unload
    BY <2>1, IdlePage DEF Unload
  <2> QED  BY <1>6, <2>1, HandlePage, JobPage, LoadPage DEF PageStep
<1>7. CASE UNCHANGED vars
  BY <1>7, IdlePage DEF vars
<1> QED  BY <1>1, <1>2, <1>3, <1>4, <1>5, <1>6, <1>7 DEF Next

LEMMA PageInvariant == Spec => [](IInv /\ PageInv)
<1>1. Init => PageInv
  <2>1. ASSUME Init PROVE LaneOK /\ AsksOK /\ EndsOK
    <3>1. job = [id \in Ids |-> NoJob] /\ lane = <<>> /\ claims = {} /\ reports = {}
      BY <2>1 DEF Init
    <3> QED  BY <3>1 DEF LaneOK, AsksOK, EndsOK, Pending, NoJob, Awaiting
  <2> QED  BY <2>1 DEF PageInv
<1>2. IInv /\ PageInv /\ [Next]_vars => PageInv'
  BY PageStepMoves DEF PageMoves
<1> QED  BY <1>1, <1>2, Invariant, PTL DEF Spec

\* A request that the page took up only goes forward, through its place in the lane, the
\* saving of edits, the claim, the execution and the report: it is not taken up again, and
\* it is dropped only after its report was answered or by a reload.
THEOREM JobsOnlyGoForward == Spec => JobsGoForward
<1>1. IInv /\ PageInv /\ [Next]_vars => Forward
  BY PageStepMoves DEF PageMoves
<1>2. Forward => [\A id \in Ids : job'[id] = job[id] \/ Onward(id) \/ Dropped(id)]_vars
  BY DEF Forward
<1> QED  BY <1>1, <1>2, PageInvariant, PTL DEF Spec, JobsGoForward

\* The lane works on one request at a time, the first, and nobody waits for an answer
\* that cannot come: the claim or the report is under way, whatever was reloaded, lost or
\* refused before.
THEOREM LaneAlwaysMoves == Spec => []LaneKeepsMoving
<1>1. ASSUME IInv, PageInv PROVE LaneKeepsMoving
  <2>1. ASSUME NEW i \in Past PROVE i \in Pending \ Urgent /\ i = Head(lane)
    BY <1>1, FirstIsHead DEF Past, Pending, PageInv
  <2>2. ASSUME NEW id \in Pending \ Urgent PROVE lane # <<>> /\ job[Head(lane)].at \in Awaiting
    <3>1. lane \in Seq(Ids) /\ 1..Len(lane) # {}
      BY <1>1, PageTypes DEF PageInv, LaneOK
    <3>2. lane # <<>> /\ 1 \in 1..Len(lane) /\ Head(lane) = lane[1]
      BY <3>1
    <3> QED  BY <1>1, <3>2 DEF PageInv, LaneOK, Pending
  <2>3. ASSUME NEW id \in Ids
        PROVE  /\ job[id].at = "claim" => \E m \in claims : Awaits(m) /\ m.id = id
               /\ job[id].at = "over" => \E m \in reports : Own(m) /\ m.id = id /\ m.nonce = job[id].nonce
    BY <1>1 DEF PageInv, AsksOK, EndsOK, Awaits, Ours
  <2> QED  BY <2>1, <2>2, <2>3 DEF LaneKeepsMoving
<1> QED  BY <1>1, PageInvariant, PTL
=============================================================================
