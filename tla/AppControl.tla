----------------------------- MODULE AppControl -----------------------------
(***************************************************************************)
(* Operations that the command line and the hooks ask of the desktop's     *)
(* space.  The host keeps a receipt for each of them, notifies the         *)
(* renderer and hands an operation out once, when the renderer claims it   *)
(* after it saved its edits; the renderer executes what it claimed and     *)
(* reports.  Callers see the receipt: queued, running, completed, or       *)
(* failed with what is known of the effect.                                *)
(*                                                                         *)
(* Notifications may be lost and repeated, the page may be reloaded at any *)
(* time, callers may repeat a request, the plugin's grant may change, and  *)
(* receipts expire and are forgotten.  Time is not modelled: what has a    *)
(* limit may be over it whenever the host looks.                           *)
(***************************************************************************)
EXTENDS Naturals, Sequences, FiniteSets

CONSTANTS Ids,             \* request identifiers
          Natives,         \* those of execute_native, each used by one call
          Urgent,          \* requests that stop or cancel something
          Clients,         \* threads of the control server
          MaxPending, MaxUrgent, MaxReceipts, MaxDeliveries,
          MaxRecent,       \* identifiers the renderer remembers
          MaxNonces,       \* acceptances of a request identifier
          MaxGrants,       \* changes of the command line plugin
          MaxPages,        \* loads of the space's page
          None

ASSUME AppControlAssumption ==
  /\ IsFiniteSet(Ids) /\ Natives \subseteq Ids /\ Urgent \subseteq Ids
  /\ Clients \cap Ids = {} /\ None \notin Ids
  /\ MaxPending \in Nat /\ MaxUrgent \in Nat /\ MaxReceipts \in Nat
  /\ MaxDeliveries \in Nat /\ MaxRecent \in Nat \ {0} /\ MaxNonces \in Nat
  /\ MaxGrants \in Nat \ {0} /\ MaxPages \in Nat \ {0}

\* The plugin store and the exit gate
VARIABLES grant,           \* revision of the enabled plugin, or 0
          last,            \* last revision given out
          settling,        \* a change is committed, its holder goes on to reconcile
          exit

\* Inner, behind its mutex
VARIABLES ops, lease, ready, nonces

\* Callers, and the authority of the native ones
VARIABLES caller, revoked

\* The page in the space's window
VARIABLES page, loading, job, lane

\* Under way between host and page
VARIABLES events, mounts, claims, reports

\* History, read by no guard
VARIABLES ran,             \* how often an accepted request began to execute
          denied           \* those of which a receipt said that they were not sent

grantVars == <<grant, last, settling, exit>>
innerVars == <<ops, lease, ready, nonces, denied>>
callVars  == <<caller, revoked>>
pageVars  == <<page, loading, job, lane, ran>>
wireVars  == <<events, mounts, claims, reports>>
vars == <<grantVars, innerVars, callVars, pageVars, wireVars>>

Callers == Clients \cup Natives
Pages   == 1..MaxPages
Nonces  == 1..MaxNonces
Unread  == MaxGrants + 1

Phases   == {"none", "queued", "claimed", "complete"}
Outcomes == {"none", "ok", "notsent", "unknown"}
Awaiting == {"waiting", "flush", "claim", "granted", "exec", "over"}   \* in pending
Stages   == Awaiting \cup {"none", "recent"}
Blank == [phase |-> "none", nonce |-> 0, lease |-> 0, grant |-> 0, outcome |-> "none",
          sent |-> 0]
Idle  == [at |-> "idle", id |-> None, grant |-> 0, nonce |-> 0, page |-> 0]
NoJob == [at |-> "none", nonce |-> 0]

----------------------------------------------------------------------------
\* Receipts

Open(id) == ops[id].phase \in {"queued", "claimed"}

Ended(op, outcome) == [op EXCEPT !.phase = "complete", !.outcome = outcome]

Lapsed_AsNotSent(op) == Ended(op, "notsent")

\* Given up: what was not claimed has not happened, what was may have.
Lapsed(op) == Ended(op, IF op.phase = "queued" THEN "notsent" ELSE "unknown")

\* expire, for those whose time is over
Expire(due) == [id \in Ids |-> IF id \in due /\ Open(id) THEN Lapsed(ops[id]) ELSE ops[id]]

\* renderer_invalidated
Invalidated == Expire(Ids)

\* The table after a step.  What it reports as not sent is kept as history.
Receipts(table) ==
  /\ ops' = table
  /\ denied' = denied \cup {<<id, table[id].nonce>> :
                             id \in {i \in Ids : table[i].outcome = "notsent"}}

\* The grant as current_revision reads it, which needs the plugins mutex
GrantNow == IF exit = "open" THEN grant ELSE 0

Recorded(table) == {id \in Ids : table[id].phase # "none"}
Unfinished(table) == {id \in Ids : table[id].phase \in {"queued", "claimed"}}
Capacity(id) == MaxPending + IF id \in Urgent THEN MaxUrgent ELSE 0

----------------------------------------------------------------------------
\* Callers

\* What a caller does after its request was accepted: the answer to a client is
\* sent, a native call waits for the outcome.
Accepted(c) == IF c \in Natives THEN [caller[c] EXCEPT !.at = "wait"] ELSE Idle
Answered(c) == IF c \in Natives THEN [Idle EXCEPT !.at = "done"] ELSE Idle

\* dispatch, and the first check of execute_native
Call(c, id) ==
  /\ caller[c].at = "idle"
  /\ IF c \in Natives THEN id = c /\ c \notin revoked
                      ELSE id \notin Natives /\ ~settling /\ GrantNow # 0
  /\ nonces[id] < MaxNonces
  /\ caller' = [caller EXCEPT ![c] = [Idle EXCEPT
                  !.at = "read", !.id = id, !.grant = IF c \in Natives THEN 0 ELSE grant]]
  /\ UNCHANGED <<grantVars, innerVars, revoked, pageVars, wireVars>>

\* The receipts that an acceptance starts from: those over their time are ended, the
\* completed ones older than TTL are forgotten.
Aged(due, old) ==
  [id \in Ids |-> IF id \in old /\ Expire(due)[id].phase = "complete"
                    THEN Blank ELSE Expire(due)[id]]

Full(table, id) ==
  Cardinality(Unfinished(table)) >= Capacity(id) \/ nonces[id] = MaxNonces

\* One completed receipt makes room for another; {} if none can.
Evictions(table) ==
  IF Cardinality(Recorded(table)) < MaxReceipts THEN {table}
  ELSE {[table EXCEPT ![v] = Blank] : v \in {i \in Ids : table[i].phase = "complete"}}

New(c) == [phase |-> "queued", nonce |-> nonces[caller[c].id] + 1, lease |-> lease,
           grant |-> caller[c].grant, outcome |-> "none", sent |-> 1]

\* enqueue_authorized, under the mutex: a known identifier is answered from its
\* receipt; a new one needs room and a renderer that is ready.
Refuse(c, table) ==
  /\ Receipts(table)
  /\ caller' = [caller EXCEPT ![c] = Answered(c)]
  /\ UNCHANGED nonces

Insert(c, table) ==
  LET id == caller[c].id IN
  /\ ready
  /\ nonces' = [nonces EXCEPT ![id] = @ + 1]
  /\ Receipts([table EXCEPT ![id] = New(c)])
  /\ caller' = [caller EXCEPT ![c].at = "send", ![c].nonce = nonces[id] + 1, ![c].page = lease]

Enqueue(c) ==
  /\ caller[c].at = "read"
  /\ \E due, old \in SUBSET Ids :
       LET table == Aged(due, old)
           id == caller[c].id
       IN \/ /\ table[id].phase # "none" \/ Full(table, id) \/ Evictions(table) = {}
             /\ Refuse(c, table)
          \/ /\ table[id].phase = "none" /\ ~Full(table, id)
             /\ \E room \in Evictions(table) : Insert(c, room) \/ (~ready /\ Refuse(c, room))
  /\ UNCHANGED <<grantVars, lease, ready, revoked, pageVars, wireVars>>

\* The notification, sent after the mutex was left, to the page that had registered
Notice(id, nonce, copy) == [id |-> id, nonce |-> nonce, copy |-> copy]

Delivered(c) == IF caller[c].page = page
                THEN events \cup {Notice(caller[c].id, caller[c].nonce, 1)} ELSE events

Send(c) ==
  /\ caller[c].at = "send"
  /\ \/ /\ events' = Delivered(c)
        /\ caller' = [caller EXCEPT ![c] = Accepted(c)]
     \/ /\ events' \in {events, Delivered(c)}
        /\ caller' = [caller EXCEPT ![c].at = "relock"]
  /\ UNCHANGED <<grantVars, innerVars, revoked, pageVars, mounts, claims, reports>>

\* An operation that was claimed meanwhile keeps its receipt.
DeliveryFailed(c) ==
  LET op == ops[caller[c].id] IN
  /\ caller[c].at = "relock"
  /\ IF op.phase = "queued"
     THEN /\ Receipts([ops EXCEPT ![caller[c].id] = Ended(op, "notsent")])
          /\ caller' = [caller EXCEPT ![c] = Answered(c)]
     ELSE /\ caller' = [caller EXCEPT ![c] = Accepted(c)]
          /\ UNCHANGED <<ops, denied>>
  /\ UNCHANGED <<grantVars, lease, ready, nonces, revoked, pageVars, wireVars>>

\* operation.get and the polling of execute_native: end what is over its time, or
\* notify again, with the same nonce.
Lapse(id) ==
  /\ Open(id)
  /\ Receipts(Expire({id}))
  /\ UNCHANGED <<grantVars, lease, ready, nonces, callVars, pageVars, wireVars>>

Redeliver(id) ==
  LET op == ops[id] IN
  /\ op.phase = "queued" /\ ready /\ op.lease = lease /\ op.sent < MaxDeliveries
  /\ Receipts([ops EXCEPT ![id].sent = @ + 1])
  /\ events' \in {events, IF lease = page THEN events \cup {Notice(id, op.nonce, op.sent + 1)}
                          ELSE events}
  /\ UNCHANGED <<grantVars, lease, ready, nonces, callVars, pageVars, mounts, claims, reports>>

\* execute_native returns with the receipt, without one if it was forgotten, or gives
\* up: its authority was revoked or its deadline passed.
Return(c) ==
  /\ caller[c].at = "wait"
  /\ Receipts(Expire({c}))
  /\ caller' = [caller EXCEPT ![c] = Answered(c)]
  /\ UNCHANGED <<grantVars, lease, ready, nonces, revoked, pageVars, wireVars>>

Revoke(c) ==
  /\ revoked' = revoked \cup {c}
  /\ UNCHANGED <<grantVars, innerVars, caller, pageVars, wireVars>>

----------------------------------------------------------------------------
\* The plugin's grant and the exit

\* A mutation of the plugin store holds its mutex from the commit to the end of
\* reconcile.
Commit ==
  /\ ~settling /\ exit = "open" /\ last < MaxGrants
  /\ last' = last + 1
  /\ grant' \in {0, last + 1} \ {grant}
  /\ settling' = TRUE
  /\ UNCHANGED <<exit, innerVars, callVars, pageVars, wireVars>>

Reconcile ==
  /\ settling
  /\ settling' = FALSE
  /\ Receipts([id \in Ids |-> IF id \notin Natives /\ ops[id].phase = "queued"
                                THEN Ended(ops[id], "notsent") ELSE ops[id]])
  /\ UNCHANGED <<grant, last, exit, lease, ready, nonces, callVars, pageVars, wireVars>>

ExitMoves(from, to) ==
  /\ exit = from /\ exit' = to
  /\ UNCHANGED <<grant, last, settling, callVars, pageVars, wireVars>>

Reserve == ExitMoves("open", "reserved") /\ UNCHANGED innerVars
Abort   == ExitMoves("reserved", "open") /\ UNCHANGED innerVars

NoRenderer == lease' = 0 /\ ready' = FALSE /\ Receipts(Invalidated) /\ UNCHANGED nonces

Shutdown == ExitMoves("reserved", "down") /\ NoRenderer

----------------------------------------------------------------------------
\* The commands of the renderer, as the host handles them

Register(m) ==
  /\ m \in mounts /\ m.kind = "register"
  /\ lease' = m.page /\ ready' = FALSE /\ Receipts(Invalidated)
  /\ mounts' = (mounts \ {m}) \cup
                 IF m.page = page THEN {[kind |-> "confirm", page |-> page]} ELSE {}
  /\ UNCHANGED <<grantVars, nonces, callVars, pageVars, events, claims, reports>>

Confirm(m) ==
  /\ m \in mounts /\ m.kind = "confirm"
  /\ ready' = (ready \/ lease = m.page)
  /\ mounts' = mounts \ {m}
  /\ UNCHANGED <<grantVars, ops, lease, nonces, denied, callVars, pageVars, events, claims,
                 reports>>

\* claim_control_request reads the grant before it takes the mutex.
ReadGrant(m) ==
  /\ m \in claims /\ m.read = Unread /\ ~settling
  /\ claims' = (claims \ {m}) \cup {[m EXCEPT !.read = GrantNow]}
  /\ UNCHANGED <<grantVars, innerVars, callVars, pageVars, events, mounts, reports>>

Authorized_OnceAccepted(m) == m.id \in Natives => m.id \notin revoked
Authorized(m) == IF m.id \in Natives THEN m.id \notin revoked
                                     ELSE m.read = ops[m.id].grant

MayClaim_AnyPhase(m) ==
  LET op == ops[m.id] IN
  /\ lease = m.page /\ op.nonce = m.nonce /\ op.lease = m.page
  /\ Authorized(m)

MayClaim(m) ==
  LET op == ops[m.id] IN
  /\ lease = m.page
  /\ op.phase = "queued" /\ op.nonce = m.nonce /\ op.lease = m.page
  /\ Authorized(m)

\* The job that waits for the answer to this command, if its page is still there
Awaits(m) == page = m.page /\ job[m.id].nonce = m.nonce

\* A job that ends sends its completion and waits for the answer.
Report(id, nonce, res, own) ==
  [page |-> page, id |-> id, nonce |-> nonce, res |-> res, own |-> own]
Ends(id, res) ==
  /\ job' = [job EXCEPT ![id].at = "over"]
  /\ reports' = reports \cup {Report(id, job[id].nonce, res, TRUE)}

Claim(m) ==
  /\ m \in claims /\ m.read # Unread
  /\ MayClaim(m)
  /\ Receipts([ops EXCEPT ![m.id].phase = "claimed"])
  /\ job' = IF Awaits(m) THEN [job EXCEPT ![m.id].at = "granted"] ELSE job
  /\ claims' = claims \ {m}
  /\ UNCHANGED <<grantVars, lease, ready, nonces, callVars, page, loading, lane, ran,
                 events, mounts, reports>>

\* Also when the request is over its thirty seconds, whatever else holds
Deny(m) ==
  /\ m \in claims /\ m.read # Unread
  /\ IF Awaits(m) THEN Ends(m.id, "unstarted") ELSE UNCHANGED <<job, reports>>
  /\ claims' = claims \ {m}
  /\ UNCHANGED <<grantVars, innerVars, callVars, page, loading, lane, ran, events, mounts>>

\* complete_control_request: what the renderer says, as far as the receipt allows it
Completed(op, res) ==
  CASE res = "ok" -> Ended(op, "ok")
    [] res = "unstarted" /\ op.phase = "queued" -> Ended(op, "notsent")
    [] OTHER -> Ended(op, "unknown")

MayComplete_AnyPhase(m, op) == lease = m.page /\ op.lease = m.page /\ op.nonce = m.nonce
MayComplete(m, op) ==
  /\ lease = m.page /\ op.lease = m.page /\ op.nonce = m.nonce
  /\ op.phase \in IF m.res = "ok" THEN {"claimed"} ELSE {"queued", "claimed"}

\* The renderer remembers the identifier, and forgets another when there are too many.
Remembered(id) ==
  LET jobs == [job EXCEPT ![id].at = "recent"]
      recent == {i \in Ids : jobs[i].at = "recent"}
  IN IF Cardinality(recent) <= MaxRecent THEN {jobs}
     ELSE {[jobs EXCEPT ![i] = NoJob] : i \in recent \ {id}}

Complete(m) ==
  /\ m \in reports
  /\ reports' = reports \ {m}
  /\ \E due \in SUBSET {m.id} :
       LET table == Expire(due)
           op == table[m.id]
       IN Receipts(CASE lease # m.page -> ops
                     [] lease = m.page /\ MayComplete(m, op) ->
                          [table EXCEPT ![m.id] = Completed(op, m.res)]
                     [] OTHER -> table)
  /\ IF m.own /\ page = m.page
     THEN /\ job' \in Remembered(m.id)
          /\ lane' = IF lane # <<>> /\ m.id = Head(lane) THEN Tail(lane) ELSE lane
     ELSE UNCHANGED <<job, lane>>
  /\ UNCHANGED <<grantVars, lease, ready, nonces, callVars, page, loading, ran, events, mounts,
                 claims>>

----------------------------------------------------------------------------
\* The page: createAppControl

Pending == {i \in Ids : job[i].at \in Awaiting}
Room(id) == /\ id \in Urgent \/ Cardinality(Pending \ Urgent) < MaxPending
            /\ Cardinality(Pending) < MaxPending + MaxUrgent

OnlyPage == UNCHANGED <<grantVars, innerVars, callVars, page, loading, mounts>>

\* handle: another copy of what it knows is ignored, another request under a known
\* identifier is rejected, as is a malformed one and one too many.
Ignore(e) == job[e.id].nonce = e.nonce /\ UNCHANGED <<job, lane, reports>>
Reject(e) == /\ job[e.id].nonce # e.nonce
             /\ reports' = reports \cup {Report(e.id, e.nonce, "unstarted", FALSE)}
             /\ UNCHANGED <<job, lane>>
Accept(e) == /\ job[e.id].at = "none" /\ Room(e.id)
             /\ job' = [job EXCEPT ![e.id] = [at |-> "waiting", nonce |-> e.nonce]]
             /\ lane' = IF e.id \in Urgent THEN lane ELSE Append(lane, e.id)
             /\ UNCHANGED reports
Handle(e) ==
  /\ e \in events
  /\ events' = events \ {e}
  /\ Ignore(e) \/ Reject(e) \/ Accept(e)
  /\ UNCHANGED <<claims, ran>> /\ OnlyPage

MayBegin_InTurn(id) == lane # <<>> => id = Head(lane)
MayBegin(id) == id \notin Urgent => id = Head(lane)

Claims(id) ==
  /\ job' = [job EXCEPT ![id].at = "claim"]
  /\ claims' = claims \cup {[page |-> page, id |-> id, nonce |-> job[id].nonce,
                             read |-> Unread]}
  /\ UNCHANGED reports

\* check finds the target changed, the deadline passed or the space not ready.
GivesUp(id) == Ends(id, "unstarted") /\ UNCHANGED claims

\* run, from one await to the next
Begin(id) ==
  /\ job[id].at = "waiting" /\ MayBegin(id)
  /\ \/ GivesUp(id)
     \/ Claims(id)
     \/ /\ id \notin Urgent
        /\ job' = [job EXCEPT ![id].at = "flush"]
        /\ UNCHANGED <<claims, reports>>
  /\ UNCHANGED <<lane, ran, events>> /\ OnlyPage

Flushed(id) ==
  /\ job[id].at = "flush"
  /\ Claims(id) \/ GivesUp(id)
  /\ UNCHANGED <<lane, ran, events>> /\ OnlyPage

Execute(id) ==
  /\ job' = [job EXCEPT ![id].at = "exec"]
  /\ ran' = [ran EXCEPT ![id][job[id].nonce] = @ + 1]
  /\ UNCHANGED <<claims, reports>>

Granted(id) ==
  /\ job[id].at = "granted"
  /\ Execute(id) \/ (GivesUp(id) /\ UNCHANGED ran)
  /\ UNCHANGED <<lane, events>> /\ OnlyPage

Executed(id) ==
  /\ job[id].at = "exec"
  /\ \E res \in {"ok", "error"} : Ends(id, res)
  /\ UNCHANGED <<lane, ran, events, claims>> /\ OnlyPage

\* The old page goes on until the new one replaces it.
Unload ==
  /\ ~loading /\ page < MaxPages /\ exit # "down"
  /\ loading' = TRUE /\ NoRenderer
  /\ UNCHANGED <<grantVars, callVars, page, job, lane, ran, wireVars>>

Load ==
  /\ loading
  /\ loading' = FALSE /\ page' = page + 1
  /\ job' = [id \in Ids |-> NoJob] /\ lane' = <<>> /\ events' = {}
  /\ mounts' = mounts \cup {[kind |-> "register", page |-> page + 1]}
  /\ UNCHANGED <<grantVars, innerVars, callVars, ran, claims, reports>>

----------------------------------------------------------------------------
Init ==
  /\ grant = 1 /\ last = 1 /\ settling = FALSE /\ exit = "open"
  /\ ops = [id \in Ids |-> Blank] /\ lease = 0 /\ ready = FALSE
  /\ nonces = [id \in Ids |-> 0]
  /\ caller = [c \in Callers |-> Idle] /\ revoked = {}
  /\ page = 1 /\ loading = FALSE /\ job = [id \in Ids |-> NoJob] /\ lane = <<>>
  /\ events = {} /\ mounts = {[kind |-> "register", page |-> 1]}
  /\ claims = {} /\ reports = {}
  /\ ran = [id \in Ids |-> [n \in Nonces |-> 0]] /\ denied = {}

CallerStep(c) == \/ \E id \in Ids : Call(c, id)
                 \/ Enqueue(c) \/ Send(c) \/ DeliveryFailed(c) \/ Return(c)
Query(id)     == Lapse(id) \/ Redeliver(id)
GrantStep     == Commit \/ Reconcile \/ Reserve \/ Abort \/ Shutdown
HostStep      == \/ \E m \in mounts : Register(m) \/ Confirm(m)
                 \/ \E m \in claims : ReadGrant(m) \/ Claim(m) \/ Deny(m)
                 \/ \E m \in reports : Complete(m)
JobStep(id)   == Begin(id) \/ Flushed(id) \/ Granted(id) \/ Executed(id)
PageStep      == \/ \E e \in events : Handle(e)
                 \/ \E id \in Ids : JobStep(id)
                 \/ Unload \/ Load

Next == \/ \E c \in Callers : CallerStep(c)
        \/ \E c \in Natives : Revoke(c)
        \/ \E id \in Ids : Query(id)
        \/ GrantStep \/ HostStep \/ PageStep

Spec == Init /\ [][Next]_vars

\* Time passes and receipts are looked at; the plugin's change comes to its end; claims
\* are answered, and the page takes up a request that waits for nothing.  Nothing is
\* assumed of what it executes or saves, nor of the loading of a page.
Fairness ==
  /\ \A id \in Ids : WF_vars(Lapse(id))
  /\ WF_vars(Reconcile)
  /\ \A id \in Urgent : WF_vars(Begin(id))
  /\ WF_vars(\E m \in claims : ReadGrant(m) \/ Claim(m) \/ Deny(m))
FairSpec == Spec /\ Fairness

----------------------------------------------------------------------------
TypeOK ==
  /\ grant \in 0..MaxGrants /\ last \in 1..MaxGrants /\ settling \in BOOLEAN
  /\ exit \in {"open", "reserved", "down"}
  /\ ops \in [Ids -> [phase : Phases, nonce : 0..MaxNonces, lease : 0..MaxPages,
                      grant : 0..MaxGrants, outcome : Outcomes, sent : Nat]]
  /\ lease \in 0..MaxPages /\ ready \in BOOLEAN /\ nonces \in [Ids -> 0..MaxNonces]
  /\ caller \in [Callers -> [at : {"idle", "read", "send", "relock", "wait", "done"},
                             id : Ids \cup {None}, grant : 0..MaxGrants,
                             nonce : 0..MaxNonces, page : 0..MaxPages]]
  /\ revoked \subseteq Natives
  /\ page \in Pages /\ loading \in BOOLEAN
  /\ job \in [Ids -> [at : Stages, nonce : 0..MaxNonces]] /\ lane \in Seq(Ids)
  /\ events \subseteq [id : Ids, nonce : Nonces, copy : Nat]
  /\ mounts \subseteq [kind : {"register", "confirm"}, page : Pages]
  /\ claims \subseteq [page : Pages, id : Ids, nonce : Nonces, read : 0..Unread]
  /\ reports \subseteq [page : Pages, id : Ids, nonce : Nonces,
                        res : {"ok", "error", "unstarted"}, own : BOOLEAN]
  /\ ran \in [Ids -> [Nonces -> Nat]] /\ denied \subseteq Ids \X Nonces

\* A receipt says what happened: an accepted request executes at most once, whatever
\* was lost, repeated or reloaded; one that a receipt ever reported as not sent never
\* does, not even after the receipt was forgotten; one reported as done did.
OutcomeTrue ==
  \A id \in Ids :
    /\ \A n \in Nonces : ran[id][n] <= IF <<id, n>> \in denied THEN 0 ELSE 1
    /\ ops[id].outcome = "ok" => ran[id][ops[id].nonce] = 1

\* Once a change of the command line plugin was reconciled, nothing that was accepted
\* under the old grant is handed out, although both the acceptance and the claim read
\* the grant before they take the mutex.
ClaimsUnderGrant ==
  [][\A id \in Ids \ Natives :
       ops[id].phase = "queued" /\ ops'[id].phase = "claimed"
         => ops[id].grant = grant \/ settling]_vars

\* A receipt only goes forward, until it is forgotten: a completed one does not change
\* any more, by a late report, a failed notification, a reload, a revocation or a
\* deadline, and what was handed out is not queued again.
Forgets(op, new) == new.phase = "none" \/ new.nonce # op.nonce
ReceiptsFinal ==
  [][\A id \in Ids :
       Forgets(ops[id], ops'[id]) \/
         /\ ops[id].phase = "complete" => ops'[id] = ops[id]
         /\ ops[id].phase = "claimed" => ops'[id].phase # "queued"]_vars

\* The receipts implement the abstract ledger of requests.  Each acceptance of an
\* identifier is a request of its own; what a receipt said of it stays said when the
\* receipt is forgotten or its identifier is used again, and the page may still make it
\* while its job holds the answer to a claim.
SaysOf(id, n) ==
  IF n > nonces[id] THEN "nothing"
  ELSE IF <<id, n>> \in denied THEN "never"
  ELSE IF ops[id].phase = "queued" /\ ops[id].nonce = n THEN "open"
  ELSE "sent"

MayRun(id, n) == job[id].at = "granted" /\ job[id].nonce = n

EntryOf(id, n) == [says |-> SaysOf(id, n), may |-> MayRun(id, n), done |-> ran[id][n]]
LedgerOf == [c \in Ids \X Nonces |-> EntryOf(c[1], c[2])]

Ledger == INSTANCE CallLedger WITH Requests <- Ids \X Nonces, ledger <- LedgerOf
ImplementsLedger == Ledger!Spec

\* Every accepted request is settled, although the page hangs, and a request to stop
\* does not wait behind a hung operation.
Settled ==
  /\ \A id \in Ids : Open(id) ~> ~Open(id)
  /\ \A id \in Urgent : job[id].at \in {"waiting", "claim"} ~> job[id].at \notin {"waiting", "claim"}
=============================================================================
