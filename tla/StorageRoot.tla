------------------------------ MODULE StorageRoot ------------------------------
(***************************************************************************)
(* Relocation of the data directory (host/storage_root.rs, and its callers *)
(* in main.rs, storage_host.rs and lifecycle.rs).                          *)
(*                                                                         *)
(* A small ledger outside the data says which directory is in force and    *)
(* which relocation is pending.  A relocation is requested as the last     *)
(* step of an exit and carried out by the next start, before any database  *)
(* is opened: plan, copy entry by entry, verify, mark the source, switch.  *)
(* The start that follows is a trial; only when the host is up is it       *)
(* committed.  Every step may be the last one before a crash, and while    *)
(* the program is down the user may change either directory.               *)
(*                                                                         *)
(* One action is one durable effect with the checks that precede it: the   *)
(* runtime lock leaves no second process to see anything in between.  A    *)
(* crash is the death of the process; what it wrote stays written.         *)
(***************************************************************************)
EXTENDS Naturals, FiniteSets

CONSTANTS
  Legacy, Default,  \* the two directories an installation may start in
  Elsewhere,        \* directories the user may choose
  Nowhere,          \* not a directory
  Attachments,      \* how many files there are beside the database
  MaxTransfers,     \* bound of the model: relocations requested
  MaxCrashes,       \* bound of the model: starts cut short by a crash or an error
  MaxEdits          \* bound of the model: changes made by others while the program is down

ASSUME StorageAssumption ==
  /\ Legacy # Default /\ Legacy \notin Elsewhere /\ Default \notin Elsewhere
  /\ Nowhere \notin {Legacy, Default} \cup Elsewhere
  /\ Attachments \in Nat /\ MaxTransfers \in Nat /\ MaxCrashes \in Nat /\ MaxEdits \in Nat

Roots == {Legacy, Default} \cup Elsewhere

(* Relocations are numbered; 0 is "none pending".  Every directory entry   *)
(* has a number too, its place in the sorted inventory: the source markers *)
(* (.mewu-migrated-<id>.json) come before the database and the other files.*)
Ids == 1..MaxTransfers
Db == MaxTransfers + 1
Files == Db .. (Db + Attachments)
Names == Ids \cup Files
LastName == Db + Attachments

Settled == {"a", "b"}
\* "hot": a rollback journal lies beside the database; "busy": it says a run or a
\* file operation is still under way.
FileContents(f) == IF f = Db THEN Settled \cup {"hot", "busy"} ELSE Settled
Contents == Settled \cup {"absent", "hot", "busy", "torn", "whole"}
EmptyTree == [n \in Names |-> "absent"]

Phases == {"Idle", "Requested", "Copying", "Verified", "Activated", "Committed",
           "NeedsRecovery", "Failed", "RolledBack"}
Resumable == {"Requested", "Copying", "Verified"}
Stuck == {"NeedsRecovery", "Failed"}

VARIABLES
  ledger,    \* bootstrap/storage.db: "missing", "reserved" (created, still empty), "valid"
  profile,   \* its profile row
  transfer,  \* its transfer rows, with the plan (the entries table)
  used,      \* relocations requested so far
  tree,      \* what each directory holds, its control directory aside
  ident,     \* the identity of each directory; a replaced one has a new identity
  work,      \* its control directory .mewu-transfer-<id>
  pc, entry, \* where the process is, and which entry it copies
  dataset,   \* history: the files of the directory in force, as last left by host or user
  stale,     \* history: sources left behind by a switch
  blame,     \* history: what has gone wrong with the pending relocation that it may give up for
  crashes, edits

ledgerVars == <<ledger, profile, transfer, used>>
diskVars == <<tree, ident, work>>
pcVars == <<pc, entry>>
history == <<dataset, stale, blame>>
bounds == <<crashes, edits>>
vars == <<ledgerVars, diskVars, pcVars, history, bounds>>

NoProfile == [root |-> Default, generation |-> 0, pending |-> 0, stamp |-> 0, required |-> FALSE]
NoTransfer == [source |-> Default, target |-> Default, generation |-> 0, phase |-> "Idle",
               plan |-> EmptyTree, sourceStamp |-> 0, targetStamp |-> 0]
NoWork == [id |-> 0, owner |-> FALSE, scratch |-> FALSE, temp |-> [n \in Names |-> "none"]]

P == profile.pending
T == transfer[P]

Data(r) == [f \in Files |-> tree[r][f]]
HasData(r) == tree[r][Db] # "absent"
Empty(r) == tree[r] = EmptyTree /\ work[r] = NoWork
MigratedOut(r) == \E i \in Ids : tree[r][i] # "absent"
\* inventory() without the relocation's own marker
Without(r, i) == [tree[r] EXCEPT ![i] = "absent"]

GoTo(label) == pc' = label /\ entry' = entry
Stop == pc' = "down" /\ entry' = 0
Pending(r) == P # 0 /\ r \in {T.source, T.target}

-----------------------------------------------------------------------------
(* Starting: the ledger is opened, or created for the first time.          *)

Start ==
  /\ pc = "down"
  /\ GoTo(IF ledger = "missing" THEN "initialize" ELSE "resolve")
  /\ UNCHANGED <<ledgerVars, diskVars, history, bounds>>

InitialRoot == IF HasData(Legacy) THEN Legacy ELSE Default

MayInitialize_DespiteMarkers ==
  /\ HasData(Legacy) \/ Empty(Legacy)
  /\ HasData(Legacy) \/ HasData(Default) \/ Empty(Default)

\* A missing ledger never adopts a directory that was left behind, nor unknown files.
MayInitialize ==
  /\ ~MigratedOut(Legacy) /\ ~MigratedOut(Default)
  /\ HasData(Legacy) \/ Empty(Legacy)
  /\ HasData(Legacy) \/ HasData(Default) \/ Empty(Default)

\* The ledger's file is created first; if the transaction below never happens, it
\* stays invalid and every later start refuses.
Reserve ==
  /\ pc = "initialize" /\ MayInitialize
  /\ ledger' = "reserved" /\ GoTo("create")
  /\ UNCHANGED <<profile, transfer, used, diskVars, history, bounds>>

CreateProfile ==
  /\ pc = "create"
  /\ ledger' = "valid"
  /\ profile' = [NoProfile EXCEPT !.root = InitialRoot, !.stamp = ident[InitialRoot],
                                  !.required = HasData(InitialRoot)]
  /\ dataset' = Data(InitialRoot)
  /\ GoTo("resolve")
  /\ UNCHANGED <<transfer, used, diskVars, stale, blame, bounds>>

RootUsable ==
  /\ ident[profile.root] = profile.stamp
  /\ profile.required => HasData(profile.root)

CanCopy ==
  /\ P # 0 /\ T.phase \in Resumable
  /\ profile.generation = T.generation /\ profile.root = T.source
CanTry ==
  /\ P # 0 /\ T.phase = "Activated" /\ profile.root = T.target
  /\ RootUsable /\ ident[T.target] = T.targetStamp
  /\ work[T.target].id = P /\ work[T.target].owner
CanHost == P = 0 /\ RootUsable

ResumeCopy ==
  /\ pc = "resolve" /\ ledger = "valid" /\ CanCopy
  /\ GoTo("roots")
  /\ UNCHANGED <<ledgerVars, diskVars, history, bounds>>

EnterRoot ==
  /\ pc = "resolve" /\ ledger = "valid" /\ (CanTry \/ CanHost)
  /\ GoTo("starting")
  /\ UNCHANGED <<ledgerVars, diskVars, history, bounds>>

\* Anything else fails closed and changes nothing.
Refuse ==
  /\ \/ pc = "initialize" /\ ~MayInitialize
     \/ pc = "resolve" /\ (ledger = "valid" => ~CanCopy /\ ~CanTry /\ ~CanHost)
  /\ Stop
  /\ UNCHANGED <<ledgerVars, diskVars, history, bounds>>

-----------------------------------------------------------------------------
(* perform_copy().  Every stage reads what an earlier start may have left. *)

SetPhase(ph) == transfer' = [transfer EXCEPT ![P].phase = ph]

SameRoots == ident[T.source] = T.sourceStamp /\ ident[T.target] = T.targetStamp
Entries == {n \in Names : T.plan[n] # "absent"}
Least(S) == CHOOSE m \in S : \A k \in S : m <= k
Following_Again(n) == Least({m \in Entries : m >= n} \cup {LastName + 1})
Following(n) == Least({m \in Entries : m > n} \cup {LastName + 1})

TargetIsOurs_NoTemporaries ==
  /\ \A n \in Names : tree[T.target][n] \in {"absent", T.plan[n]}
  /\ \A n \in Names : work[T.target].temp[n] = "none"
  /\ ~work[T.target].scratch

\* validate_target_partial: only planned files, no temporary that is not on record,
\* no scratch directory.
TargetIsOurs ==
  /\ \A n \in Names : tree[T.target][n] \in {"absent", T.plan[n]}
  /\ \A n \in Names : work[T.target].temp[n] # "untracked"
  /\ ~work[T.target].scratch

SourceAsPlanned == tree[T.source] = T.plan
SourceAsPlannedButMarked_TakenOnTrust == TRUE
SourceAsPlannedButMarked == Without(T.source, P) = T.plan
TargetAsPlanned == tree[T.target] = T.plan

CheckRoots ==
  /\ pc = "roots" /\ SameRoots
  /\ GoTo(IF T.phase = "Requested" THEN "plan" ELSE "own")
  /\ UNCHANGED <<ledgerVars, diskVars, history, bounds>>

PlanCopy ==
  /\ pc = "plan" /\ Empty(T.target) /\ tree[T.source][Db] # "hot"
  /\ transfer' = [transfer EXCEPT ![P] = [@ EXCEPT !.phase = "Copying", !.plan = tree[T.source]]]
  /\ GoTo("own")
  /\ UNCHANGED <<ledger, profile, used, diskVars, history, bounds>>

\* The control directory, then the owner file in it.
CreateWork ==
  /\ pc = "own" /\ work[T.target].id # P /\ Empty(T.target)
  /\ work' = [work EXCEPT ![T.target] = [NoWork EXCEPT !.id = P]]
  /\ GoTo("owner")
  /\ UNCHANGED <<ledgerVars, tree, ident, history, bounds>>

WriteOwner ==
  /\ pc = "owner"
  /\ work' = [work EXCEPT ![T.target].owner = TRUE]
  /\ GoTo("check")
  /\ UNCHANGED <<ledgerVars, tree, ident, history, bounds>>

FindWork ==
  /\ pc = "own" /\ work[T.target].id = P
  /\ GoTo("check")
  /\ UNCHANGED <<ledgerVars, diskVars, history, bounds>>

BeginEntries ==
  /\ pc = "check" /\ work[T.target].owner /\ TargetIsOurs
  /\ T.phase = "Copying" /\ SourceAsPlanned
  /\ pc' = "entry" /\ entry' = Following(0)
  /\ UNCHANGED <<ledgerVars, diskVars, history, bounds>>

SkipEntries ==
  /\ pc = "check" /\ work[T.target].owner /\ TargetIsOurs
  /\ T.phase = "Verified"
  /\ GoTo("mark")
  /\ UNCHANGED <<ledgerVars, diskVars, history, bounds>>

\* copy_entry: an entry that is already there is kept, its temporary removed ...
Copied == entry \in Names /\ tree[T.target][entry] # "absent"

KeepEntry ==
  /\ pc = "entry" /\ Copied /\ tree[T.target][entry] = T.plan[entry]
  /\ work' = [work EXCEPT ![T.target].temp[entry] = "none"]
  /\ pc' = "entry" /\ entry' = Following(entry)
  /\ UNCHANGED <<ledgerVars, tree, ident, history, bounds>>

\* ... another one is written to a new temporary, whose identity goes on record ...
CreateTemp ==
  /\ pc = "entry" /\ entry \in Names /\ ~Copied
  /\ tree[T.source][entry] = T.plan[entry]
  /\ work' = [work EXCEPT ![T.target].temp[entry] = "untracked"]
  /\ GoTo("track")
  /\ UNCHANGED <<ledgerVars, tree, ident, history, bounds>>

TrackTemp ==
  /\ pc = "track"
  /\ work' = [work EXCEPT ![T.target].temp[entry] = "tracked"]
  /\ GoTo("publish")
  /\ UNCHANGED <<ledgerVars, tree, ident, history, bounds>>

\* ... and linked under its name, before the temporary goes.
Publish ==
  /\ pc = "publish"
  /\ tree' = [tree EXCEPT ![T.target][entry] = tree[T.source][entry]]
  /\ GoTo("unlink")
  /\ UNCHANGED <<ledgerVars, ident, work, history, bounds>>

Unlink ==
  /\ pc = "unlink"
  /\ work' = [work EXCEPT ![T.target].temp[entry] = "none"]
  /\ pc' = "entry" /\ entry' = Following(entry)
  /\ UNCHANGED <<ledgerVars, tree, ident, history, bounds>>

\* validate_databases: on a scratch copy, which is removed before the verdict.
MakeScratch ==
  /\ pc = "entry" /\ entry = LastName + 1
  /\ work' = [work EXCEPT ![T.target].scratch = (Db \in Entries)]
  /\ pc' = "quickcheck" /\ entry' = 0
  /\ UNCHANGED <<ledgerVars, tree, ident, history, bounds>>

CheckDatabases ==
  /\ pc = "quickcheck"
  /\ work' = [work EXCEPT ![T.target].scratch = FALSE]
  /\ IF tree[T.target][Db] = "busy"
     THEN SetPhase("NeedsRecovery") /\ Stop
     ELSE transfer' = transfer /\ GoTo("verify")
  /\ UNCHANGED <<ledger, profile, used, tree, ident, history, bounds>>

Verify ==
  /\ pc = "verify" /\ SourceAsPlanned /\ TargetAsPlanned
  /\ SetPhase("Verified") /\ GoTo("mark")
  /\ UNCHANGED <<ledger, profile, used, diskVars, history, bounds>>

\* The marker is created, then filled; an existing one must be whole.
CreateMarker ==
  /\ pc = "mark" /\ TargetAsPlanned /\ tree[T.source][P] = "absent"
  /\ tree' = [tree EXCEPT ![T.source][P] = "torn"]
  /\ GoTo("marker")
  /\ UNCHANGED <<ledgerVars, ident, work, history, bounds>>

WriteMarker ==
  /\ pc = "marker"
  /\ tree' = [tree EXCEPT ![T.source][P] = "whole"]
  /\ GoTo("activate")
  /\ UNCHANGED <<ledgerVars, ident, work, history, bounds>>

FindMarker ==
  /\ pc = "mark" /\ TargetAsPlanned /\ tree[T.source][P] = "whole"
  /\ GoTo("activate")
  /\ UNCHANGED <<ledgerVars, diskVars, history, bounds>>

Switched_SameGeneration(root, stamp) ==
  [profile EXCEPT !.root = root, !.stamp = stamp]
Switched(root, stamp) ==
  [profile EXCEPT !.root = root, !.stamp = stamp, !.generation = @ + 1]

\* One transaction: the profile moves and the relocation is activated.
Activate ==
  /\ pc = "activate" /\ CanCopy
  /\ SourceAsPlannedButMarked /\ TargetAsPlanned /\ TargetIsOurs /\ work[T.target].owner
  /\ profile' = Switched(T.target, T.targetStamp)
  /\ SetPhase("Activated")
  /\ stale' = (stale \cup {T.source}) \ {T.target}
  /\ GoTo("resolve")
  /\ UNCHANGED <<ledger, used, diskVars, dataset, blame, bounds>>

\* What the copy's own checks refuse, in the order they are made.
TargetUnfit ==
  \/ pc = "plan" /\ ~Empty(T.target)
  \/ pc = "own" /\ work[T.target].id # P /\ ~Empty(T.target)
  \/ pc = "check" /\ ~(work[T.target].owner /\ TargetIsOurs)
  \/ pc = "entry" /\ Copied /\ tree[T.target][entry] # T.plan[entry]
  \/ pc = "mark" /\ (~TargetAsPlanned \/ tree[T.source][P] = "torn")
SourceUnfit ==
  \/ pc = "roots" /\ ~SameRoots
  \/ pc = "plan" /\ tree[T.source][Db] = "hot"
  \/ pc = "check" /\ T.phase = "Copying" /\ ~SourceAsPlanned
  \/ pc = "entry" /\ entry \in Names /\ ~Copied /\ tree[T.source][entry] # T.plan[entry]
  \/ pc = "verify" /\ ~(SourceAsPlanned /\ TargetAsPlanned)
  \/ pc = "activate" /\ ~(SourceAsPlannedButMarked /\ TargetAsPlanned)

GiveUp ==
  /\ \/ TargetUnfit /\ SetPhase("Failed")
     \/ ~TargetUnfit /\ SourceUnfit /\ SetPhase("NeedsRecovery")
  /\ Stop
  /\ UNCHANGED <<ledger, profile, used, diskVars, history, bounds>>

CopyStages == {"roots", "plan", "own", "owner", "check", "entry", "track", "publish", "unlink",
               "quickcheck", "verify", "mark", "marker", "activate"}

\* Whatever else the copy asks of the file system, of a database it looks into or of the
\* ledger may be refused, at any of its stages.  Every such error is a failure for good;
\* one that cannot even be recorded leaves what a crash leaves.
CopyFails ==
  /\ pc \in CopyStages /\ crashes < MaxCrashes
  /\ crashes' = crashes + 1
  /\ SetPhase("Failed") /\ Stop
  /\ \/ work' = work
     \/ pc = "quickcheck" /\ work' = [work EXCEPT ![T.target].scratch = FALSE]
  /\ blame' = blame \cup {"error"}
  /\ UNCHANGED <<ledger, profile, used, tree, ident, dataset, stale, edits>>

-----------------------------------------------------------------------------
(* The host on the directory in force.                                     *)

\* Store::open creates a missing database and settles what a crash left running.
OpenDatabases ==
  /\ pc = "starting"
  /\ tree' = IF tree[profile.root][Db] \in Settled THEN tree
             ELSE [tree EXCEPT ![profile.root][Db] = "a"]
  /\ dataset' = IF dataset[Db] \in Settled THEN dataset ELSE [dataset EXCEPT ![Db] = "a"]
  /\ GoTo("opened")
  /\ UNCHANGED <<ledgerVars, ident, work, stale, blame, bounds>>

MarkInitialized ==
  /\ pc = "opened" /\ P = 0 /\ RootUsable
  /\ profile' = [profile EXCEPT !.required = TRUE]
  /\ GoTo("host")
  /\ UNCHANGED <<ledger, transfer, used, diskVars, history, bounds>>

OnTrial ==
  /\ P # 0 /\ T.phase = "Activated" /\ profile.root = T.target
  /\ ident[T.target] = T.targetStamp

Closed_Kept == profile
Closed == [profile EXCEPT !.pending = 0]

CommitStartup ==
  /\ pc = "opened" /\ OnTrial /\ HasData(T.target)
  /\ SetPhase("Committed")
  /\ profile' = [Closed EXCEPT !.required = TRUE]
  /\ GoTo("host")
  /\ UNCHANGED <<ledger, used, diskVars, history, bounds>>

\* Offered for a trial that cannot be kept; the source is in force again.
RollbackStartup ==
  /\ pc = "opened" /\ OnTrial /\ ident[T.source] = T.sourceStamp
  /\ SetPhase("RolledBack")
  /\ profile' = [Switched(T.source, T.sourceStamp) EXCEPT !.pending = 0]
  /\ dataset' = Data(T.source)
  /\ stale' = stale \ {T.source}
  /\ Stop
  /\ UNCHANGED <<ledger, used, diskVars, blame, bounds>>

HostWrite ==
  /\ pc = "host"
  /\ \E f \in Files : \E c \in (IF f = Db THEN Settled ELSE Settled \cup {"absent"}) :
       /\ tree' = [tree EXCEPT ![profile.root][f] = c]
       /\ dataset' = [dataset EXCEPT ![f] = c]
  /\ UNCHANGED <<ledgerVars, ident, work, pcVars, stale, blame, bounds>>

\* request_migration, the last step of an exit that may still be given up.
RequestMigration ==
  /\ pc = "host" /\ P = 0 /\ profile.required /\ RootUsable /\ used < MaxTransfers
  /\ \E target \in Roots \ {profile.root} :
       /\ Empty(target)
       /\ transfer' = [transfer EXCEPT ![used + 1] =
            [source |-> profile.root, target |-> target, generation |-> profile.generation,
             phase |-> "Requested", plan |-> EmptyTree,
             sourceStamp |-> ident[profile.root], targetStamp |-> ident[target]]]
  /\ used' = used + 1
  /\ profile' = [profile EXCEPT !.pending = used + 1]
  /\ blame' = {}
  /\ GoTo("exiting")
  /\ UNCHANGED <<ledger, diskVars, dataset, stale, bounds>>

\* cancel_requested, when the exit's last step fails.
CancelRequested ==
  /\ pc = "exiting" /\ P # 0 /\ T.phase = "Requested"
  /\ SetPhase("RolledBack")
  /\ profile' = Closed
  /\ GoTo("host")
  /\ UNCHANGED <<ledger, used, diskVars, history, bounds>>

Exit ==
  /\ pc \in {"host", "exiting"}
  /\ Stop
  /\ UNCHANGED <<ledgerVars, diskVars, history, bounds>>

\* abandon_failed_migration: recovery by hand, both directories are kept as they are.
AbandonFailed ==
  /\ pc = "down" /\ ledger = "valid" /\ P # 0 /\ T.phase \in Stuck
  /\ profile.generation = T.generation /\ profile.root = T.source
  /\ RootUsable /\ ident[T.source] = T.sourceStamp
  /\ SetPhase("RolledBack")
  /\ profile' = Closed
  /\ UNCHANGED <<ledger, used, diskVars, pcVars, history, bounds>>

-----------------------------------------------------------------------------
(* Crashes, and what others do while the program is down.                  *)

\* Between a file's creation and the record of what it is.
Torn == pc \in {"owner", "track", "quickcheck", "marker"}

Crash ==
  /\ pc # "down" /\ crashes < MaxCrashes
  /\ crashes' = crashes + 1
  /\ Stop
  /\ blame' = blame \cup (IF Torn THEN {"torn"} ELSE {})
  /\ \/ UNCHANGED <<tree, dataset>>
     \/ /\ pc = "host"                    \* with a run under way
        /\ tree' = [tree EXCEPT ![profile.root][Db] = "busy"]
        /\ dataset' = [dataset EXCEPT ![Db] = "busy"]
  /\ UNCHANGED <<ledgerVars, ident, work, stale, edits>>

ByOthers == pc = "down" /\ edits < MaxEdits /\ edits' = edits + 1
BlameOthers(r) == blame' = blame \cup (IF Pending(r) THEN {"edit"} ELSE {})
Noticed == dataset' = IF ledger = "valid" THEN [f \in Files |-> tree'[profile.root][f]] ELSE dataset

EditFile(r, f) ==
  /\ ByOthers
  /\ \E c \in (FileContents(f) \cup {"absent"}) \ {tree[r][f]} :
       tree' = [tree EXCEPT ![r][f] = c]
  /\ BlameOthers(r) /\ Noticed
  /\ UNCHANGED <<ledgerVars, ident, work, pcVars, stale, crashes>>

\* A directory is emptied, or replaced by an empty one of the same name.
EmptyRoot(r) ==
  /\ ByOthers /\ ~Empty(r)
  /\ tree' = [tree EXCEPT ![r] = EmptyTree]
  /\ work' = [work EXCEPT ![r] = NoWork]
  /\ ident' \in {ident, [ident EXCEPT ![r] = @ + 1]}
  /\ stale' = stale \ {r}
  /\ BlameOthers(r) /\ Noticed
  /\ UNCHANGED <<ledgerVars, pcVars, crashes>>

LoseLedger ==
  /\ ByOthers /\ ledger # "missing"
  /\ ledger' = "missing" /\ profile' = NoProfile
  /\ transfer' = [i \in Ids |-> NoTransfer]
  /\ UNCHANGED <<used, diskVars, pcVars, history, crashes>>

-----------------------------------------------------------------------------
Copying ==
  \/ CheckRoots \/ PlanCopy \/ CreateWork \/ WriteOwner \/ FindWork
  \/ BeginEntries \/ SkipEntries \/ KeepEntry \/ CreateTemp \/ TrackTemp \/ Publish \/ Unlink
  \/ MakeScratch \/ CheckDatabases \/ Verify \/ CreateMarker \/ WriteMarker \/ FindMarker
  \/ Activate \/ GiveUp
Starting == Start \/ Reserve \/ CreateProfile \/ ResumeCopy \/ EnterRoot \/ Refuse
Opening == OpenDatabases \/ MarkInitialized \/ CommitStartup
Others == (\E r \in Roots : EmptyRoot(r) \/ \E f \in Files : EditFile(r, f)) \/ LoseLedger

\* What the program does of itself, once it is started again and again.  Nothing
\* obliges an operation to fail.
Onward == Starting \/ Copying \/ Opening \/ Exit

Next ==
  \/ Onward \/ HostWrite \/ RequestMigration \/ CancelRequested
  \/ RollbackStartup \/ AbandonFailed
  \/ CopyFails \/ Crash \/ Others

\* An installation is new, or has its data in one of the two first directories.
Init ==
  /\ ledger = "missing" /\ profile = NoProfile /\ used = 0
  /\ transfer = [i \in Ids |-> NoTransfer]
  /\ \E old \in SUBSET {Legacy, Default} :
       /\ Cardinality(old) <= 1
       /\ tree = [r \in Roots |-> [n \in Names |-> IF r \in old /\ n \in Files THEN "a" ELSE "absent"]]
  /\ ident = [r \in Roots |-> 0] /\ work = [r \in Roots |-> NoWork]
  /\ pc = "down" /\ entry = 0
  /\ dataset = [f \in Files |-> "absent"] /\ stale = {} /\ blame = {}
  /\ crashes = 0 /\ edits = 0

Spec == Init /\ [][Next]_vars
FairSpec == Spec /\ WF_vars(Onward)

-----------------------------------------------------------------------------
(* Properties.                                                             *)

Labels == {"down", "initialize", "create", "resolve", "roots", "plan", "own", "owner", "check",
           "entry", "track", "publish", "unlink", "quickcheck", "verify", "mark", "marker",
           "activate", "starting", "opened", "host", "exiting"}

\* Every variable has its type; in particular only whole or torn markers, and no
\* stage of the copy without a pending relocation.
TypeOK ==
  /\ ledger \in {"missing", "reserved", "valid"}
  /\ profile \in [root: Roots, generation: Nat, pending: {0} \cup Ids, stamp: Nat, required: BOOLEAN]
  /\ transfer \in [Ids -> [source: Roots, target: Roots, generation: Nat, phase: Phases,
                           plan: [Names -> Contents], sourceStamp: Nat, targetStamp: Nat]]
  /\ used \in 0..MaxTransfers
  /\ tree \in [Roots -> [Names -> Contents]]
  /\ ident \in [Roots -> Nat]
  /\ work \in [Roots -> [id: {0} \cup Ids, owner: BOOLEAN, scratch: BOOLEAN,
                         temp: [Names -> {"none", "untracked", "tracked"}]]]
  /\ pc \in Labels /\ entry \in 0..(LastName + 1)
  /\ dataset \in [Files -> Contents] /\ stale \subseteq Roots /\ blame \subseteq {"torn", "edit", "error"}
  /\ crashes \in 0..MaxCrashes /\ edits \in 0..MaxEdits

Open == Resumable \cup Stuck \cup {"Activated"}

\* The ledger's two tables agree, whatever was interrupted: at most the pending
\* relocation is open, and it is activated exactly when the profile has moved to its
\* target, one generation on (the transactions of storage_root.rs).
PendingAgrees ==
  ledger = "valid" =>
    /\ \A i \in Ids : transfer[i].phase \in Open => i = P
    /\ P # 0 =>
         \/ /\ T.phase \in Resumable \cup Stuck
            /\ profile.root = T.source /\ profile.generation = T.generation
            /\ profile.stamp = T.sourceStamp
         \/ /\ T.phase = "Activated"
            /\ profile.root = T.target /\ profile.generation = T.generation + 1
            /\ profile.stamp = T.targetStamp

\* No relocation loses or changes a file: the directory in force holds what the host
\* or the user last left there, across any number of interrupted and resumed copies
\* and although either directory may be changed while one is pending.
RootHoldsDataset == ledger = "valid" => Data(profile.root) = dataset

(* The same and more, as a refinement.  The home is the directory in force *)
(* of a valid ledger, on trial while its relocation is activated; left are *)
(* the sources a switch has left behind.                                   *)
StageOf == IF pc = "down" THEN "down" ELSE "up"
HomeOf == IF ledger = "valid" THEN profile.root ELSE Nowhere
TrialOf == IF ledger = "valid" /\ P # 0 /\ T.phase = "Activated" THEN T.source ELSE Nowhere
DataOf == [r \in Roots |-> Data(r)]

Home == INSTANCE DataHome WITH
  Absent <- "absent", Repaired <- {Db},
  stage <- StageOf, home <- HomeOf, trial <- TrialOf, data <- DataOf, left <- stale

\* A relocation brings the data set to its new home whole and unchanged or not at
\* all; no file of any other directory is overwritten or removed on the way, and until
\* the new home is kept nothing is written there that going back would lose.
ImplementsHome == Home!Spec

\* A directory that was left behind is never in force again, not even when the ledger
\* is lost (storage_root.rs:1099: a missing ledger may never resurrect a retained,
\* migrated-out source).
NeverRevived == ledger = "valid" => profile.root \notin stale

\* A relocation gives up only when an operation of its copy failed, somebody changed one
\* of its directories, or a crash hit one of the four places where a file exists before
\* it is on record: a crash anywhere else is resumed, and no check of a later start
\* takes what an earlier one left for a stranger's (validate_target_partial, copy_entry,
\* exact_control).
FailureHasCause == ledger = "valid" /\ P # 0 /\ T.phase \in Stuck => blame # {}

\* As long as nobody else touches the directories, neither a crash nor a failed copy
\* leaves a ledger that contradicts them: a start whose ledger is intact resumes, tries
\* or opens a directory, unless the pending relocation gave up.
StartsUnlessStuck ==
  pc = "resolve" /\ ledger = "valid" /\ edits = 0 =>
    CanCopy \/ CanTry \/ CanHost \/ (P # 0 /\ T.phase \in Stuck)

\* A requested relocation is switched to or given up, if crashes and changes by others
\* come to an end and the program is started again.
Settles == \A i \in Ids : transfer[i].phase \in Resumable ~> transfer[i].phase \notin Resumable
=============================================================================
