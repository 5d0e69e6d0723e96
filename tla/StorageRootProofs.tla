-------------------------- MODULE StorageRootProofs --------------------------
(***************************************************************************)
(* Proofs about StorageRoot, for every number of relocations, files,       *)
(* directories, crashes and changes by others.                             *)
(*                                                                         *)
(* There are two inductions.  The first, IInv, is about the ledger: Core   *)
(* says what holds of it and of the disk at any time, Stages what the      *)
(* process relies on between two steps.  That the directory in force holds *)
(* the data set needs to know that a copy writes to another directory;     *)
(* that one left behind stays out of force, that it carries its marker.    *)
(*                                                                         *)
(* The second, JInv, stands on the first and is about the copy: Places     *)
(* says which phase and which control directory each stage finds, Fresh    *)
(* and Untouched what no relocation and no crash changes, Intact what the  *)
(* disk looks like while nothing has gone wrong with a relocation.  A copy *)
(* whose own checks refuse has found something else, so something has.     *)
(***************************************************************************)
EXTENDS StorageRoot, WellFoundedInduction, TLAPS

ProfileType == [root: Roots, generation: Nat, pending: {0} \cup Ids, stamp: Nat, required: BOOLEAN]
TransferType == [source: Roots, target: Roots, generation: Nat, phase: Phases,
                 plan: [Names -> Contents], sourceStamp: Nat, targetStamp: Nat]

Types ==
  /\ ledger \in {"missing", "reserved", "valid"}
  /\ profile \in ProfileType
  /\ transfer \in [Ids -> TransferType]
  /\ used \in 0..MaxTransfers
  /\ tree \in [Roots -> [Names -> Contents]]
  /\ ident \in [Roots -> Nat]
  /\ dataset \in [Files -> Contents]
  /\ stale \subseteq Roots

\* The two directories of a pending relocation are different ones, and its target was
\* not left behind by an earlier one.
PendingFit == ledger = "valid" /\ P # 0 => T.source # T.target /\ T.target \notin stale

\* What was left behind still carries the marker of a relocation.
StaleMarked == \A r \in stale : MigratedOut(r)

\* Without a ledger there is no relocation on record.
NothingRecorded == ledger # "valid" => \A i \in Ids : transfer[i].phase \notin Open

Core == Types /\ NothingRecorded /\ PendingAgrees /\ PendingFit /\ RootHoldsDataset /\ NeverRevived /\ StaleMarked

HostLabels == {"starting", "opened", "host", "exiting"}

Stages ==
  /\ pc \in CopyStages => ledger = "valid" /\ CanCopy
  /\ pc \in HostLabels => ledger = "valid"
  /\ pc = "initialize" => ledger = "missing"
  /\ pc = "create" => ledger = "reserved" /\ MayInitialize
  /\ pc \in {"track", "publish", "unlink"} => entry \in Names
  /\ pc = "activate" => tree[T.source][P] # "absent"

IInv == Core /\ Stages

coreVars == <<ledger, profile, transfer, used, tree, ident, dataset, stale>>

-----------------------------------------------------------------------------
(* The steps that leave the core alone, and where the process may go.      *)

LEMMA CoreKept ==
  ASSUME Core, UNCHANGED coreVars
  PROVE  Core'
BY DEF Core, coreVars, Types, ProfileType, TransferType, NothingRecorded, PendingAgrees,
       PendingFit, RootHoldsDataset, NeverRevived, StaleMarked, MigratedOut, Data, P, T

LEMMA Halted ==
  ASSUME pc' = "down"
  PROVE  Stages'
BY DEF Stages, CopyStages, HostLabels

LEMMA Hosted ==
  ASSUME pc' \in HostLabels, ledger' = "valid"
  PROVE  Stages'
BY DEF Stages, CopyStages, HostLabels

\* A copy goes on with the same pending relocation.
LEMMA CopyGoesOn ==
  ASSUME Stages, pc \in CopyStages,
         pc' \in CopyStages \ {"activate"},
         pc' \in {"track", "publish", "unlink"} => entry' \in Names,
         ledger' = ledger, profile' = profile,
         P # 0 => /\ transfer'[P].phase \in Resumable
                  /\ transfer'[P].source = transfer[P].source
                  /\ transfer'[P].generation = transfer[P].generation
  PROVE  Stages'
<1>1. ledger' = "valid" /\ CanCopy'
  BY DEF Stages, CanCopy, P, T
<1> QED
  BY <1>1 DEF Stages, CopyStages, HostLabels

LEMMA IdsAreNotFiles == Ids \cap Files = {} /\ 0 \notin Ids /\ Db \in Files /\ Files \subseteq Names
                        /\ Ids \subseteq Names
BY StorageAssumption DEF Ids, Files, Db, Names

-----------------------------------------------------------------------------
(* What the ledger's transactions leave behind.                            *)

\* The phase of the pending relocation is changed and nothing else.
LEMMA PhaseSet ==
  ASSUME Core, P # 0, ledger = "valid",
         NEW ph \in Phases, SetPhase(ph)
  PROVE  /\ transfer' \in [Ids -> TransferType]
         /\ transfer'[P].phase = ph
         /\ transfer'[P].source = T.source /\ transfer'[P].target = T.target
         /\ transfer'[P].generation = T.generation
         /\ transfer'[P].sourceStamp = T.sourceStamp
         /\ transfer'[P].targetStamp = T.targetStamp
         /\ \A i \in Ids \ {P} : transfer'[i] = transfer[i]
<1>1. P \in Ids /\ transfer[P] \in TransferType
  BY DEF Core, Types, ProfileType, P
<1> QED
  BY <1>1 DEF Core, Types, SetPhase, TransferType, T

\* While the relocation is not switched to, its phase may change freely.
LEMMA PhaseSetKeepsCore ==
  ASSUME Core, P # 0, ledger = "valid", T.phase \in Resumable,
         NEW ph \in Resumable \cup Stuck, SetPhase(ph),
         UNCHANGED <<ledger, profile, used, tree, ident, dataset, stale>>
  PROVE  Core'
<1>0. ph \in Phases
  BY DEF Resumable, Stuck, Phases
<1>1. /\ transfer' \in [Ids -> TransferType]
      /\ transfer'[P].phase = ph
      /\ transfer'[P].source = T.source /\ transfer'[P].target = T.target
      /\ transfer'[P].generation = T.generation
      /\ transfer'[P].sourceStamp = T.sourceStamp
      /\ \A i \in Ids \ {P} : transfer'[i] = transfer[i]
  BY <1>0, PhaseSet
<1>2. Types'
  BY <1>1 DEF Core, Types
<1>3. PendingAgrees'
  BY <1>1 DEF Core, PendingAgrees, P, T, Open, Resumable, Stuck
<1>4. PendingFit' /\ NothingRecorded'
  BY <1>1 DEF Core, PendingFit, NothingRecorded, P, T
<1>5. RootHoldsDataset' /\ NeverRevived' /\ StaleMarked'
  BY DEF Core, RootHoldsDataset, Data, NeverRevived, StaleMarked, MigratedOut
<1> QED
  BY <1>2, <1>3, <1>4, <1>5 DEF Core

\* The pending relocation is closed: it is settled and the profile points at none.
LEMMA PendingClosed ==
  ASSUME Core, P # 0, ledger = "valid",
         NEW ph \in {"Committed", "RolledBack"}, SetPhase(ph),
         profile' \in ProfileType, profile'.pending = 0, UNCHANGED <<ledger, used, ident>>
  PROVE  /\ transfer' \in [Ids -> TransferType]
         /\ PendingAgrees' /\ PendingFit'
<1>0. ph \in Phases
  BY DEF Phases
<1>1. /\ transfer' \in [Ids -> TransferType]
      /\ transfer'[P].phase = ph
      /\ \A i \in Ids \ {P} : transfer'[i] = transfer[i]
  BY <1>0, PhaseSet
<1>2. PendingAgrees'
  BY <1>1 DEF Core, PendingAgrees, P, T, Open, Resumable, Stuck
<1> QED
  BY <1>1, <1>2 DEF PendingFit, P

LEMMA SwitchedType ==
  ASSUME profile \in ProfileType, NEW root \in Roots, NEW stamp \in Nat
  PROVE  /\ Switched(root, stamp) \in ProfileType
         /\ Switched(root, stamp).root = root
         /\ Switched(root, stamp).stamp = stamp
         /\ Switched(root, stamp).pending = profile.pending
         /\ Switched(root, stamp).generation = profile.generation + 1
<1> DEFINE one == [profile EXCEPT !.root = root]
           two == [one EXCEPT !.stamp = stamp]
<1>1. one \in ProfileType /\ one.root = root /\ one.pending = profile.pending
      /\ one.generation = profile.generation
  BY DEF ProfileType
<1>2. two \in ProfileType /\ two.root = root /\ two.pending = profile.pending
      /\ two.generation = profile.generation /\ two.stamp = stamp
  <2> HIDE DEF one
  <2> QED  BY <1>1 DEF ProfileType
<1>3. Switched(root, stamp) = [two EXCEPT !.generation = @ + 1]
  BY DEF Switched
<1> HIDE DEF two
<1> QED
  BY <1>2, <1>3 DEF ProfileType

LEMMA ClosedType ==
  ASSUME profile \in ProfileType
  PROVE  /\ Closed \in ProfileType
         /\ Closed.root = profile.root /\ Closed.pending = 0
BY DEF ProfileType, Closed

-----------------------------------------------------------------------------
(* Starting.                                                               *)

LEMMA InitialRootFits ==
  ASSUME Core, MayInitialize
  PROVE  InitialRoot \in Roots /\ InitialRoot \notin stale
<1>1. InitialRoot \in {Legacy, Default}
  BY DEF InitialRoot
<1> QED
  BY <1>1 DEF Roots, Core, StaleMarked, MayInitialize

LEMMA StartingStep ==
  ASSUME IInv, Starting
  PROVE  IInv'
<1> USE DEF IInv
<1>1. CASE Start
  <2>1. Core'
    BY <1>1, CoreKept DEF Start, coreVars, ledgerVars, diskVars, history
  <2>2. Stages'
    BY <1>1 DEF Start, GoTo, Stages, CopyStages, HostLabels, ledgerVars
  <2> QED  BY <2>1, <2>2
<1>2. CASE Reserve
  <2>1. Core'
    BY <1>2 DEF Reserve, Core, Types, NothingRecorded, PendingAgrees, PendingFit, RootHoldsDataset,
                NeverRevived, StaleMarked, MigratedOut, Stages, diskVars, history
  <2>2. ledger' = "reserved" /\ pc' = "create" /\ MayInitialize'
    BY <1>2 DEF Reserve, GoTo, MayInitialize, MigratedOut, HasData, Empty, diskVars
  <2>3. Stages'
    BY <2>2 DEF Stages, CopyStages, HostLabels
  <2> QED  BY <2>1, <2>3
<1>3. CASE CreateProfile
  <2>0. InitialRoot \in Roots /\ InitialRoot \notin stale
    BY <1>3, InitialRootFits DEF CreateProfile, Stages
  <2>1. profile' \in ProfileType /\ profile'.root = InitialRoot /\ profile'.pending = 0
    <3> DEFINE one == [NoProfile EXCEPT !.root = InitialRoot]
               two == [one EXCEPT !.stamp = ident[InitialRoot]]
    <3>0. NoProfile \in ProfileType /\ NoProfile.pending = 0
      BY DEF NoProfile, ProfileType, Roots
    <3>1. one \in ProfileType /\ one.root = InitialRoot /\ one.pending = 0
      BY <2>0, <3>0 DEF ProfileType
    <3>2. two \in ProfileType /\ two.root = InitialRoot /\ two.pending = 0
      <4> HIDE DEF one
      <4> QED  BY <2>0, <3>1 DEF ProfileType, Core, Types
    <3>3. profile' = [two EXCEPT !.required = HasData(InitialRoot)]
      BY <1>3 DEF CreateProfile
    <3>4. HasData(InitialRoot) \in BOOLEAN
      BY DEF HasData
    <3> HIDE DEF two
    <3> QED  BY <3>2, <3>3, <3>4 DEF ProfileType
  <2>2. ledger' = "valid" /\ pc' = "resolve"
        /\ UNCHANGED <<transfer, used, tree, ident, stale>> /\ dataset' = Data(InitialRoot)
    BY <1>3 DEF CreateProfile, GoTo, diskVars
  <2>3. dataset' \in [Files -> Contents]
    BY <2>0, <2>2, IdsAreNotFiles DEF Data, Core, Types
  <2>4. Types'
    BY <2>1, <2>2, <2>3 DEF Core, Types
  <2>5. PendingAgrees' /\ PendingFit' /\ NothingRecorded'
    BY <2>1, <2>2, <1>3 DEF CreateProfile, PendingAgrees, PendingFit, P, Stages, Core, NothingRecorded
  <2>6. RootHoldsDataset' /\ NeverRevived' /\ StaleMarked'
    BY <2>0, <2>1, <2>2 DEF RootHoldsDataset, Data, NeverRevived, StaleMarked, MigratedOut, Core
  <2>7. Stages'
    BY <2>2 DEF Stages, CopyStages, HostLabels
  <2> QED  BY <2>4, <2>5, <2>6, <2>7 DEF Core
<1>4. CASE ResumeCopy
  <2>1. Core'
    BY <1>4, CoreKept DEF ResumeCopy, coreVars, ledgerVars, diskVars, history
  <2>2. ledger' = "valid" /\ CanCopy' /\ pc' = "roots"
    BY <1>4 DEF ResumeCopy, GoTo, CanCopy, P, T, ledgerVars
  <2>3. Stages'
    BY <2>2 DEF Stages, CopyStages, HostLabels
  <2> QED  BY <2>1, <2>3
<1>5. CASE EnterRoot
  <2>1. Core'
    BY <1>5, CoreKept DEF EnterRoot, coreVars, ledgerVars, diskVars, history
  <2>2. Stages'
    BY <1>5, Hosted DEF EnterRoot, GoTo, ledgerVars, HostLabels
  <2> QED  BY <2>1, <2>2
<1>6. CASE Refuse
  <2>1. Core'
    BY <1>6, CoreKept DEF Refuse, coreVars, ledgerVars, diskVars, history
  <2>2. Stages'
    BY <1>6, Halted DEF Refuse, Stop
  <2> QED  BY <2>1, <2>2
<1> QED
  BY <1>1, <1>2, <1>3, <1>4, <1>5, <1>6 DEF Starting

-----------------------------------------------------------------------------
(* Copying.  Only the target's files and the source's markers are written. *)

LEMMA CopyTyped ==
  ASSUME IInv, pc \in CopyStages
  PROVE  /\ ledger = "valid" /\ CanCopy /\ P \in Ids /\ T \in TransferType
         /\ profile.root = T.source /\ T.source # T.target /\ T.target \notin stale
BY DEF IInv, Core, Types, Stages, CanCopy, PendingFit, P, T, ProfileType

\* A step of the copy that writes neither the ledger nor a file that is kept.
LEMMA CopyMoves ==
  ASSUME IInv, pc \in CopyStages, UNCHANGED <<ledgerVars, tree, ident, history>>,
         pc' \in CopyStages \ {"activate"},
         pc' \in {"track", "publish", "unlink"} => entry' \in Names
  PROVE  IInv'
<1>1. Core'
  BY CoreKept DEF IInv, coreVars, ledgerVars, history
<1>2. Stages'
  BY CopyTyped, CopyGoesOn DEF IInv, ledgerVars, CanCopy, T
<1> QED  BY <1>1, <1>2 DEF IInv

\* A step of the copy that writes one file of the target or one marker of the source.
LEMMA CopyWrites ==
  ASSUME IInv, pc \in CopyStages, UNCHANGED <<ledgerVars, ident, history>>,
         NEW r \in Roots, NEW n \in Names, NEW c \in Contents,
         tree' = [tree EXCEPT ![r][n] = c],
         r = T.target \/ (r = T.source /\ n \in Ids /\ c # "absent")
  PROVE  Core'
<1>0. /\ ledger = "valid" /\ P \in Ids /\ profile.root = T.source
      /\ T.source # T.target /\ T.target \notin stale
  BY CopyTyped
<1>1. tree' \in [Roots -> [Names -> Contents]]
  BY DEF IInv, Core, Types
<1>2. \A s \in Roots \ {r} : tree'[s] = tree[s]
  BY DEF IInv, Core, Types
<1>3. \A m \in Names \ {n} : tree'[r][m] = tree[r][m]
  BY DEF IInv, Core, Types
<1>4. tree'[r][n] = c
  BY DEF IInv, Core, Types
<1>5. Types' /\ NothingRecorded' /\ PendingAgrees' /\ PendingFit' /\ NeverRevived'
  BY <1>1 DEF IInv, Core, Types, NothingRecorded, PendingAgrees, PendingFit, NeverRevived, P, T,
              ledgerVars, history
<1>6. Data(profile.root)' = Data(profile.root)
  BY <1>0, <1>2, <1>3, IdsAreNotFiles DEF Data, ledgerVars, IInv, Core, Types, ProfileType
<1>7. RootHoldsDataset'
  BY <1>6 DEF RootHoldsDataset, ledgerVars, history, IInv, Core
<1>8. StaleMarked'
  <2> SUFFICES ASSUME NEW s \in stale
               PROVE  \E i \in Ids : tree'[s][i] # "absent"
    BY DEF StaleMarked, MigratedOut, history
  <2>1. PICK i \in Ids : tree[s][i] # "absent"
    BY DEF IInv, Core, StaleMarked, MigratedOut
  <2>2. tree'[s][i] # "absent"
    BY <1>0, <1>2, <1>3, <1>4, <2>1, IdsAreNotFiles DEF IInv, Core, Types
  <2> QED  BY <2>2
<1> QED  BY <1>5, <1>7, <1>8 DEF Core

LEMMA ActivateStep ==
  ASSUME IInv, Activate
  PROVE  IInv'
<1>0. /\ ledger = "valid" /\ P \in Ids /\ T \in TransferType /\ profile.root = T.source
      /\ T.source # T.target /\ T.phase \in Resumable /\ profile.generation = T.generation
      /\ tree[T.source][P] # "absent"
  BY CopyTyped DEF Activate, CopyStages, CanCopy, IInv, Stages
<1>1. /\ transfer' \in [Ids -> TransferType]
      /\ transfer'[P].phase = "Activated"
      /\ transfer'[P].source = T.source /\ transfer'[P].target = T.target
      /\ transfer'[P].generation = T.generation
      /\ transfer'[P].targetStamp = T.targetStamp
      /\ \A i \in Ids \ {P} : transfer'[i] = transfer[i]
  BY <1>0, PhaseSet, IdsAreNotFiles DEF Activate, IInv, Phases
<1>2. /\ profile' \in ProfileType /\ profile'.root = T.target /\ profile'.stamp = T.targetStamp
      /\ profile'.pending = P /\ profile'.generation = T.generation + 1
  BY <1>0, SwitchedType DEF Activate, IInv, Core, Types, TransferType, P
<1>3. /\ UNCHANGED <<ledger, used, tree, ident, dataset>> /\ pc' = "resolve"
      /\ stale' = (stale \cup {T.source}) \ {T.target}
  BY DEF Activate, GoTo, diskVars
<1>4. Types'
  BY <1>0, <1>1, <1>2, <1>3 DEF IInv, Core, Types, TransferType
<1>5. NothingRecorded' /\ PendingAgrees' /\ PendingFit' /\ NeverRevived'
  BY <1>0, <1>1, <1>2, <1>3
     DEF IInv, Core, NothingRecorded, PendingAgrees, PendingFit, NeverRevived, P, T, Open
<1>6. Data(T.target) = Data(T.source)
  BY <1>0, IdsAreNotFiles DEF Activate, SourceAsPlannedButMarked, TargetAsPlanned, Without, Data,
                              IInv, Core, Types, TransferType
<1>7. RootHoldsDataset'
  BY <1>0, <1>2, <1>3, <1>6 DEF RootHoldsDataset, Data, IInv, Core
<1>8. StaleMarked'
  BY <1>0, <1>3 DEF StaleMarked, MigratedOut, IInv, Core
<1>9. Stages'
  BY <1>3 DEF Stages, CopyStages, HostLabels
<1> QED  BY <1>4, <1>5, <1>7, <1>8, <1>9 DEF IInv, Core

LEMMA CopyingStep ==
  ASSUME IInv, Copying
  PROVE  IInv'
<1>1. CASE CheckRoots
  BY <1>1, CopyMoves DEF CheckRoots, CopyStages, GoTo, ledgerVars, diskVars, history, IInv, Stages
<1>2. CASE CreateWork
  BY <1>2, CopyMoves DEF CreateWork, CopyStages, GoTo, ledgerVars, diskVars, history, IInv, Stages
<1>3. CASE WriteOwner
  BY <1>3, CopyMoves DEF WriteOwner, CopyStages, GoTo, ledgerVars, diskVars, history, IInv, Stages
<1>4. CASE FindWork
  BY <1>4, CopyMoves DEF FindWork, CopyStages, GoTo, ledgerVars, diskVars, history, IInv, Stages
<1>5. CASE BeginEntries
  BY <1>5, CopyMoves DEF BeginEntries, CopyStages, GoTo, ledgerVars, diskVars, history, IInv, Stages
<1>6. CASE SkipEntries
  BY <1>6, CopyMoves DEF SkipEntries, CopyStages, GoTo, ledgerVars, diskVars, history, IInv, Stages
<1>7. CASE KeepEntry
  BY <1>7, CopyMoves DEF KeepEntry, CopyStages, GoTo, ledgerVars, diskVars, history, IInv, Stages
<1>8. CASE CreateTemp
  BY <1>8, CopyMoves DEF CreateTemp, CopyStages, GoTo, ledgerVars, diskVars, history, IInv, Stages
<1>9. CASE TrackTemp
  BY <1>9, CopyMoves DEF TrackTemp, CopyStages, GoTo, ledgerVars, diskVars, history, IInv, Stages
<1>10. CASE Unlink
  BY <1>10, CopyMoves DEF Unlink, CopyStages, GoTo, ledgerVars, diskVars, history, IInv, Stages
<1>11. CASE MakeScratch
  BY <1>11, CopyMoves DEF MakeScratch, CopyStages, GoTo, ledgerVars, diskVars, history, IInv, Stages
<1>12. CASE PlanCopy
  <2>0. ledger = "valid" /\ P \in Ids /\ T \in TransferType /\ CanCopy
    BY <1>12, CopyTyped DEF PlanCopy, CopyStages
  <2> DEFINE planned == [T EXCEPT !.phase = "Copying", !.plan = tree[T.source]]
  <2>1. transfer' = [transfer EXCEPT ![P] = planned]
    BY <1>12 DEF PlanCopy, T
  <2>2. /\ planned \in TransferType /\ planned.phase = "Copying"
        /\ planned.source = T.source /\ planned.target = T.target
        /\ planned.generation = T.generation /\ planned.sourceStamp = T.sourceStamp
    <3> DEFINE half == [T EXCEPT !.phase = "Copying"]
    <3>1. /\ half \in TransferType /\ half.phase = "Copying"
          /\ half.source = T.source /\ half.target = T.target
          /\ half.generation = T.generation /\ half.sourceStamp = T.sourceStamp
      BY <2>0 DEF TransferType, Phases
    <3>2. tree[T.source] \in [Names -> Contents]
      BY <2>0 DEF IInv, Core, Types, TransferType
    <3>3. planned = [half EXCEPT !.plan = tree[T.source]]
      OBVIOUS
    <3> HIDE DEF half, planned
    <3> QED  BY <3>1, <3>2, <3>3 DEF TransferType
  <2> HIDE DEF planned
  <2>3. /\ transfer' \in [Ids -> TransferType] /\ transfer'[P] = planned
        /\ \A i \in Ids \ {P} : transfer'[i] = transfer[i]
    BY <2>0, <2>1, <2>2 DEF IInv, Core, Types
  <2>4. UNCHANGED <<ledger, profile, used, tree, ident, dataset, stale>> /\ pc' = "own"
    BY <1>12 DEF PlanCopy, GoTo, diskVars, history
  <2>5. Types' /\ NothingRecorded'
    BY <2>0, <2>3, <2>4 DEF IInv, Core, Types, NothingRecorded
  <2>6. PendingAgrees' /\ PendingFit'
    BY <2>0, <2>2, <2>3, <2>4, IdsAreNotFiles
       DEF IInv, Core, PendingAgrees, PendingFit, P, T, Open, Resumable, Stuck, CanCopy
  <2>7. RootHoldsDataset' /\ NeverRevived' /\ StaleMarked'
    BY <2>4 DEF IInv, Core, RootHoldsDataset, Data, NeverRevived, StaleMarked, MigratedOut
  <2>8. Stages'
    BY <1>12, <2>2, <2>3, <2>4, CopyGoesOn
       DEF PlanCopy, IInv, CopyStages, Resumable, T
  <2> QED  BY <2>5, <2>6, <2>7, <2>8 DEF IInv, Core
<1>13. CASE Publish
  <2>0. entry \in Names /\ T \in TransferType
    BY <1>13, CopyTyped DEF Publish, IInv, Stages, CopyStages
  <2>1. T.target \in Roots /\ tree[T.source][entry] \in Contents
    BY <2>0 DEF IInv, Core, Types, TransferType
  <2>2. Core'
    BY <1>13, <2>0, <2>1, CopyWrites DEF Publish, CopyStages
  <2>3. Stages'
    BY <1>13, <2>0, CopyTyped, CopyGoesOn
       DEF Publish, GoTo, CopyStages, ledgerVars, CanCopy, T, IInv
  <2> QED  BY <2>2, <2>3 DEF IInv
<1>14. CASE CheckDatabases
  <2>0. ledger = "valid" /\ P \in Ids /\ P # 0 /\ T.phase \in Resumable
    BY <1>14, CopyTyped DEF CheckDatabases, CopyStages, CanCopy
  <2>1. CASE tree[T.target][Db] = "busy"
    <3>1. Core'
      BY <1>14, <2>0, <2>1, PhaseSetKeepsCore DEF CheckDatabases, Stuck, history, IInv
    <3>2. Stages'
      BY <1>14, <2>1, Halted DEF CheckDatabases, Stop
    <3> QED  BY <3>1, <3>2 DEF IInv
  <2>2. CASE tree[T.target][Db] # "busy"
    BY <1>14, <2>2, CopyMoves DEF CheckDatabases, CopyStages, GoTo, ledgerVars, history
  <2> QED  BY <2>1, <2>2
<1>15. CASE Verify
  <2>0. ledger = "valid" /\ P \in Ids /\ P # 0 /\ T.phase \in Resumable
    BY <1>15, CopyTyped DEF Verify, CopyStages, CanCopy
  <2>1. Core'
    BY <1>15, <2>0, PhaseSetKeepsCore DEF Verify, Resumable, history, diskVars, IInv
  <2>2. /\ transfer'[P].phase = "Verified" /\ transfer'[P].source = T.source
        /\ transfer'[P].generation = T.generation
    BY <1>15, <2>0, PhaseSet DEF Verify, Phases, IInv
  <2>3. Stages'
    BY <1>15, <2>2, CopyGoesOn DEF Verify, GoTo, CopyStages, Resumable, T, IInv
  <2> QED  BY <2>1, <2>3 DEF IInv
<1>16. CASE CreateMarker
  <2>0. P \in Ids /\ T \in TransferType /\ T.source \in Roots
    BY <1>16, CopyTyped DEF CreateMarker, CopyStages, TransferType
  <2>1. Core'
    BY <1>16, <2>0, IdsAreNotFiles, CopyWrites DEF CreateMarker, CopyStages, Contents
  <2>2. Stages'
    BY <1>16, <2>0, CopyTyped, CopyGoesOn
       DEF CreateMarker, GoTo, CopyStages, ledgerVars, CanCopy, T, IInv
  <2> QED  BY <2>1, <2>2 DEF IInv
<1>17. CASE WriteMarker
  <2>0. P \in Ids /\ T \in TransferType /\ T.source \in Roots /\ ledger = "valid" /\ CanCopy
    BY <1>17, CopyTyped DEF WriteMarker, CopyStages, TransferType
  <2>1. Core'
    BY <1>17, <2>0, IdsAreNotFiles, CopyWrites DEF WriteMarker, CopyStages, Contents
  <2>2. tree'[T.source][P] = "whole"
    BY <1>17, <2>0, IdsAreNotFiles DEF WriteMarker, IInv, Core, Types
  <2>3. ledger' = "valid" /\ CanCopy' /\ pc' = "activate" /\ tree'[T.source][P] # "absent"
        /\ P' = P /\ T' = T
    BY <1>17, <2>0, <2>2 DEF WriteMarker, GoTo, CanCopy, P, T, ledgerVars
  <2>4. Stages'
    BY <2>3 DEF Stages, CopyStages, HostLabels
  <2> QED  BY <2>1, <2>4 DEF IInv
<1>18. CASE FindMarker
  <2>0. P \in Ids /\ ledger = "valid" /\ CanCopy
    BY <1>18, CopyTyped DEF FindMarker, CopyStages
  <2>1. Core'
    BY <1>18, CoreKept DEF FindMarker, IInv, coreVars, ledgerVars, diskVars, history
  <2>2. ledger' = "valid" /\ CanCopy' /\ pc' = "activate" /\ tree'[T.source][P] # "absent"
        /\ P' = P /\ T' = T
    BY <1>18, <2>0 DEF FindMarker, GoTo, CanCopy, P, T, ledgerVars, diskVars
  <2>3. Stages'
    BY <2>2 DEF Stages, CopyStages, HostLabels
  <2> QED  BY <2>1, <2>3 DEF IInv
<1>19. CASE Activate
  BY <1>19, ActivateStep
<1>20. CASE GiveUp
  <2>0. pc \in CopyStages
    BY <1>20 DEF GiveUp, TargetUnfit, SourceUnfit, CopyStages
  <2>1. ledger = "valid" /\ P \in Ids /\ P # 0 /\ T.phase \in Resumable
    BY <2>0, CopyTyped DEF CanCopy
  <2>2. Core'
    BY <1>20, <2>1, PhaseSetKeepsCore DEF GiveUp, Stuck, diskVars, history, IInv
  <2>3. Stages'
    BY <1>20, Halted DEF GiveUp, Stop
  <2> QED  BY <2>2, <2>3 DEF IInv
<1> QED
  BY <1>1, <1>2, <1>3, <1>4, <1>5, <1>6, <1>7, <1>8, <1>9, <1>10, <1>11,
     <1>12, <1>13, <1>14, <1>15, <1>16, <1>17, <1>18, <1>19, <1>20 DEF Copying

-----------------------------------------------------------------------------
(* The host.                                                               *)

\* Whoever rewrites files of the directory in force, and keeps the record of it, keeps
\* the core: markers are left alone.
LEMMA RootWritten ==
  ASSUME Core, ledger = "valid", UNCHANGED <<ledgerVars, ident, stale>>,
         NEW f \in Files, NEW c \in Contents,
         tree' = [tree EXCEPT ![profile.root][f] = c],
         dataset' = [dataset EXCEPT ![f] = c]
  PROVE  Core'
<1>0. profile.root \in Roots /\ f \in Names /\ f \notin Ids
  BY IdsAreNotFiles DEF Core, Types, ProfileType
<1>1. /\ tree' \in [Roots -> [Names -> Contents]]
      /\ dataset' \in [Files -> Contents]
  BY <1>0 DEF Core, Types
<1>2. \A r \in Roots : \A i \in Ids : tree'[r][i] = tree[r][i]
  BY <1>0, IdsAreNotFiles DEF Core, Types
<1>3. \A g \in Files : tree'[profile.root][g] = dataset'[g]
  <2> TAKE g \in Files
  <2>1. tree[profile.root][g] = dataset[g]
    BY DEF Core, RootHoldsDataset, Data
  <2> QED  BY <1>0, <2>1, IdsAreNotFiles DEF Core, Types
<1>4. Types' /\ NothingRecorded' /\ PendingAgrees' /\ PendingFit' /\ NeverRevived'
  BY <1>1 DEF Core, Types, NothingRecorded, PendingAgrees, PendingFit, NeverRevived, P, T, ledgerVars
<1>5. RootHoldsDataset'
  BY <1>1, <1>3 DEF RootHoldsDataset, Data, ledgerVars
<1>6. StaleMarked'
  BY <1>2 DEF StaleMarked, MigratedOut, Core, Types
<1> QED  BY <1>4, <1>5, <1>6 DEF Core

\* The profile changes, but neither the directory in force nor what is pending.
LEMMA ProfileRefreshed ==
  ASSUME Core, ledger = "valid", UNCHANGED <<ledger, transfer, used, tree, ident, dataset, stale>>,
         profile' = [profile EXCEPT !.required = TRUE]
  PROVE  Core'
<1>1. /\ profile' \in ProfileType /\ profile'.root = profile.root
      /\ profile'.pending = profile.pending /\ profile'.generation = profile.generation
      /\ profile'.stamp = profile.stamp
  BY DEF Core, Types, ProfileType
<1>2. Types' /\ NothingRecorded' /\ PendingAgrees' /\ PendingFit'
  BY <1>1 DEF Core, Types, NothingRecorded, PendingAgrees, PendingFit, P, T
<1>3. RootHoldsDataset' /\ NeverRevived' /\ StaleMarked'
  BY <1>1 DEF Core, RootHoldsDataset, Data, NeverRevived, StaleMarked, MigratedOut
<1> QED  BY <1>2, <1>3 DEF Core

\* The pending relocation ends and the directory in force stays.
LEMMA EndedInPlace ==
  ASSUME Core, P # 0, ledger = "valid",
         NEW ph \in {"Committed", "RolledBack"}, SetPhase(ph),
         profile' = Closed \/ profile' = [Closed EXCEPT !.required = TRUE],
         UNCHANGED <<ledger, used, tree, ident, dataset, stale>>
  PROVE  Core'
<1>1. /\ Closed \in ProfileType /\ Closed.root = profile.root /\ Closed.pending = 0
  BY ClosedType DEF Core, Types
<1>2. /\ profile' \in ProfileType /\ profile'.root = profile.root /\ profile'.pending = 0
  BY <1>1 DEF ProfileType
<1>3. transfer' \in [Ids -> TransferType] /\ PendingAgrees' /\ PendingFit'
  BY <1>2, PendingClosed
<1>4. Types' /\ NothingRecorded'
  BY <1>2, <1>3 DEF Core, Types, NothingRecorded
<1>5. RootHoldsDataset' /\ NeverRevived' /\ StaleMarked'
  BY <1>2 DEF Core, RootHoldsDataset, Data, NeverRevived, StaleMarked, MigratedOut
<1> QED  BY <1>3, <1>4, <1>5 DEF Core

LEMMA RollbackStep ==
  ASSUME IInv, RollbackStartup
  PROVE  IInv'
<1>0. /\ ledger = "valid" /\ P # 0 /\ P \in Ids /\ T \in TransferType
  BY DEF RollbackStartup, OnTrial, IInv, Stages, HostLabels, Core, Types, ProfileType, P, T
<1>1. T.source \in Roots /\ T.sourceStamp \in Nat
  BY <1>0 DEF TransferType
<1>2. /\ profile' \in ProfileType /\ profile'.root = T.source /\ profile'.pending = 0
  BY <1>1, SwitchedType DEF RollbackStartup, IInv, Core, Types, ProfileType
<1>3. /\ transfer' \in [Ids -> TransferType] /\ PendingAgrees' /\ PendingFit'
  BY <1>0, <1>2, PendingClosed DEF RollbackStartup, IInv, diskVars
<1>4. /\ UNCHANGED <<ledger, used, tree, ident>> /\ dataset' = Data(T.source)
      /\ stale' = stale \ {T.source} /\ pc' = "down"
  BY DEF RollbackStartup, Stop, diskVars
<1>5. Types' /\ NothingRecorded'
  BY <1>0, <1>1, <1>2, <1>3, <1>4, IdsAreNotFiles DEF IInv, Core, Types, NothingRecorded, Data
<1>6. RootHoldsDataset' /\ NeverRevived' /\ StaleMarked'
  BY <1>2, <1>4 DEF IInv, Core, RootHoldsDataset, Data, NeverRevived, StaleMarked, MigratedOut
<1> QED  BY <1>3, <1>4, <1>5, <1>6, Halted DEF IInv, Core

LEMMA RequestStep ==
  ASSUME IInv, RequestMigration
  PROVE  IInv'
<1> DEFINE i == used + 1
<1>0. /\ ledger = "valid" /\ i \in Ids /\ P = 0 /\ profile \in ProfileType
      /\ ident[profile.root] = profile.stamp
  BY StorageAssumption DEF RequestMigration, RootUsable, IInv, Stages, HostLabels, Core, Types, Ids
<1>1. PICK target \in Roots \ {profile.root} :
        /\ Empty(target)
        /\ transfer' = [transfer EXCEPT ![i] =
             [source |-> profile.root, target |-> target, generation |-> profile.generation,
              phase |-> "Requested", plan |-> EmptyTree,
              sourceStamp |-> ident[profile.root], targetStamp |-> ident[target]]]
  BY DEF RequestMigration
<1> DEFINE new == [source |-> profile.root, target |-> target, generation |-> profile.generation,
                   phase |-> "Requested", plan |-> EmptyTree,
                   sourceStamp |-> ident[profile.root], targetStamp |-> ident[target]]
<1>2. new \in TransferType
  <2>1. EmptyTree \in [Names -> Contents]
    BY DEF EmptyTree, Contents
  <2>2. profile.root \in Roots /\ profile.generation \in Nat
        /\ ident[profile.root] \in Nat /\ ident[target] \in Nat
    BY <1>0 DEF ProfileType, IInv, Core, Types
  <2> QED  BY <2>1, <2>2 DEF TransferType, Phases
<1>3. /\ new.source = profile.root /\ new.target = target /\ new.phase = "Requested"
      /\ new.generation = profile.generation /\ new.sourceStamp = profile.stamp
  BY <1>0
<1> HIDE DEF new
<1>4. /\ transfer' \in [Ids -> TransferType] /\ transfer'[i] = new
      /\ \A j \in Ids \ {i} : transfer'[j] = transfer[j]
  BY <1>0, <1>1, <1>2 DEF IInv, Core, Types, new
<1>5. /\ profile' \in ProfileType /\ profile'.pending = i /\ profile'.root = profile.root
      /\ profile'.generation = profile.generation /\ profile'.stamp = profile.stamp
  BY <1>0 DEF RequestMigration, ProfileType
<1>6. UNCHANGED <<ledger, tree, ident, dataset, stale>> /\ used' = i /\ pc' = "exiting"
  BY DEF RequestMigration, GoTo, diskVars
<1>7. target \notin stale
  BY <1>1, IdsAreNotFiles DEF Empty, EmptyTree, IInv, Core, StaleMarked, MigratedOut
<1>8. Types' /\ NothingRecorded'
  BY <1>0, <1>4, <1>5, <1>6 DEF IInv, Core, Types, NothingRecorded, Ids
<1>9. PendingAgrees'
  <2>1. \A j \in Ids : j # i => transfer'[j].phase \notin Open
    BY <1>0, <1>4, IdsAreNotFiles DEF IInv, Core, PendingAgrees
  <2>2. P' = i /\ T' = new
    BY <1>4, <1>5 DEF P, T
  <2> HIDE DEF i
  <2> QED  BY <1>3, <1>5, <2>1, <2>2 DEF PendingAgrees, Resumable
<1>10. PendingFit'
  BY <1>0, <1>3, <1>4, <1>5, <1>6, <1>7 DEF PendingFit, P, T
<1>11. RootHoldsDataset' /\ NeverRevived' /\ StaleMarked'
  BY <1>5, <1>6 DEF IInv, Core, RootHoldsDataset, Data, NeverRevived, StaleMarked, MigratedOut
<1>12. Stages'
  BY <1>0, <1>6, Hosted DEF HostLabels
<1> QED  BY <1>8, <1>9, <1>10, <1>11, <1>12 DEF IInv, Core

Hosting == Opening \/ Exit \/ HostWrite \/ RequestMigration \/ CancelRequested
           \/ RollbackStartup \/ AbandonFailed

LEMMA HostingStep ==
  ASSUME IInv, Hosting
  PROVE  IInv'
<1>1. CASE OpenDatabases
  <2>0. ledger = "valid" /\ profile.root \in Roots /\ ledger' = "valid"
    BY <1>1 DEF OpenDatabases, IInv, Stages, HostLabels, Core, Types, ProfileType, ledgerVars
  <2>1. tree[profile.root][Db] = dataset[Db]
    BY <2>0, IdsAreNotFiles DEF IInv, Core, RootHoldsDataset, Data
  <2>2. Stages'
    BY <1>1, <2>0, Hosted DEF OpenDatabases, GoTo, HostLabels
  <2>3. CASE dataset[Db] \in Settled
    <3>1. Core'
      BY <1>1, <2>1, <2>3, CoreKept DEF OpenDatabases, IInv, coreVars, ledgerVars
    <3> QED  BY <2>2, <3>1 DEF IInv
  <2>4. CASE dataset[Db] \notin Settled
    <3>1. "a" \in Contents
      BY DEF Contents, Settled
    <3>2. Core'
      BY <1>1, <2>0, <2>1, <2>4, <3>1, IdsAreNotFiles, RootWritten DEF OpenDatabases, IInv
    <3> QED  BY <2>2, <3>2 DEF IInv
  <2> QED  BY <2>3, <2>4
<1>2. CASE MarkInitialized
  <2>0. ledger = "valid"
    BY <1>2 DEF MarkInitialized, IInv, Stages, HostLabels
  <2>1. Core'
    BY <1>2, <2>0, ProfileRefreshed DEF MarkInitialized, IInv, diskVars, history
  <2>2. Stages'
    BY <1>2, <2>0, Hosted DEF MarkInitialized, GoTo, HostLabels
  <2> QED  BY <2>1, <2>2 DEF IInv
<1>3. CASE CommitStartup
  <2>0. ledger = "valid" /\ P # 0
    BY <1>3 DEF CommitStartup, OnTrial, IInv, Stages, HostLabels
  <2>1. Core'
    BY <1>3, <2>0, EndedInPlace DEF CommitStartup, IInv, diskVars, history
  <2>2. Stages'
    BY <1>3, <2>0, Hosted DEF CommitStartup, GoTo, HostLabels
  <2> QED  BY <2>1, <2>2 DEF IInv
<1>4. CASE Exit
  <2>1. Core'
    BY <1>4, CoreKept DEF Exit, IInv, coreVars, ledgerVars, diskVars, history
  <2>2. Stages'
    BY <1>4, Halted DEF Exit, Stop
  <2> QED  BY <2>1, <2>2 DEF IInv
<1>5. CASE HostWrite
  <2>0. ledger = "valid" /\ ledger' = "valid" /\ pc' = "host"
    BY <1>5 DEF HostWrite, IInv, Stages, HostLabels, ledgerVars, pcVars
  <2>1. PICK f \in Files, c \in Contents :
          /\ tree' = [tree EXCEPT ![profile.root][f] = c]
          /\ dataset' = [dataset EXCEPT ![f] = c]
    BY <1>5 DEF HostWrite, Contents, Settled
  <2>2. Core'
    BY <1>5, <2>0, <2>1, RootWritten DEF HostWrite, IInv
  <2>3. Stages'
    BY <2>0, Hosted DEF HostLabels
  <2> QED  BY <2>2, <2>3 DEF IInv
<1>6. CASE RequestMigration
  BY <1>6, RequestStep
<1>7. CASE CancelRequested
  <2>0. ledger = "valid" /\ P # 0
    BY <1>7 DEF CancelRequested, IInv, Stages, HostLabels
  <2>1. Core'
    BY <1>7, <2>0, EndedInPlace DEF CancelRequested, IInv, diskVars, history
  <2>2. Stages'
    BY <1>7, <2>0, Hosted DEF CancelRequested, GoTo, HostLabels
  <2> QED  BY <2>1, <2>2 DEF IInv
<1>8. CASE RollbackStartup
  BY <1>8, RollbackStep
<1>9. CASE AbandonFailed
  <2>1. Core'
    BY <1>9, EndedInPlace DEF AbandonFailed, IInv, diskVars, history
  <2>2. Stages'
    BY <1>9, Halted DEF AbandonFailed, pcVars
  <2> QED  BY <2>1, <2>2 DEF IInv
<1> QED
  BY <1>1, <1>2, <1>3, <1>4, <1>5, <1>6, <1>7, <1>8, <1>9 DEF Hosting, Opening

-----------------------------------------------------------------------------
(* Crashes, and what others do.                                            *)

LEMMA FailsStep ==
  ASSUME IInv, CopyFails
  PROVE  IInv'
<1>1. ledger = "valid" /\ P \in Ids /\ P # 0 /\ T.phase \in Resumable
  BY CopyTyped DEF CopyFails, CanCopy
<1>2. Core'
  BY <1>1, PhaseSetKeepsCore DEF CopyFails, Stuck, IInv
<1>3. Stages'
  BY Halted DEF CopyFails, Stop
<1> QED  BY <1>2, <1>3 DEF IInv

LEMMA CrashStep ==
  ASSUME IInv, Crash
  PROVE  IInv'
<1>1. Stages'
  BY Halted DEF Crash, Stop
<1>2. CASE UNCHANGED <<tree, dataset>>
  <2>1. Core'
    BY <1>2, CoreKept DEF Crash, IInv, coreVars, ledgerVars
  <2> QED  BY <1>1, <2>1 DEF IInv
<1>3. CASE /\ pc = "host"
           /\ tree' = [tree EXCEPT ![profile.root][Db] = "busy"]
           /\ dataset' = [dataset EXCEPT ![Db] = "busy"]
  <2>1. ledger = "valid" /\ "busy" \in Contents
    BY <1>3 DEF IInv, Stages, HostLabels, Contents
  <2>2. Core'
    BY <1>3, <2>1, IdsAreNotFiles, RootWritten DEF Crash, IInv
  <2> QED  BY <1>1, <2>2 DEF IInv
<1> QED  BY <1>2, <1>3 DEF Crash

LEMMA EditStep ==
  ASSUME IInv, NEW r \in Roots, NEW f \in Files, EditFile(r, f)
  PROVE  IInv'
<1>0. /\ UNCHANGED <<ledgerVars, ident, stale>> /\ pc' = "down"
      /\ dataset' = IF ledger = "valid" THEN [g \in Files |-> tree'[profile.root][g]] ELSE dataset
  BY DEF EditFile, ByOthers, Noticed, pcVars
<1>1. PICK c \in Contents : tree' = [tree EXCEPT ![r][f] = c]
  BY DEF EditFile, FileContents, Contents
<1>2. tree' \in [Roots -> [Names -> Contents]]
  BY <1>1 DEF IInv, Core, Types
<1>3. \A s \in Roots : \A i \in Ids : tree'[s][i] = tree[s][i]
  BY <1>1, IdsAreNotFiles DEF IInv, Core, Types
<1>4. dataset' \in [Files -> Contents]
  BY <1>0, <1>2, IdsAreNotFiles DEF IInv, Core, Types, ProfileType
<1>5. Types' /\ NothingRecorded' /\ PendingAgrees' /\ PendingFit' /\ NeverRevived'
  BY <1>0, <1>2, <1>4
     DEF IInv, Core, Types, NothingRecorded, PendingAgrees, PendingFit, NeverRevived, P, T, ledgerVars
<1>6. RootHoldsDataset'
  BY <1>0 DEF RootHoldsDataset, Data, ledgerVars
<1>7. StaleMarked'
  BY <1>0, <1>3 DEF StaleMarked, MigratedOut, IInv, Core, Types
<1> QED  BY <1>0, <1>5, <1>6, <1>7, Halted DEF IInv, Core

LEMMA EmptyStep ==
  ASSUME IInv, NEW r \in Roots, EmptyRoot(r)
  PROVE  IInv'
<1>0. /\ UNCHANGED ledgerVars /\ stale' = stale \ {r} /\ pc' = "down"
      /\ dataset' = IF ledger = "valid" THEN [g \in Files |-> tree'[profile.root][g]] ELSE dataset
      /\ tree' = [tree EXCEPT ![r] = EmptyTree]
  BY DEF EmptyRoot, ByOthers, Noticed, pcVars
<1>1. ident' \in [Roots -> Nat]
  BY DEF EmptyRoot, IInv, Core, Types
<1>2. tree' \in [Roots -> [Names -> Contents]]
  BY <1>0 DEF EmptyTree, Contents, IInv, Core, Types
<1>3. \A s \in Roots \ {r} : tree'[s] = tree[s]
  BY <1>0 DEF IInv, Core, Types
<1>4. dataset' \in [Files -> Contents]
  BY <1>0, <1>2, IdsAreNotFiles DEF IInv, Core, Types, ProfileType
<1>5. Types' /\ NothingRecorded' /\ PendingAgrees' /\ PendingFit' /\ NeverRevived'
  BY <1>0, <1>1, <1>2, <1>4
     DEF IInv, Core, Types, NothingRecorded, PendingAgrees, PendingFit, NeverRevived, P, T, ledgerVars
<1>6. RootHoldsDataset'
  BY <1>0 DEF RootHoldsDataset, Data, ledgerVars
<1>7. StaleMarked'
  BY <1>0, <1>3 DEF StaleMarked, MigratedOut, IInv, Core, Types
<1> QED  BY <1>0, <1>5, <1>6, <1>7, Halted DEF IInv, Core

LEMMA LoseStep ==
  ASSUME IInv, LoseLedger
  PROVE  IInv'
<1>0. /\ ledger' = "missing" /\ profile' = NoProfile /\ transfer' = [i \in Ids |-> NoTransfer]
      /\ UNCHANGED <<used, tree, ident, dataset, stale>> /\ pc' = "down"
  BY DEF LoseLedger, ByOthers, diskVars, pcVars, history
<1>1. NoProfile \in ProfileType
  BY DEF NoProfile, ProfileType, Roots
<1>2. NoTransfer \in TransferType /\ NoTransfer.phase = "Idle"
  BY DEF NoTransfer, TransferType, Roots, Phases, EmptyTree, Contents
<1>3. Types' /\ NothingRecorded'
  BY <1>0, <1>1, <1>2 DEF IInv, Core, Types, NothingRecorded, Open, Resumable, Stuck
<1>4. PendingAgrees' /\ PendingFit' /\ RootHoldsDataset' /\ NeverRevived' /\ StaleMarked'
  BY <1>0 DEF IInv, Core, PendingAgrees, PendingFit, RootHoldsDataset, NeverRevived, StaleMarked,
              MigratedOut
<1> QED  BY <1>0, <1>3, <1>4, Halted DEF IInv, Core

-----------------------------------------------------------------------------
(* The induction, and what follows.                                        *)

LEMMA InitIInv ==
  ASSUME Init
  PROVE  IInv
<1>1. NoProfile \in ProfileType
  BY DEF NoProfile, ProfileType, Roots
<1>2. NoTransfer \in TransferType /\ NoTransfer.phase = "Idle"
  BY DEF NoTransfer, TransferType, Roots, Phases, EmptyTree, Contents
<1>3. transfer \in [Ids -> TransferType] /\ \A i \in Ids : transfer[i].phase \notin Open
  BY <1>2 DEF Init, Open, Resumable, Stuck
<1>4. tree \in [Roots -> [Names -> Contents]]
  BY DEF Init, Contents, Settled
<1>5. /\ ledger = "missing" /\ profile \in ProfileType /\ used \in 0..MaxTransfers
      /\ ident \in [Roots -> Nat] /\ dataset \in [Files -> Contents] /\ stale = {} /\ pc = "down"
  BY <1>1, StorageAssumption DEF Init, Contents
<1> QED
  BY <1>3, <1>4, <1>5 DEF IInv, Core, Types, NothingRecorded, PendingAgrees, PendingFit,
     RootHoldsDataset, NeverRevived, StaleMarked, Stages, CopyStages, HostLabels

LEMMA NextIInv ==
  ASSUME IInv, [Next]_vars
  PROVE  IInv'
<1>1. CASE UNCHANGED vars
  <2>1. Core'
    BY <1>1, CoreKept DEF IInv, vars, coreVars, ledgerVars, diskVars, history
  <2>2. Stages'
    BY <1>1 DEF IInv, Stages, CanCopy, MayInitialize, MigratedOut, HasData, Empty, P, T, CopyStages,
                HostLabels, vars, ledgerVars, diskVars, pcVars
  <2> QED  BY <2>1, <2>2 DEF IInv
<1>2. CASE Others
  BY <1>2, EditStep, EmptyStep, LoseStep DEF Others
<1> QED
  BY <1>1, <1>2, StartingStep, CopyingStep, HostingStep, FailsStep, CrashStep DEF Next, Onward, Hosting

LEMMA AlwaysIInv == Spec => []IInv
<1>1. Init => IInv
  BY InitIInv
<1>2. IInv /\ [Next]_vars => IInv'
  BY NextIInv
<1> QED
  BY <1>1, <1>2, PTL DEF Spec

\* The ledger's profile and its transfers never contradict each other, whichever
\* transaction of a relocation was the last one before a crash.
THEOREM LedgerAgrees == Spec => []PendingAgrees
<1>1. IInv => PendingAgrees
  BY DEF IInv, Core
<1> QED
  BY <1>1, AlwaysIInv, PTL

\* No relocation loses or changes a file: perform_copy switches only to a directory
\* that holds what the one in force holds at that moment.
THEOREM NothingLost == Spec => []RootHoldsDataset
<1>1. IInv => RootHoldsDataset
  BY DEF IInv, Core
<1> QED
  BY <1>1, AlwaysIInv, PTL

\* A directory left behind is never in force again, though the ledger may be lost at any
\* time: its marker is written before the switch and read before a ledger is created.
THEOREM NoRevival == Spec => []NeverRevived
<1>1. IInv => NeverRevived
  BY DEF IInv, Core
<1> QED
  BY <1>1, AlwaysIInv, PTL

-----------------------------------------------------------------------------
(* The remaining types, and where the process may be.                      *)

WorkType == [id: {0} \cup Ids, owner: BOOLEAN, scratch: BOOLEAN,
             temp: [Names -> {"none", "untracked", "tracked"}]]

Rest ==
  /\ work \in [Roots -> WorkType]
  /\ pc \in Labels /\ entry \in 0..(LastName + 1)
  /\ blame \subseteq {"torn", "edit", "error"}
  /\ crashes \in 0..MaxCrashes /\ edits \in 0..MaxEdits

LEMMA TypesAndRest == Types /\ Rest <=> TypeOK
BY DEF TypeOK, Types, Rest, ProfileType, TransferType, WorkType

Writing == CopyStages \ {"roots", "plan", "own"}

\* Where the process may be, given the phase on record and what it finds on disk.
Places ==
  /\ pc = "plan" => T.phase = "Requested"
  /\ pc \in {"own", "owner", "check"} => T.phase \in {"Copying", "Verified"}
  /\ pc \in {"entry", "track", "publish", "unlink", "quickcheck", "verify"} => T.phase = "Copying"
  /\ pc \in {"mark", "marker", "activate"} => T.phase = "Verified"
  /\ pc \in Writing => work[T.target].id = P
  /\ pc \in Writing \ {"owner", "check"} => work[T.target].owner
  /\ pc \in {"starting", "opened"} => P = 0 \/ T.phase = "Activated"
  /\ pc = "host" => P = 0
  /\ pc \in {"opened", "host", "exiting"} => tree[profile.root][Db] \in Settled

\* No directory has the marker of a relocation still to be requested.
Fresh ==
  /\ P <= used
  /\ \A r \in Roots : \A i \in Ids : i > used => tree[r][i] = "absent"

\* Without changes by others the directories keep their identity and their database.
Untouched ==
  ledger = "valid" /\ edits = 0 =>
    /\ RootUsable
    /\ P # 0 =>
         /\ SameRoots /\ profile.required /\ HasData(T.source)
         /\ T.phase = "Activated" => work[T.target].id = P /\ work[T.target].owner

\* A set of numbers has a least one: the library's induction over Nat, without a predicate.
LEMMA LeastExists ==
  ASSUME NEW S \in SUBSET Nat, S # {}
  PROVE  Least(S) \in S /\ \A k \in S : Least(S) <= k
<1> DEFINE R == OpToRel(<, Nat)
<1>1. IsWellFoundedOn(R, Nat)
  BY NatLessThanWellFounded
<1>2. \A a, b \in Nat : a < b => <<a, b>> \in R
  BY DEF OpToRel
<1> HIDE DEF R
<1>3. PICK m \in S : \A k \in S : <<k, m>> \notin R
  BY <1>1, WFMin
<1>4. \A k \in S : m <= k
  <2> SUFFICES ASSUME NEW k \in S, ~(m <= k)
               PROVE  FALSE
    OBVIOUS
  <2>1. k < m
    OBVIOUS
  <2> QED
    BY <1>2, <1>3, <2>1
<1> QED
  BY <1>4 DEF Least

LEMMA NamesAreNumbers ==
  /\ Names \subseteq 1..LastName /\ LastName \in Nat /\ Db \in Nat
  /\ LastName + 1 \notin Names
BY StorageAssumption DEF Names, Ids, Files, LastName, Db

\* The copy proceeds to the next planned entry, or past the last one.
LEMMA FollowingIsNext ==
  ASSUME NEW n \in Nat
  PROVE  /\ Following(n) \in Entries \cup {LastName + 1}
         /\ Following(n) \in 0..(LastName + 1)
         /\ \A m \in Entries : m < Following(n) => m <= n
         /\ n <= LastName => n < Following(n)
<1> DEFINE S == {m \in Entries : m > n} \cup {LastName + 1}
<1>0. LastName + 1 \in Nat /\ LastName \in Nat
  BY NamesAreNumbers
<1>7. \A m \in Entries : m \in Nat /\ m <= LastName
  BY <1>0, NamesAreNumbers DEF Entries
<1>1. S \in SUBSET Nat /\ S # {}
  BY <1>0, <1>7
<1>2. Least(S) \in S /\ \A k \in S : Least(S) <= k
  BY <1>1, LeastExists
<1>3. Following(n) = Least(S)
  BY DEF Following
<1> HIDE DEF S
<1>4. Following(n) \in S /\ \A k \in S : Following(n) <= k
  BY <1>2, <1>3
<1> USE DEF S
<1>5. ASSUME NEW m \in Entries, m < Following(n)
      PROVE  m <= n
  <2>1. m > n => m \in S
    OBVIOUS
  <2>2. m \in Nat /\ Following(n) \in Nat
    BY <1>1, <1>4, <1>7
  <2>3. ~(m > n)
    BY <1>4, <1>5, <2>1, <2>2
  <2> QED  BY <2>2, <2>3
<1>6. Following(n) \in 0..(LastName + 1)
  BY <1>0, <1>4, <1>7
<1>8. n <= LastName => n < Following(n)
  BY <1>0, <1>4, <1>7
<1> QED
  BY <1>4, <1>5, <1>6, <1>8

LEMMA WorkTyped ==
  ASSUME Rest, NEW r \in Roots, NEW w \in WorkType,
         work' = [work EXCEPT ![r] = w]
  PROVE  work' \in [Roots -> WorkType]
BY DEF Rest

\* One entry of a control directory's list of temporaries is changed.
LEMMA TempTyped ==
  ASSUME Rest, NEW r \in Roots, NEW n \in Names, NEW t \in {"none", "untracked", "tracked"},
         work' = [work EXCEPT ![r].temp[n] = t]
  PROVE  work' \in [Roots -> WorkType]
<1>1. [work[r] EXCEPT !.temp[n] = t] \in WorkType
  BY DEF Rest, WorkType
<1>2. work' = [work EXCEPT ![r] = [work[r] EXCEPT !.temp[n] = t]]
  BY DEF Rest
<1> QED  BY <1>1, <1>2, WorkTyped

LEMMA PlaceTyped ==
  ASSUME IInv, Rest, Next
  PROVE  pc' \in Labels /\ entry' \in 0..(LastName + 1)
<1> USE DEF GoTo, Stop, Labels
<1>0. /\ 0 \in 0..(LastName + 1) /\ entry \in 0..(LastName + 1)
      /\ entry \in Nat
  BY NamesAreNumbers DEF Rest
<1>1. CASE Starting
  BY <1>0, <1>1 DEF Starting, Start, Reserve, CreateProfile, ResumeCopy, EnterRoot, Refuse
<1>2. CASE BeginEntries \/ KeepEntry \/ Unlink
  <2>1. entry' \in {Following(0), Following(entry)} /\ pc' = "entry"
    BY <1>2 DEF BeginEntries, KeepEntry, Unlink
  <2>2. entry' \in 0..(LastName + 1)
    BY <1>0, <2>1, FollowingIsNext
  <2> QED  BY <2>1, <2>2
<1>3. CASE \/ CheckRoots \/ PlanCopy \/ CreateWork \/ WriteOwner \/ FindWork
           \/ SkipEntries \/ CreateTemp \/ TrackTemp \/ Publish
           \/ MakeScratch \/ CheckDatabases
  BY <1>0, <1>3 DEF CheckRoots, PlanCopy, CreateWork, WriteOwner, FindWork, SkipEntries, CreateTemp,
                    TrackTemp, Publish, MakeScratch, CheckDatabases
<1>4. CASE Verify \/ CreateMarker \/ WriteMarker \/ FindMarker \/ Activate \/ GiveUp
  BY <1>0, <1>4 DEF Verify, CreateMarker, WriteMarker, FindMarker, Activate, GiveUp
<1>5. CASE Hosting
  BY <1>0, <1>5 DEF Hosting, Opening, OpenDatabases, MarkInitialized, CommitStartup, Exit, HostWrite,
                    RequestMigration, CancelRequested, RollbackStartup, AbandonFailed, pcVars, Rest
<1>6. CASE CopyFails \/ Crash \/ Others
  BY <1>0, <1>6 DEF CopyFails, Crash, Others, EditFile, EmptyRoot, LoseLedger, ByOthers, pcVars
<1> QED
  BY <1>1, <1>2, <1>3, <1>4, <1>5, <1>6 DEF Next, Onward, Copying, Hosting

LEMMA WorkStaysTyped ==
  ASSUME IInv, Rest, Next
  PROVE  work' \in [Roots -> WorkType]
<1>0. work \in [Roots -> WorkType]
  BY DEF Rest
<1>1. NoWork \in WorkType
  BY DEF NoWork, WorkType
<1>2. CASE UNCHANGED work
  BY <1>0, <1>2
<1>3. ASSUME pc \in CopyStages
      PROVE  T.target \in Roots /\ P \in Ids
  BY <1>3, CopyTyped DEF TransferType
<1>4. CASE CreateWork
  <2>1. [NoWork EXCEPT !.id = P] \in WorkType
    BY <1>1, <1>3, <1>4 DEF CreateWork, CopyStages, WorkType
  <2> QED  BY <1>3, <1>4, <2>1, WorkTyped DEF CreateWork, CopyStages
<1>5. CASE WriteOwner
  BY <1>0, <1>3, <1>5 DEF WriteOwner, CopyStages, WorkType
<1>6. CASE MakeScratch
  <2> DEFINE b == Db \in Entries
  <2>1. b \in BOOLEAN /\ work' = [work EXCEPT ![T.target].scratch = b]
    BY <1>6 DEF MakeScratch
  <2>2. T.target \in Roots
    BY <1>3, <1>6 DEF MakeScratch, CopyStages
  <2> HIDE DEF b
  <2> QED  BY <1>0, <2>1, <2>2 DEF WorkType
<1>7. CASE CheckDatabases
  BY <1>0, <1>3, <1>7 DEF CheckDatabases, CopyStages, WorkType
<1>8. CASE KeepEntry
  BY <1>3, <1>8, TempTyped DEF KeepEntry, Copied, CopyStages
<1>9. CASE CreateTemp
  BY <1>3, <1>9, TempTyped DEF CreateTemp, CopyStages
<1>10. CASE TrackTemp
  BY <1>3, <1>10, TempTyped DEF TrackTemp, CopyStages, IInv, Stages
<1>11. CASE Unlink
  BY <1>3, <1>11, TempTyped DEF Unlink, CopyStages, IInv, Stages
<1>12. CASE \E r \in Roots : EmptyRoot(r)
  BY <1>1, <1>12, WorkTyped DEF EmptyRoot
<1>13. CASE Starting \/ CheckRoots \/ PlanCopy \/ FindWork \/ BeginEntries \/ SkipEntries \/ Publish
  BY <1>2, <1>13 DEF Starting, Start, Reserve, CreateProfile, ResumeCopy, EnterRoot, Refuse,
                     CheckRoots, PlanCopy, FindWork, BeginEntries, SkipEntries, Publish, diskVars
<1>14. CASE Verify \/ CreateMarker \/ WriteMarker \/ FindMarker \/ Activate \/ GiveUp
  BY <1>2, <1>14 DEF Verify, CreateMarker, WriteMarker, FindMarker, Activate, GiveUp, diskVars
<1>15. CASE Hosting \/ Crash \/ LoseLedger \/ \E r \in Roots, f \in Files : EditFile(r, f)
  BY <1>2, <1>15
     DEF Hosting, Opening, OpenDatabases, MarkInitialized, CommitStartup, Exit, HostWrite,
         RequestMigration, CancelRequested, RollbackStartup, AbandonFailed, Crash, LoseLedger,
         EditFile, diskVars
<1>16. CASE CopyFails
  BY <1>0, <1>3, <1>16 DEF CopyFails, WorkType
<1> QED
  BY <1>4, <1>5, <1>6, <1>7, <1>8, <1>9, <1>10, <1>11, <1>12, <1>13, <1>14, <1>15, <1>16
     DEF Next, Onward, Copying, Hosting, Others

LEMMA CountsTyped ==
  ASSUME Rest, Next
  PROVE  /\ blame' \subseteq {"torn", "edit", "error"}
         /\ crashes' \in 0..MaxCrashes /\ edits' \in 0..MaxEdits
<1>0. /\ blame \subseteq {"torn", "edit", "error"} /\ crashes \in 0..MaxCrashes
      /\ edits \in 0..MaxEdits
  BY DEF Rest
<1>1. CASE UNCHANGED <<blame, bounds>>
  BY <1>0, <1>1 DEF bounds
<1>2. CASE RequestMigration
  BY <1>0, <1>2 DEF RequestMigration, bounds
<1>3. CASE CopyFails \/ Crash
  BY <1>0, <1>3, StorageAssumption DEF CopyFails, Crash
<1>4. CASE Others
  BY <1>0, <1>4, StorageAssumption DEF Others, EditFile, EmptyRoot, LoseLedger, ByOthers, BlameOthers, history
<1>5. CASE Starting \/ Hosting
  BY <1>1, <1>2, <1>5
     DEF Starting, Start, Reserve, CreateProfile, ResumeCopy, EnterRoot, Refuse,
         Hosting, Opening, OpenDatabases, MarkInitialized, CommitStartup, Exit, HostWrite,
         CancelRequested, RollbackStartup, AbandonFailed, history
<1>6. CASE Copying
  BY <1>1, <1>6
     DEF Copying, CheckRoots, PlanCopy, CreateWork, WriteOwner, FindWork, BeginEntries, SkipEntries,
         KeepEntry, CreateTemp, TrackTemp, Publish, Unlink, MakeScratch, CheckDatabases, Verify,
         CreateMarker, WriteMarker, FindMarker, Activate, GiveUp, history
<1> QED
  BY <1>3, <1>4, <1>5, <1>6 DEF Next, Onward, Hosting

LEMMA RestStep ==
  ASSUME IInv, Rest, [Next]_vars
  PROVE  Rest'
<1>1. CASE UNCHANGED vars
  BY <1>1 DEF Rest, vars, diskVars, pcVars, history, bounds
<1> QED
  BY <1>1, PlaceTyped, WorkStaysTyped, CountsTyped DEF Rest

LEMMA PlacesStep ==
  ASSUME IInv, Rest, Places, [Next]_vars
  PROVE  Places'
<1> DEFINE Still == {"down", "initialize", "create", "resolve", "roots"}
<1>0. ASSUME pc' \in Still
      PROVE  Places'
  BY <1>0 DEF Places, Writing, CopyStages
<1>1. CASE Start \/ Reserve \/ CreateProfile \/ ResumeCopy \/ Refuse \/ Activate \/ GiveUp
  BY <1>0, <1>1 DEF Start, Reserve, CreateProfile, ResumeCopy, Refuse, Activate, GiveUp, GoTo, Stop
<1>2. CASE Exit \/ RollbackStartup \/ AbandonFailed \/ CopyFails \/ Crash \/ Others
  BY <1>0, <1>2 DEF Exit, RollbackStartup, AbandonFailed, CopyFails, Crash, Others, EditFile, EmptyRoot,
                    LoseLedger, ByOthers, Stop, pcVars
<1>3. ASSUME pc \in CopyStages
      PROVE  /\ T.target \in Roots /\ T.source \in Roots /\ P \in Ids /\ P # 0
             /\ T.phase \in Resumable
             /\ work \in [Roots -> WorkType] /\ transfer \in [Ids -> TransferType]
  BY <1>3, CopyTyped DEF TransferType, CanCopy, Rest, IInv, Core, Types
<1>4. ASSUME UNCHANGED ledgerVars
      PROVE  P' = P /\ T' = T /\ profile' = profile
  BY <1>4 DEF ledgerVars, P, T
<1>5. CASE EnterRoot
  BY <1>4, <1>5 DEF EnterRoot, GoTo, CanTry, CanHost, Places, Writing, CopyStages
<1>6. CASE CheckRoots
  BY <1>3, <1>4, <1>6 DEF CheckRoots, GoTo, Places, Writing, CopyStages, Resumable
<1>7. CASE PlanCopy
  <2>1. P' = P /\ T'.phase = "Copying" /\ pc' = "own"
    BY <1>3, <1>7 DEF PlanCopy, GoTo, P, T, CopyStages, TransferType
  <2> QED  BY <2>1 DEF Places, Writing, CopyStages
<1>8. CASE CreateWork
  <2>1. work'[T.target].id = P
    BY <1>3, <1>8 DEF CreateWork, CopyStages, NoWork
  <2> QED  BY <1>4, <1>8, <2>1 DEF CreateWork, GoTo, Places, Writing, CopyStages
<1>9. CASE WriteOwner
  <2>1. work'[T.target].id = P
    BY <1>3, <1>9 DEF WriteOwner, CopyStages, Places, Writing, WorkType
  <2> QED  BY <1>4, <1>9, <2>1 DEF WriteOwner, GoTo, Places, Writing, CopyStages
<1>10. CASE FindWork
  BY <1>4, <1>10 DEF FindWork, GoTo, Places, Writing, CopyStages, diskVars
<1>11. CASE BeginEntries \/ SkipEntries
  BY <1>4, <1>11 DEF BeginEntries, SkipEntries, GoTo, Places, Writing, CopyStages, diskVars
<1>12. CASE KeepEntry \/ CreateTemp \/ TrackTemp \/ Unlink \/ MakeScratch
  <2>1. /\ work'[T.target].id = work[T.target].id
        /\ work'[T.target].owner = work[T.target].owner
    BY <1>3, <1>12 DEF KeepEntry, CreateTemp, TrackTemp, Unlink, MakeScratch, CopyStages, WorkType
  <2>2. /\ UNCHANGED ledgerVars
        /\ pc \in {"entry", "track", "unlink"}
        /\ pc' \in {"entry", "track", "publish", "quickcheck"}
    BY <1>12 DEF KeepEntry, CreateTemp, TrackTemp, Unlink, MakeScratch, GoTo
  <2> QED  BY <1>4, <2>1, <2>2 DEF Places, Writing, CopyStages
<1>13. CASE Publish
  BY <1>4, <1>13 DEF Publish, GoTo, Places, Writing, CopyStages
<1>14. CASE CheckDatabases
  <2>1. CASE tree[T.target][Db] = "busy"
    BY <1>0, <1>14, <2>1 DEF CheckDatabases, Stop
  <2>2. CASE tree[T.target][Db] # "busy"
    <3>1. /\ work'[T.target].id = work[T.target].id
          /\ work'[T.target].owner = work[T.target].owner
      BY <1>3, <1>14 DEF CheckDatabases, CopyStages, WorkType
    <3>2. pc' = "verify" /\ P' = P /\ T' = T
      BY <1>14, <2>2 DEF CheckDatabases, GoTo, P, T
    <3> QED  BY <1>14, <3>1, <3>2 DEF CheckDatabases, Places, Writing, CopyStages
  <2> QED  BY <2>1, <2>2
<1>15. CASE Verify
  <2>1. P' = P /\ T'.phase = "Verified" /\ T'.target = T.target /\ pc' = "mark" /\ work' = work
    BY <1>3, <1>15 DEF Verify, SetPhase, GoTo, P, T, CopyStages, TransferType, diskVars
  <2> QED  BY <1>15, <2>1 DEF Verify, Places, Writing, CopyStages
<1>16. CASE CreateMarker \/ WriteMarker \/ FindMarker
  BY <1>4, <1>16 DEF CreateMarker, WriteMarker, FindMarker, GoTo, Places, Writing, CopyStages, diskVars
<1>17. CASE OpenDatabases
  <2>1. profile.root \in Roots /\ "a" \in Settled
    BY DEF IInv, Core, Types, ProfileType, Settled
  <2>2. tree'[profile.root][Db] \in Settled
    BY <1>17, <2>1, IdsAreNotFiles DEF OpenDatabases, IInv, Core, Types
  <2> QED  BY <1>4, <1>17, <2>2 DEF OpenDatabases, GoTo, Places, Writing, CopyStages
<1>18. CASE MarkInitialized \/ CommitStartup \/ CancelRequested
  <2>1. pc' = "host" /\ P' = 0 /\ profile'.root = profile.root /\ tree' = tree /\ P \in {0} \cup Ids
    BY <1>18 DEF MarkInitialized, CommitStartup, CancelRequested, GoTo, P, Closed, diskVars,
                 IInv, Core, Types, ProfileType
  <2>2. pc \in {"opened", "exiting"}
    BY <1>18 DEF MarkInitialized, CommitStartup, CancelRequested
  <2> QED  BY <2>1, <2>2 DEF Places, Writing, CopyStages
<1>19. CASE HostWrite
  <2>1. PICK f \in Files : \E c \in (IF f = Db THEN Settled ELSE Settled \cup {"absent"}) :
          tree' = [tree EXCEPT ![profile.root][f] = c]
    BY <1>19 DEF HostWrite
  <2>2. profile.root \in Roots /\ tree[profile.root][Db] \in Settled
    BY <1>19 DEF HostWrite, Places, IInv, Core, Types, ProfileType
  <2>3. tree'[profile.root][Db] \in Settled
    BY <2>1, <2>2, IdsAreNotFiles DEF IInv, Core, Types
  <2> QED  BY <1>4, <1>19, <2>3 DEF HostWrite, pcVars, Places, Writing, CopyStages
<1>20. CASE RequestMigration
  <2>1. profile'.root = profile.root
    BY <1>20 DEF RequestMigration, IInv, Core, Types, ProfileType
  <2> QED  BY <1>20, <2>1 DEF RequestMigration, GoTo, Places, Writing, CopyStages, diskVars
<1>21. CASE UNCHANGED vars
  BY <1>4, <1>21 DEF vars, diskVars, pcVars, Places, Writing, CopyStages
<1> QED
  BY <1>1, <1>2, <1>5, <1>6, <1>7, <1>8, <1>9, <1>10, <1>11, <1>12, <1>13, <1>14, <1>15, <1>16,
     <1>17, <1>18, <1>19, <1>20, <1>21 DEF Next, Onward, Starting, Copying, Opening

LEMMA FreshStep ==
  ASSUME IInv, Fresh, [Next]_vars
  PROVE  Fresh'
<1>0. /\ tree \in [Roots -> [Names -> Contents]] /\ used \in Nat
      /\ profile \in ProfileType /\ P \in Nat
      /\ Ids \subseteq Names /\ Ids \cap Files = {}
  BY IdsAreNotFiles, StorageAssumption DEF IInv, Core, Types, ProfileType, P, Ids
<1>1. ASSUME UNCHANGED <<used, tree>>, P' \in {0, P}
      PROVE  Fresh'
  BY <1>0, <1>1 DEF Fresh
<1>2. ASSUME UNCHANGED used, P' = P,
             NEW r \in Roots, NEW f \in Files, NEW c, tree' = [tree EXCEPT ![r][f] = c]
      PROVE  Fresh'
  BY <1>0, <1>2 DEF Fresh
<1>3. CASE UNCHANGED vars \/ Starting
  BY <1>1, <1>3
     DEF vars, ledgerVars, diskVars, P, Starting, Start, Reserve, CreateProfile, ResumeCopy, EnterRoot,
         Refuse, NoProfile
<1>4. CASE \/ CheckRoots \/ PlanCopy \/ CreateWork \/ WriteOwner \/ FindWork
           \/ BeginEntries \/ SkipEntries \/ KeepEntry \/ CreateTemp \/ TrackTemp
  BY <1>1, <1>4
     DEF CheckRoots, PlanCopy, CreateWork, WriteOwner, FindWork, BeginEntries, SkipEntries, KeepEntry,
         CreateTemp, TrackTemp, ledgerVars, diskVars, P
<1>5. CASE Unlink \/ MakeScratch \/ CheckDatabases \/ Verify \/ FindMarker \/ GiveUp \/ CopyFails
  BY <1>1, <1>5 DEF Unlink, MakeScratch, CheckDatabases, Verify, FindMarker, GiveUp, CopyFails,
                    ledgerVars, diskVars, P
<1>6. ASSUME pc \in CopyStages
      PROVE  T.target \in Roots /\ T.source \in Roots /\ P \in Ids
  BY <1>6, CopyTyped DEF TransferType
<1>7. CASE Publish
  <2>1. \A i \in Ids : i > used => tree[T.source][i] = "absent"
    BY <1>6, <1>7 DEF Publish, CopyStages, Fresh
  <2> QED  BY <1>0, <1>6, <1>7, <2>1 DEF Publish, CopyStages, Fresh, ledgerVars, P
<1>8. CASE CreateMarker \/ WriteMarker
  <2>1. P <= used
    BY DEF Fresh
  <2>2. PICK c \in Contents : tree' = [tree EXCEPT ![T.source][P] = c]
    BY <1>8 DEF CreateMarker, WriteMarker, Contents
  <2>3. T.source \in Roots /\ P \in Ids /\ used' = used /\ P' = P
    BY <1>6, <1>8 DEF CreateMarker, WriteMarker, CopyStages, ledgerVars, P
  <2> QED  BY <1>0, <2>1, <2>2, <2>3 DEF Fresh
<1>9. CASE Activate
  <2>1. P' = P
    BY <1>0, <1>9, <1>6, CopyTyped, SwitchedType DEF Activate, CopyStages, TransferType, P
  <2> QED  BY <1>1, <1>9, <2>1 DEF Activate, diskVars
<1>10. CASE OpenDatabases
  BY <1>0, <1>1, <1>2, <1>10, IdsAreNotFiles DEF OpenDatabases, ledgerVars, P, ProfileType
<1>11. CASE MarkInitialized \/ CommitStartup \/ Exit \/ CancelRequested \/ AbandonFailed
  BY <1>0, <1>1, <1>11 DEF MarkInitialized, CommitStartup, Exit, CancelRequested, AbandonFailed, Closed,
                           ledgerVars, diskVars, P, ProfileType
<1>12. CASE RollbackStartup
  <2>1. P' = 0
    BY <1>0, <1>12, SwitchedType DEF RollbackStartup, OnTrial, IInv, Core, Types, TransferType, T, P,
                                     ProfileType, Switched
  <2> QED  BY <1>1, <1>12, <2>1 DEF RollbackStartup, diskVars
<1>13. CASE HostWrite
  BY <1>0, <1>2, <1>13 DEF HostWrite, ledgerVars, P, ProfileType
<1>14. CASE RequestMigration
  <2>1. P' = used' /\ used' = used + 1 /\ tree' = tree
    BY <1>0, <1>14 DEF RequestMigration, diskVars, P, ProfileType
  <2> QED  BY <1>0, <2>1 DEF Fresh, Ids
<1>15. CASE Crash
  BY <1>0, <1>1, <1>2, <1>15, IdsAreNotFiles DEF Crash, ledgerVars, P, ProfileType
<1>16. CASE \E r \in Roots, f \in Files : EditFile(r, f)
  BY <1>2, <1>16 DEF EditFile, ledgerVars, P
<1>17. CASE \E r \in Roots : EmptyRoot(r)
  BY <1>0, <1>17 DEF EmptyRoot, ledgerVars, P, Fresh, EmptyTree
<1>18. CASE LoseLedger
  BY <1>1, <1>18 DEF LoseLedger, NoProfile, diskVars, P
<1> QED
  BY <1>3, <1>4, <1>5, <1>7, <1>8, <1>9, <1>10, <1>11, <1>12, <1>13, <1>14, <1>15, <1>16, <1>17, <1>18
     DEF Next, Onward, Copying, Opening, Others

\* Steps that leave identities and databases alone, and open no trial.
LEMMA UntouchedKept ==
  ASSUME Untouched,
         UNCHANGED <<ledger, edits, ident>>,
         P' = P, profile'.root = profile.root, profile'.stamp = profile.stamp,
         profile'.required = profile.required,
         T'.source = T.source, T'.target = T.target,
         T'.sourceStamp = T.sourceStamp, T'.targetStamp = T.targetStamp,
         T'.phase = "Activated" => T.phase = "Activated" /\ work'[T.target] = work[T.target],
         \A r \in {profile.root, T.source} : HasData(r) => tree'[r][Db] # "absent"
  PROVE  Untouched'
BY DEF Untouched, RootUsable, SameRoots, HasData

\* The relocation is over, and a directory in use stays usable.
LEMMA UntouchedClosed ==
  ASSUME P' = 0, ident'[profile'.root] = profile'.stamp,
         profile'.required => tree'[profile'.root][Db] # "absent"
  PROVE  Untouched'
BY DEF Untouched, RootUsable, HasData

LEMMA UntouchedStarts ==
  ASSUME IInv, Untouched, Starting
  PROVE  Untouched'
<1>1. CASE CreateProfile
  <2>0. InitialRoot \in Roots
    BY DEF InitialRoot, Roots
  <2>1. /\ profile'.root = InitialRoot /\ profile'.pending = 0
        /\ profile'.stamp = ident[InitialRoot] /\ profile'.required = HasData(InitialRoot)
    BY <1>1 DEF CreateProfile, NoProfile
  <2> QED  BY <1>1, <2>1, UntouchedClosed DEF CreateProfile, diskVars, P, HasData
<1>2. CASE Reserve
  BY <1>2 DEF Reserve, Untouched
<1>3. CASE Start \/ ResumeCopy \/ EnterRoot \/ Refuse
  BY <1>3 DEF Start, ResumeCopy, EnterRoot, Refuse, ledgerVars, diskVars, bounds,
              Untouched, RootUsable, SameRoots, HasData, P, T
<1> QED  BY <1>1, <1>2, <1>3 DEF Starting

LEMMA UntouchedCopies ==
  ASSUME IInv, Rest, Places, Untouched, Copying
  PROVE  Untouched'
<1>0. /\ T.target \in Roots /\ T.source \in Roots /\ P \in Ids /\ P # 0
      /\ ledger = "valid" /\ T.phase \in Resumable /\ profile.root = T.source /\ T.source # T.target
      /\ T \in TransferType /\ profile \in ProfileType
      /\ tree \in [Roots -> [Names -> Contents]] /\ transfer \in [Ids -> TransferType]
  <2>1. pc \in CopyStages
    BY DEF Copying, CheckRoots, PlanCopy, CreateWork, WriteOwner, FindWork, BeginEntries, SkipEntries,
           KeepEntry, Copied, CreateTemp, TrackTemp, Publish, Unlink, MakeScratch, CheckDatabases,
           Verify, CreateMarker, WriteMarker, FindMarker, Activate, GiveUp, TargetUnfit, SourceUnfit,
           CopyStages
  <2> QED  BY <2>1, CopyTyped, IdsAreNotFiles DEF TransferType, CanCopy, IInv, Core, Types
<1>1. ASSUME UNCHANGED <<ledgerVars, ident, bounds>>,
             \A r \in Roots : r = T.source => tree'[r][Db] = tree[r][Db]
      PROVE  Untouched'
  <2>1. P' = P /\ T' = T /\ profile' = profile /\ UNCHANGED <<ledger, edits, ident>>
    BY <1>1 DEF ledgerVars, bounds, P, T
  <2>2. T.phase # "Activated"
    BY <1>0 DEF Resumable
  <2> QED  BY <1>0, <1>1, <2>1, <2>2, UntouchedKept DEF HasData
<1>2. CASE \/ CheckRoots \/ CreateWork \/ WriteOwner \/ FindWork \/ BeginEntries
           \/ SkipEntries \/ KeepEntry \/ CreateTemp \/ TrackTemp
           \/ Unlink \/ MakeScratch \/ FindMarker
  BY <1>1, <1>2
     DEF CheckRoots, CreateWork, WriteOwner, FindWork, BeginEntries, SkipEntries, KeepEntry, CreateTemp,
         TrackTemp, Unlink, MakeScratch, FindMarker, diskVars
<1>3. CASE Publish \/ CreateMarker \/ WriteMarker
  <2>1. tree'[T.source][Db] = tree[T.source][Db]
    BY <1>0, <1>3, IdsAreNotFiles DEF Publish, CreateMarker, WriteMarker
  <2> QED  BY <1>1, <1>3, <2>1 DEF Publish, CreateMarker, WriteMarker
<1>4. ASSUME NEW ph \in {"Verified", "Failed", "NeedsRecovery"}, SetPhase(ph),
             UNCHANGED <<ledger, profile, tree, ident, bounds>>
      PROVE  Untouched'
  <2>1. /\ P' = P /\ T'.source = T.source /\ T'.target = T.target
        /\ T'.sourceStamp = T.sourceStamp /\ T'.targetStamp = T.targetStamp /\ T'.phase = ph
    BY <1>0, <1>4 DEF SetPhase, P, T, TransferType
  <2> QED  BY <1>4, <2>1, UntouchedKept DEF bounds, HasData
<1>5. CASE Verify \/ GiveUp
  BY <1>4, <1>5 DEF Verify, GiveUp, diskVars
<1>6. CASE CheckDatabases
  <2>1. CASE tree[T.target][Db] = "busy"
    BY <1>4, <1>6, <2>1 DEF CheckDatabases
  <2>2. CASE tree[T.target][Db] # "busy"
    BY <1>1, <1>6, <2>2 DEF CheckDatabases, ledgerVars
  <2> QED  BY <2>1, <2>2
<1>7. CASE PlanCopy
  <2>1. /\ P' = P /\ T'.source = T.source /\ T'.target = T.target
        /\ T'.sourceStamp = T.sourceStamp /\ T'.targetStamp = T.targetStamp /\ T'.phase = "Copying"
    BY <1>0, <1>7 DEF PlanCopy, P, T, TransferType
  <2> QED  BY <1>7, <2>1, UntouchedKept DEF PlanCopy, diskVars, bounds, HasData
<1>8. CASE Activate
  <2> SUFFICES ASSUME edits = 0
               PROVE  Untouched'
    BY <1>8 DEF Untouched, Activate, bounds
  <2>1. SameRoots /\ profile.required /\ HasData(T.source)
    BY <1>0 DEF Untouched
  <2>2. /\ T'.source = T.source /\ T'.target = T.target
        /\ T'.sourceStamp = T.sourceStamp /\ T'.targetStamp = T.targetStamp
        /\ P' = P /\ profile'.root = T.target /\ profile'.stamp = T.targetStamp
        /\ profile'.required = profile.required
    BY <1>0, <1>8 DEF Activate, SetPhase, Switched, P, T, TransferType, ProfileType
  <2>3. tree[T.target][Db] = tree[T.source][Db]
    BY <1>0, <1>8, IdsAreNotFiles DEF Activate, SourceAsPlannedButMarked, TargetAsPlanned, Without
  <2>4. work[T.target].id = P /\ work[T.target].owner
    BY <1>8 DEF Activate, Places, Writing, CopyStages
  <2>5. UNCHANGED <<tree, ident, work>>
    BY <1>8 DEF Activate, diskVars
  <2> QED  BY <2>1, <2>2, <2>3, <2>4, <2>5 DEF Untouched, RootUsable, SameRoots, HasData
<1> QED
  BY <1>2, <1>3, <1>5, <1>6, <1>7, <1>8 DEF Copying

LEMMA UntouchedHosts ==
  ASSUME IInv, Places, Untouched, Hosting
  PROVE  Untouched'
<1>0. /\ profile \in ProfileType /\ profile.root \in Roots
      /\ tree \in [Roots -> [Names -> Contents]] /\ transfer \in [Ids -> TransferType]
      /\ Db \in Names /\ P \in {0} \cup Ids /\ 0 \notin Ids
  BY IdsAreNotFiles DEF IInv, Core, Types, ProfileType, P
<1>1. ASSUME UNCHANGED <<ledgerVars, ident, work, bounds>>,
             \A r \in {profile.root, T.source} : HasData(r) => tree'[r][Db] # "absent"
      PROVE  Untouched'
  <2>1. P' = P /\ T' = T /\ profile' = profile /\ UNCHANGED <<ledger, edits, ident, work>>
    BY <1>1 DEF ledgerVars, bounds, P, T
  <2> QED  BY <1>1, <2>1, UntouchedKept
<1>2. CASE Exit
  BY <1>1, <1>2 DEF Exit, diskVars, HasData
<1>3. ASSUME NEW f \in Files, NEW c, f = Db => c # "absent",
             tree' = [tree EXCEPT ![profile.root][f] = c],
             UNCHANGED <<ledgerVars, ident, work, bounds>>
      PROVE  Untouched'
  <2>1. \A r \in Roots : HasData(r) => tree'[r][Db] # "absent"
    BY <1>0, <1>3, IdsAreNotFiles DEF HasData
  <2>2. CASE P = 0
    <3>1. P' = 0 /\ profile' = profile /\ ident' = ident /\ ledger' = ledger /\ edits' = edits
      BY <1>3, <2>2 DEF ledgerVars, bounds, P
    <3> QED  BY <1>0, <2>1, <3>1 DEF Untouched, RootUsable, HasData
  <2>3. CASE P # 0
    <3>1. T.source \in Roots
      BY <1>0, <2>3 DEF T, TransferType
    <3> QED  BY <1>0, <1>1, <1>3, <2>1, <3>1
  <2> QED  BY <2>2, <2>3
<1>4. CASE OpenDatabases
  <2>1. CASE tree[profile.root][Db] \in Settled
    BY <1>1, <1>4, <2>1 DEF OpenDatabases, HasData
  <2>2. CASE tree[profile.root][Db] \notin Settled
    <3>1. PICK f \in Files : f = Db
      BY IdsAreNotFiles
    <3>2. PICK c : /\ f = Db => c # "absent"
                   /\ tree' = [tree EXCEPT ![profile.root][f] = c]
      BY <1>4, <2>2, <3>1 DEF OpenDatabases
    <3> QED  BY <1>3, <1>4, <3>2 DEF OpenDatabases
  <2> QED  BY <2>1, <2>2
<1>5. CASE HostWrite
  <2>1. PICK f \in Files : \E c \in (IF f = Db THEN Settled ELSE Settled \cup {"absent"}) :
          tree' = [tree EXCEPT ![profile.root][f] = c]
    BY <1>5 DEF HostWrite
  <2>2. PICK c : /\ f = Db => c # "absent"
                 /\ tree' = [tree EXCEPT ![profile.root][f] = c]
    BY <2>1 DEF Settled
  <2> QED  BY <1>3, <1>5, <2>2 DEF HostWrite
<1>6. CASE MarkInitialized \/ CommitStartup
  <2> SUFFICES ASSUME ledger = "valid", edits = 0
               PROVE  Untouched'
    BY <1>6 DEF Untouched, MarkInitialized, CommitStartup, bounds
  <2>1. /\ P' = 0 /\ profile'.root = profile.root /\ profile'.stamp = profile.stamp
        /\ UNCHANGED <<tree, ident>> /\ pc = "opened"
    BY <1>0, <1>6 DEF MarkInitialized, CommitStartup, Closed, diskVars, P, ProfileType
  <2>2. tree[profile.root][Db] # "absent"
    BY <2>1 DEF Places, Settled
  <2>3. ident[profile.root] = profile.stamp
    BY DEF Untouched, RootUsable
  <2> QED  BY <2>1, <2>2, <2>3, UntouchedClosed
<1>7. CASE RequestMigration
  <2> DEFINE i == used + 1
  <2>1. PICK target \in Roots \ {profile.root} :
          transfer' = [transfer EXCEPT ![i] =
             [source |-> profile.root, target |-> target, generation |-> profile.generation,
              phase |-> "Requested", plan |-> EmptyTree,
              sourceStamp |-> ident[profile.root], targetStamp |-> ident[target]]]
    BY <1>7 DEF RequestMigration
  <2>2. i \in Ids /\ RootUsable /\ profile.required /\ ident' = ident /\ tree' = tree
    BY <1>7, StorageAssumption DEF RequestMigration, Ids, IInv, Core, Types, diskVars
  <2>3. /\ P' = i /\ profile'.root = profile.root /\ profile'.stamp = profile.stamp
        /\ profile'.required = profile.required
    BY <1>0, <1>7 DEF RequestMigration, P, ProfileType
  <2> HIDE DEF i
  <2>4. /\ T'.source = profile.root /\ T'.target = target /\ T'.phase = "Requested"
        /\ T'.sourceStamp = ident[profile.root] /\ T'.targetStamp = ident[target]
    BY <1>0, <2>1, <2>2, <2>3 DEF P, T
  <2> QED  BY <2>2, <2>3, <2>4 DEF Untouched, RootUsable, SameRoots, HasData
<1>8. CASE CancelRequested \/ AbandonFailed
  <2> SUFFICES ASSUME ledger = "valid", edits = 0
               PROVE  Untouched'
    BY <1>8 DEF Untouched, CancelRequested, AbandonFailed, bounds
  <2>1. /\ P' = 0 /\ profile'.root = profile.root /\ profile'.stamp = profile.stamp
        /\ profile'.required = profile.required /\ UNCHANGED <<tree, ident>>
    BY <1>0, <1>8 DEF CancelRequested, AbandonFailed, Closed, diskVars, P, ProfileType
  <2> QED  BY <2>1, UntouchedClosed DEF Untouched, RootUsable, HasData
<1>9. CASE RollbackStartup
  <2> SUFFICES ASSUME ledger = "valid", edits = 0
               PROVE  Untouched'
    BY <1>9 DEF Untouched, RollbackStartup, bounds
  <2>1. P # 0 /\ SameRoots /\ HasData(T.source)
    BY <1>9 DEF Untouched, RollbackStartup, OnTrial
  <2>2. /\ P' = 0 /\ profile'.root = T.source /\ profile'.stamp = T.sourceStamp
        /\ UNCHANGED <<tree, ident>>
    BY <1>0, <1>9 DEF RollbackStartup, Switched, diskVars, P, ProfileType
  <2> QED  BY <2>1, <2>2, UntouchedClosed DEF SameRoots, HasData
<1> QED
  BY <1>2, <1>4, <1>5, <1>6, <1>7, <1>8, <1>9 DEF Hosting, Opening

LEMMA UntouchedStep ==
  ASSUME IInv, Rest, Places, Untouched, [Next]_vars
  PROVE  Untouched'
<1>1. CASE UNCHANGED vars
  BY <1>1 DEF vars, ledgerVars, diskVars, bounds, Untouched, RootUsable, SameRoots, HasData, P, T
<1>2. CASE Others
  <2>1. edits' # 0
    BY <1>2 DEF Others, EditFile, EmptyRoot, LoseLedger, ByOthers, Rest
  <2> QED  BY <2>1 DEF Untouched
<1>3. CASE Crash
  <2>0. /\ profile.root \in Roots /\ tree \in [Roots -> [Names -> Contents]]
        /\ ledger' = ledger /\ edits' = edits /\ ident' = ident /\ work' = work
        /\ P' = P /\ T' = T /\ profile' = profile
    BY <1>3 DEF Crash, ledgerVars, P, T, IInv, Core, Types, ProfileType
  <2>1. CASE tree' = tree
    BY <2>0, <2>1, UntouchedKept DEF HasData
  <2>2. CASE pc = "host" /\ tree' = [tree EXCEPT ![profile.root][Db] = "busy"]
    <3>1. P = 0
      BY <2>2 DEF Places
    <3>2. tree'[profile.root][Db] = "busy"
      BY <2>0, <2>2, IdsAreNotFiles
    <3> QED  BY <2>0, <3>1, <3>2 DEF Untouched, RootUsable, HasData
  <2> QED  BY <1>3, <2>1, <2>2 DEF Crash
<1>4. CASE CopyFails
  <2>1. /\ P \in Ids /\ T \in TransferType /\ transfer \in [Ids -> TransferType]
        /\ UNCHANGED <<ledger, profile, tree, ident, edits>>
    BY <1>4, CopyTyped DEF CopyFails, IInv, Core, Types
  <2>2. /\ P' = P /\ T'.source = T.source /\ T'.target = T.target
        /\ T'.sourceStamp = T.sourceStamp /\ T'.targetStamp = T.targetStamp /\ T'.phase = "Failed"
    BY <1>4, <2>1 DEF CopyFails, SetPhase, P, T, TransferType
  <2> QED  BY <2>1, <2>2, UntouchedKept DEF HasData
<1> QED
  BY <1>1, <1>2, <1>3, <1>4, UntouchedStarts, UntouchedCopies, UntouchedHosts DEF Next, Onward, Hosting

-----------------------------------------------------------------------------
(* What a copy that nothing has happened to finds on disk.                 *)

\* The pending relocation may still go on, and nothing has happened to it.
Unharmed == ledger = "valid" /\ P # 0 /\ T.phase \in Resumable /\ blame = {}

RootsIntact ==
  /\ SameRoots /\ tree[T.source][Db] \in Settled
  /\ T.phase = "Requested" => Empty(T.target) /\ tree[T.source][P] = "absent"
  /\ T.phase # "Requested" => T.plan[P] = "absent"
  /\ T.phase = "Copying" => SourceAsPlanned
  /\ T.phase = "Verified" =>
       /\ SourceAsPlannedButMarked
       /\ tree[T.source][P] = "torn" => pc = "marker"

\* The control directory is on record, but where a crash would tear it.
WorkIntact ==
  /\ work[T.target].id = P
  /\ work[T.target].owner \/ pc = "owner"
  /\ \A n \in Names : work[T.target].temp[n] = "untracked" => pc = "track" /\ n = entry
  /\ work[T.target].scratch => pc = "quickcheck"

OnlyPlanned == \A n \in Names : tree[T.target][n] \in {"absent", T.plan[n]}

TargetIntact ==
  T.phase # "Requested" =>
    \/ T.phase = "Copying" /\ Empty(T.target)
    \/ WorkIntact /\ OnlyPlanned

Looping == {"entry", "track", "publish", "unlink"}

\* How far the copy has come.
Progress ==
  /\ pc \in Looping =>
       /\ entry \in Entries \cup {LastName + 1}
       /\ \A n \in Entries : n < entry => tree[T.target][n] = T.plan[n]
       /\ pc = "unlink" => tree[T.target][entry] = T.plan[entry]
  /\ pc \in {"quickcheck", "verify"} \/ T.phase = "Verified" => TargetAsPlanned

Intact == Unharmed => RootsIntact /\ TargetIntact /\ Progress

\* A relocation that never was harmed, or is not pending any more, is intact.
LEMMA IntactEnds ==
  ASSUME ~Unharmed'
  PROVE  Intact'
BY DEF Intact

\* Where no crash would tear anything, the process may go where it relies on nothing.
LEMMA IntactMoves ==
  ASSUME Intact, UNCHANGED <<ledger, profile, transfer>>, blame' = {} => blame = {},
         ledger = "valid" /\ P # 0 =>
           /\ tree'[T.source] = tree[T.source] /\ tree'[T.target] = tree[T.target]
           /\ ident'[T.source] = ident[T.source] /\ ident'[T.target] = ident[T.target]
           /\ work'[T.target] = work[T.target],
         ~Torn, pc' \notin Looping \cup {"quickcheck", "verify"}
  PROVE  Intact'
<1> SUFFICES ASSUME Unharmed'
             PROVE  RootsIntact' /\ TargetIntact' /\ Progress'
  BY DEF Intact
<1>1. P' = P /\ T' = T /\ Unharmed
  BY DEF P, T, Unharmed
<1>2. /\ RootsIntact /\ TargetIntact /\ Progress
      /\ tree'[T.source] = tree[T.source] /\ tree'[T.target] = tree[T.target]
      /\ ident'[T.source] = ident[T.source] /\ ident'[T.target] = ident[T.target]
      /\ work'[T.target] = work[T.target]
  BY <1>1 DEF Intact, Unharmed
<1>3. RootsIntact'
  BY <1>1, <1>2 DEF RootsIntact, SameRoots, Empty, SourceAsPlanned, SourceAsPlannedButMarked, Without, Torn
<1>4. TargetIntact'
  BY <1>1, <1>2 DEF TargetIntact, WorkIntact, OnlyPlanned, Empty, Torn
<1>5. Progress'
  BY <1>1, <1>2 DEF Progress, TargetAsPlanned
<1> QED  BY <1>3, <1>4, <1>5

\* What the steps of the copy have in common.
LEMMA CopyIntact ==
  ASSUME IInv, Rest, Places, Intact, pc \in CopyStages
  PROVE  /\ ledger = "valid" /\ P \in Ids /\ P # 0 /\ T \in TransferType
         /\ T.source \in Roots /\ T.target \in Roots /\ T.source # T.target
         /\ T.phase \in Resumable
         /\ T.plan \in [Names -> Contents]
         /\ transfer \in [Ids -> TransferType]
         /\ tree \in [Roots -> [Names -> Contents]] /\ work \in [Roots -> WorkType]
         /\ blame = {} => RootsIntact /\ TargetIntact /\ Progress
<1>1. /\ ledger = "valid" /\ P \in Ids /\ P # 0 /\ T \in TransferType
      /\ T.source # T.target /\ T.phase \in Resumable
  BY CopyTyped, IdsAreNotFiles DEF CanCopy
<1> QED
  BY <1>1 DEF Rest, IInv, Core, Types, TransferType, Intact, Unharmed

\* Once its control directory is there, an intact target is more than empty.
LEMMA TargetWorked ==
  ASSUME TargetIntact, T.phase # "Requested", P # 0, work[T.target].id = P
  PROVE  WorkIntact /\ OnlyPlanned
BY DEF TargetIntact, Empty, NoWork

\* Nothing the copy looks for is found amiss.
LEMMA NothingUnfit ==
  ASSUME IInv, Rest, Places, Intact, pc \in CopyStages, blame = {}
  PROVE  /\ ~TargetUnfit /\ ~SourceUnfit
         /\ pc = "quickcheck" => tree[T.target][Db] # "busy"
<1>0. /\ P \in Ids /\ P # 0 /\ T.source \in Roots /\ T.target \in Roots
      /\ T.plan \in [Names -> Contents]
      /\ tree \in [Roots -> [Names -> Contents]] /\ work \in [Roots -> WorkType]
      /\ RootsIntact /\ TargetIntact /\ Progress
  BY CopyIntact
<1>1. pc \in Writing => T.phase # "Requested" /\ WorkIntact /\ OnlyPlanned
  BY <1>0, TargetWorked DEF Places, Writing, CopyStages
<1>2. pc = "plan" => Empty(T.target) /\ tree[T.source][Db] # "hot"
  BY <1>0 DEF Places, RootsIntact, Settled
<1>3. pc = "own" => work[T.target].id = P \/ Empty(T.target)
  BY <1>0 DEF Places, TargetIntact, WorkIntact
<1>4. pc = "check" => /\ work[T.target].owner /\ TargetIsOurs
                      /\ T.phase = "Copying" => SourceAsPlanned
  BY <1>0, <1>1 DEF WorkIntact, OnlyPlanned, TargetIsOurs, RootsIntact, Writing, CopyStages
<1>5. pc = "entry" => /\ Copied => tree[T.target][entry] = T.plan[entry]
                      /\ entry \in Names => tree[T.source][entry] = T.plan[entry]
  BY <1>0, <1>1 DEF Copied, OnlyPlanned, Writing, CopyStages, Places, RootsIntact, SourceAsPlanned
<1>6. pc = "mark" => TargetAsPlanned /\ tree[T.source][P] # "torn"
  BY <1>0 DEF Places, Progress, RootsIntact
<1>7. pc = "verify" => SourceAsPlanned /\ TargetAsPlanned
  BY <1>0 DEF Places, Progress, RootsIntact
<1>8. pc = "activate" => SourceAsPlannedButMarked /\ TargetAsPlanned
  BY <1>0 DEF Places, Progress, RootsIntact
<1>9. pc = "roots" => SameRoots
  BY <1>0 DEF RootsIntact
<1>10. pc = "quickcheck" => tree[T.target][Db] # "busy"
  <2>1. pc = "quickcheck" => tree[T.target] = T.plan /\ tree[T.source] = T.plan
    BY <1>0 DEF Places, Progress, RootsIntact, TargetAsPlanned, SourceAsPlanned
  <2> QED  BY <1>0, <2>1 DEF RootsIntact, Settled
<1>11. ~TargetUnfit
  BY <1>2, <1>3, <1>4, <1>5, <1>6 DEF TargetUnfit
<1>12. ~SourceUnfit
  BY <1>2, <1>4, <1>5, <1>7, <1>8, <1>9 DEF SourceUnfit
<1> QED  BY <1>10, <1>11, <1>12

\* A step of the copy that changes neither the ledger nor the source.
LEMMA CopyKeeps ==
  ASSUME IInv, Rest, Places, Intact, pc \in CopyStages \ {"marker"},
         UNCHANGED <<ledger, profile, transfer, ident, blame>>,
         tree'[T.source] = tree[T.source],
         T.phase # "Requested" \/ UNCHANGED <<tree, work>>,
         blame = {} => TargetIntact' /\ Progress'
  PROVE  Intact'
<1> SUFFICES ASSUME Unharmed'
             PROVE  RootsIntact' /\ TargetIntact' /\ Progress'
  BY DEF Intact
<1>1. P' = P /\ T' = T /\ blame = {}
  BY DEF P, T, Unharmed
<1>2. RootsIntact
  BY <1>1, CopyIntact
<1>3. RootsIntact'
  BY <1>1, <1>2 DEF RootsIntact, SameRoots, Empty, SourceAsPlanned, SourceAsPlannedButMarked, Without
<1> QED  BY <1>1, <1>3

LEMMA ControlIntact ==
  ASSUME IInv, Rest, Places, Intact, CreateWork \/ WriteOwner
  PROVE  Intact'
<1> DEFINE t == T.target
<1>0. /\ P # 0 /\ P \in Ids /\ t \in Roots /\ T.phase \in {"Copying", "Verified"}
      /\ pc \in {"own", "owner"} /\ work \in [Roots -> WorkType] /\ Db \in Names
      /\ blame = {} => TargetIntact /\ Progress
  BY CopyIntact, IdsAreNotFiles DEF CreateWork, WriteOwner, CopyStages, Places
<1>1. /\ UNCHANGED <<ledger, profile, transfer, ident, blame, tree>>
      /\ P' = P /\ T' = T /\ pc' \in {"owner", "check"}
  BY DEF CreateWork, WriteOwner, ledgerVars, history, GoTo, P, T
<1>2. ASSUME blame = {}
      PROVE  TargetIntact'
  <2>1. CASE CreateWork
    <3>1. OnlyPlanned'
      BY <1>1, <2>1 DEF CreateWork, Empty, EmptyTree, OnlyPlanned
    <3>2. WorkIntact'
      BY <1>0, <1>1, <2>1 DEF CreateWork, GoTo, NoWork, WorkIntact
    <3> QED  BY <3>1, <3>2 DEF TargetIntact
  <2>2. CASE WriteOwner
    <3>1. WorkIntact /\ OnlyPlanned
      BY <1>0, <1>2, <2>2, TargetWorked DEF WriteOwner, Places, Writing, CopyStages
    <3>2. OnlyPlanned'
      BY <1>1, <3>1 DEF OnlyPlanned
    <3>3. WorkIntact'
      BY <1>0, <1>1, <2>2, <3>1 DEF WriteOwner, GoTo, WorkIntact, WorkType
    <3> QED  BY <3>2, <3>3 DEF TargetIntact
  <2> QED  BY <2>1, <2>2
<1>3. ASSUME blame = {}
      PROVE  Progress'
  BY <1>0, <1>1, <1>3 DEF Progress, Looping, TargetAsPlanned
<1> QED
  BY <1>0, <1>1, <1>2, <1>3, CopyKeeps DEF CopyStages

\* One round of the loop over the plan, and what ends it.
LEMMA LoopIntact ==
  ASSUME IInv, Rest, Places, Intact,
         BeginEntries \/ KeepEntry \/ CreateTemp \/ TrackTemp \/ Publish \/ Unlink \/ MakeScratch
  PROVE  Intact'
<1> DEFINE t == T.target
<1>0. /\ P # 0 /\ t \in Roots /\ T.source \in Roots /\ T.source # t /\ T.phase = "Copying"
      /\ pc \in Looping \cup {"check"} /\ pc \in CopyStages \ {"marker"}
      /\ work \in [Roots -> WorkType] /\ tree \in [Roots -> [Names -> Contents]]
      /\ T.plan \in [Names -> Contents]
      /\ work[t].id = P
      /\ blame = {} => TargetIntact /\ Progress /\ RootsIntact
  BY CopyIntact DEF BeginEntries, KeepEntry, CreateTemp, TrackTemp, Publish, Unlink, MakeScratch,
                    CopyStages, Looping, Places, Writing
<1>1. /\ UNCHANGED <<ledger, profile, transfer, ident, blame>>
      /\ P' = P /\ T' = T /\ Entries' = Entries
  BY DEF BeginEntries, KeepEntry, CreateTemp, TrackTemp, Publish, Unlink, MakeScratch, ledgerVars,
         history, diskVars, P, T, Entries
<1>2. entry \in Nat /\ entry \in 0..(LastName + 1) /\ LastName + 1 \notin Names /\ Entries \subseteq Names
  BY NamesAreNumbers DEF Rest, Entries
<1>3. tree'[T.source] = tree[T.source]
  BY <1>0 DEF BeginEntries, KeepEntry, CreateTemp, TrackTemp, Publish, Unlink, MakeScratch, diskVars
<1> SUFFICES ASSUME blame = {}
             PROVE  TargetIntact' /\ Progress'
  BY <1>0, <1>1, <1>3, CopyKeeps
<1>4. WorkIntact /\ OnlyPlanned /\ Progress /\ SourceAsPlanned
  BY <1>0, TargetWorked DEF RootsIntact
<1>5. pc \in {"track", "publish", "unlink"} => entry \in Entries
  BY <1>2, <1>4 DEF Progress, Looping, IInv, Stages
<1>6. pc \in {"track", "publish"} => tree[T.source][entry] = T.plan[entry]
  BY <1>4, <1>5 DEF SourceAsPlanned
<1>7. OnlyPlanned'
  <2>1. CASE Publish
    BY <1>0, <1>1, <1>2, <1>4, <1>5, <1>6, <2>1 DEF Publish, OnlyPlanned
  <2>2. CASE ~Publish
    <3>1. tree' = tree
      BY <2>2 DEF BeginEntries, KeepEntry, CreateTemp, TrackTemp, Unlink, MakeScratch, diskVars
    <3> QED  BY <1>1, <1>4, <3>1 DEF OnlyPlanned
  <2> QED  BY <2>1, <2>2
<1>8. WorkIntact'
  <2>1. CASE BeginEntries \/ Publish
    BY <1>1, <1>4, <2>1 DEF BeginEntries, Publish, GoTo, WorkIntact, diskVars
  <2>2. ASSUME entry \in Names, NEW s \in {"none", "untracked", "tracked"},
               work' = [work EXCEPT ![t].temp[entry] = s]
        PROVE  /\ work'[t].id = P /\ work'[t].owner = work[t].owner
               /\ work'[t].scratch = work[t].scratch
               /\ work'[t].temp[entry] = s
               /\ \A n \in Names : n # entry => work'[t].temp[n] = work[t].temp[n]
    BY <1>0, <2>2 DEF WorkType
  <2>3. CASE KeepEntry \/ Unlink
    <3>1. /\ entry \in Names /\ pc \in {"entry", "unlink"} /\ pc' = "entry"
          /\ work' = [work EXCEPT ![t].temp[entry] = "none"]
      BY <1>2, <1>5, <2>3 DEF KeepEntry, Unlink, Copied
    <3>2. /\ work'[t].id = P /\ work'[t].owner /\ ~work'[t].scratch
          /\ \A n \in Names : work'[t].temp[n] # "untracked"
      BY <1>4, <2>2, <3>1 DEF WorkIntact
    <3> QED  BY <1>1, <3>2 DEF WorkIntact
  <2>4. CASE CreateTemp \/ TrackTemp
    <3>1. PICK s \in {"none", "untracked", "tracked"} :
            /\ entry \in Names /\ entry' = entry /\ pc \in {"entry", "track"}
            /\ work' = [work EXCEPT ![t].temp[entry] = s]
            /\ s = "untracked" => pc' = "track"
      BY <1>2, <1>5, <2>4 DEF CreateTemp, TrackTemp, GoTo
    <3>2. /\ work'[t].id = P /\ work'[t].owner /\ ~work'[t].scratch
          /\ \A n \in Names : work'[t].temp[n] = "untracked" => n = entry /\ s = "untracked"
      BY <1>4, <2>2, <3>1, ZenonT(60) DEF WorkIntact
    <3> QED  BY <1>1, <3>1, <3>2 DEF WorkIntact
  <2>5. CASE MakeScratch
    BY <1>0, <1>1, <1>2, <1>4, <2>5 DEF MakeScratch, WorkIntact, WorkType
  <2> QED  BY <2>1, <2>3, <2>4, <2>5
<1>9. Progress'
  <2>1. CASE BeginEntries
    <3>1. entry' = Following(0) /\ pc' = "entry" /\ tree' = tree
      BY <2>1 DEF BeginEntries, diskVars
    <3>2. \A n \in Entries : ~(n < Following(0))
      BY <1>2, FollowingIsNext, NamesAreNumbers
    <3> QED  BY <1>0, <1>1, <3>1, <3>2, FollowingIsNext DEF Progress, Looping
  <2>2. CASE KeepEntry \/ Unlink
    <3>1. entry' = Following(entry) /\ pc' = "entry" /\ tree' = tree
          /\ tree[t][entry] = T.plan[entry]
      BY <1>4, <2>2 DEF KeepEntry, Unlink, Progress, Looping
    <3>2. \A n \in Entries : n < Following(entry) => n < entry \/ n = entry
      BY <1>2, FollowingIsNext, NamesAreNumbers
    <3>3. \A n \in Entries : n < entry => tree[t][n] = T.plan[n]
      BY <1>4, <2>2 DEF KeepEntry, Unlink, Progress, Looping
    <3>4. Following(entry) \in Entries \cup {LastName + 1}
      BY <1>2, FollowingIsNext
    <3> QED  BY <1>0, <1>1, <3>1, <3>2, <3>3, <3>4 DEF Progress, Looping
  <2>3. CASE CreateTemp \/ TrackTemp
    BY <1>0, <1>1, <1>4, <2>3 DEF CreateTemp, TrackTemp, GoTo, Progress, Looping
  <2>4. CASE Publish
    <3>1. /\ entry' = entry /\ pc' = "unlink"
          /\ tree'[t][entry] = T.plan[entry]
          /\ \A n \in Names : n # entry => tree'[t][n] = tree[t][n]
      BY <1>0, <1>2, <1>5, <1>6, <2>4 DEF Publish, GoTo
    <3>2. \A n \in Entries : n < entry => tree'[t][n] = T.plan[n]
      BY <1>2, <1>4, <2>4, <3>1, NamesAreNumbers DEF Publish, Progress, Looping
    <3>3. entry \in Entries
      BY <1>5, <2>4 DEF Publish
    <3> QED  BY <1>0, <1>1, <3>1, <3>2, <3>3 DEF Progress, Looping
  <2>5. CASE MakeScratch
    <3>1. \A n \in Entries : tree[t][n] = T.plan[n]
      BY <1>2, <1>4, <2>5, NamesAreNumbers DEF MakeScratch, Progress, Looping
    <3>2. \A n \in Names : tree[t][n] = T.plan[n]
      BY <1>4, <3>1 DEF OnlyPlanned, Entries
    <3>3. tree[t] = T.plan
      BY <1>0, <3>2
    <3>4. pc' = "quickcheck" /\ tree' = tree
      BY <2>5 DEF MakeScratch
    <3> QED  BY <1>0, <1>1, <3>3, <3>4 DEF Progress, Looping, TargetAsPlanned
  <2> QED  BY <2>1, <2>2, <2>3, <2>4, <2>5
<1> QED  BY <1>7, <1>8, <1>9 DEF TargetIntact

LEMMA MarkerIntact ==
  ASSUME IInv, Rest, Places, Intact, CreateMarker \/ WriteMarker
  PROVE  Intact'
<1> DEFINE s == T.source
<1>0. /\ P \in Ids /\ s \in Roots /\ T.target \in Roots /\ s # T.target /\ T.phase = "Verified"
      /\ tree \in [Roots -> [Names -> Contents]] /\ Db \in Names /\ Db \notin Ids /\ Ids \subseteq Names
      /\ blame = {} => RootsIntact /\ TargetIntact /\ Progress
  BY CopyIntact, IdsAreNotFiles DEF CreateMarker, WriteMarker, CopyStages, Places
<1>1. /\ UNCHANGED <<ledger, profile, transfer, ident, work, blame>>
      /\ P' = P /\ T' = T /\ pc \in {"mark", "marker"} /\ pc' \in {"marker", "activate"}
  BY DEF CreateMarker, WriteMarker, ledgerVars, history, GoTo, P, T
<1>2. PICK c : tree' = [tree EXCEPT ![s][P] = c] /\ (c = "torn" => pc' = "marker")
  BY DEF CreateMarker, WriteMarker, GoTo
<1>3. /\ tree'[T.target] = tree[T.target] /\ tree'[s][Db] = tree[s][Db] /\ tree'[s][P] = c
      /\ [tree'[s] EXCEPT ![P] = "absent"] = [tree[s] EXCEPT ![P] = "absent"]
  BY <1>0, <1>2
<1> SUFFICES ASSUME blame = {}
             PROVE  RootsIntact' /\ TargetIntact' /\ Progress'
  BY <1>1 DEF Intact, Unharmed
<1>4. RootsIntact'
  BY <1>0, <1>1, <1>2, <1>3 DEF RootsIntact, SameRoots, SourceAsPlannedButMarked, Without
<1>5. TargetIntact'
  BY <1>0, <1>1, <1>3 DEF TargetIntact, WorkIntact, OnlyPlanned
<1>6. Progress'
  BY <1>0, <1>1, <1>3 DEF Progress, Looping, TargetAsPlanned
<1> QED  BY <1>4, <1>5, <1>6

LEMMA PlanIntact ==
  ASSUME IInv, Rest, Places, Intact, PlanCopy
  PROVE  Intact'
<1>0. /\ P \in Ids /\ T \in TransferType /\ T.source \in Roots /\ T.target \in Roots
      /\ T.phase = "Requested" /\ transfer \in [Ids -> TransferType]
      /\ tree \in [Roots -> [Names -> Contents]]
      /\ blame = {} => RootsIntact
  BY CopyIntact DEF PlanCopy, CopyStages, Places
<1>1. /\ UNCHANGED <<ledger, profile, tree, ident, work, blame>> /\ P' = P /\ pc' = "own"
      /\ T' = [T EXCEPT !.phase = "Copying", !.plan = tree[T.source]]
  BY <1>0 DEF PlanCopy, diskVars, history, GoTo, P, T
<1>2. /\ T'.phase = "Copying" /\ T'.plan = tree[T.source]
      /\ T'.source = T.source /\ T'.target = T.target
      /\ T'.sourceStamp = T.sourceStamp /\ T'.targetStamp = T.targetStamp
  BY <1>0, <1>1 DEF TransferType
<1> SUFFICES ASSUME blame = {}
             PROVE  RootsIntact' /\ TargetIntact' /\ Progress'
  BY <1>1 DEF Intact, Unharmed
<1>3. RootsIntact'
  BY <1>0, <1>1, <1>2 DEF RootsIntact, SameRoots, SourceAsPlanned
<1>4. TargetIntact' /\ Progress'
  BY <1>0, <1>1, <1>2 DEF RootsIntact, TargetIntact, Empty, Progress, Looping
<1> QED  BY <1>3, <1>4

LEMMA VerifyIntact ==
  ASSUME IInv, Rest, Places, Intact, Verify
  PROVE  Intact'
<1>0. /\ P \in Ids /\ T \in TransferType /\ T.source \in Roots /\ T.target \in Roots
      /\ T.phase = "Copying" /\ transfer \in [Ids -> TransferType]
      /\ tree \in [Roots -> [Names -> Contents]] /\ work[T.target].id = P /\ P # 0
      /\ T.plan \in [Names -> Contents] /\ Ids \subseteq Names
      /\ blame = {} => RootsIntact /\ TargetIntact
  BY CopyIntact, IdsAreNotFiles DEF Verify, CopyStages, Places, Writing
<1>1. /\ UNCHANGED <<ledger, profile, tree, ident, work, blame>> /\ P' = P /\ pc' = "mark"
      /\ T' = [T EXCEPT !.phase = "Verified"] /\ pc = "verify"
      /\ SourceAsPlanned /\ TargetAsPlanned
  BY <1>0 DEF Verify, SetPhase, diskVars, history, GoTo, P, T
<1>2. /\ T'.phase = "Verified" /\ T'.plan = T.plan
      /\ T'.source = T.source /\ T'.target = T.target
      /\ T'.sourceStamp = T.sourceStamp /\ T'.targetStamp = T.targetStamp
  BY <1>0, <1>1 DEF TransferType
<1> SUFFICES ASSUME blame = {}
             PROVE  RootsIntact' /\ TargetIntact' /\ Progress'
  BY <1>1 DEF Intact, Unharmed
<1>3. T.plan[P] = "absent" /\ tree[T.source] = T.plan
  BY <1>0, <1>1 DEF RootsIntact, SourceAsPlanned
<1>4. [tree[T.source] EXCEPT ![P] = "absent"] = T.plan
  BY <1>0, <1>3
<1>5. RootsIntact'
  BY <1>0, <1>1, <1>2, <1>3, <1>4 DEF RootsIntact, SameRoots, SourceAsPlannedButMarked, Without
<1>6. WorkIntact /\ OnlyPlanned
  BY <1>0, TargetWorked
<1>7. TargetIntact'
  BY <1>1, <1>2, <1>6 DEF TargetIntact, WorkIntact, OnlyPlanned
<1>8. Progress'
  BY <1>1, <1>2 DEF Progress, Looping, TargetAsPlanned
<1> QED  BY <1>5, <1>7, <1>8

LEMMA CheckIntact ==
  ASSUME IInv, Rest, Places, Intact, CheckDatabases
  PROVE  Intact'
<1>0. /\ P # 0 /\ T.target \in Roots /\ T.phase = "Copying" /\ work \in [Roots -> WorkType]
      /\ work[T.target].id = P /\ pc = "quickcheck" /\ pc \in CopyStages
      /\ blame = {} => RootsIntact /\ TargetIntact /\ Progress /\ tree[T.target][Db] # "busy"
  BY CopyIntact, NothingUnfit DEF CheckDatabases, CopyStages, Places, Writing
<1>1. CASE blame # {}
  BY <1>1, IntactEnds DEF CheckDatabases, history, Unharmed
<1>2. CASE blame = {}
  <2>1. /\ UNCHANGED <<ledger, profile, transfer, tree, ident, blame>> /\ pc' = "verify"
        /\ P' = P /\ T' = T /\ work' = [work EXCEPT ![T.target].scratch = FALSE]
    BY <1>0, <1>2 DEF CheckDatabases, history, GoTo, P, T
  <2>2. WorkIntact /\ OnlyPlanned /\ TargetAsPlanned
    BY <1>0, <1>2, TargetWorked DEF Progress
  <2>3. WorkIntact' /\ OnlyPlanned'
    BY <1>0, <2>1, <2>2 DEF WorkIntact, OnlyPlanned, WorkType
  <2>4. Progress'
    BY <1>0, <2>1, <2>2 DEF Progress, Looping, TargetAsPlanned
  <2> QED
    BY <1>0, <2>1, <2>3, <2>4, CopyKeeps DEF TargetIntact
<1> QED  BY <1>1, <1>2

LEMMA CopyingIntact ==
  ASSUME IInv, Rest, Places, Intact, Copying
  PROVE  Intact'
<1>1. CASE CheckRoots \/ FindWork \/ SkipEntries \/ FindMarker
  BY <1>1, IntactMoves
     DEF CheckRoots, FindWork, SkipEntries, FindMarker, GoTo, Torn, Looping, ledgerVars, diskVars, history
<1>2. ASSUME NEW ph, ph \notin Resumable, SetPhase(ph), pc \in CopyStages,
             profile'.pending = profile.pending
      PROVE  Intact'
  <2>1. T'.phase = ph
    BY <1>2, CopyIntact DEF SetPhase, P, T, TransferType
  <2> QED  BY <1>2, <2>1, IntactEnds DEF Unharmed
<1>3. CASE GiveUp
  BY <1>2, <1>3 DEF GiveUp, TargetUnfit, SourceUnfit, CopyStages, Resumable
<1>4. CASE Activate
  <2>1. profile'.pending = profile.pending
    BY <1>4 DEF Activate, Switched, IInv, Core, Types, ProfileType
  <2> QED  BY <1>2, <1>4, <2>1 DEF Activate, CopyStages, Resumable
<1> QED
  BY <1>1, <1>3, <1>4, ControlIntact, LoopIntact, MarkerIntact, PlanIntact, VerifyIntact, CheckIntact
     DEF Copying

LEMMA StartingIntact ==
  ASSUME Intact, Starting
  PROVE  Intact'
<1>1. CASE Reserve \/ CreateProfile
  BY <1>1, IntactEnds DEF Reserve, CreateProfile, NoProfile, Unharmed, P
<1>2. CASE Start \/ ResumeCopy \/ EnterRoot \/ Refuse
  BY <1>2, IntactMoves
     DEF Start, ResumeCopy, EnterRoot, Refuse, GoTo, Stop, Torn, Looping, ledgerVars, diskVars, history
<1> QED  BY <1>1, <1>2 DEF Starting

LEMMA HostingIntact ==
  ASSUME IInv, Rest, Places, Fresh, Intact, Hosting
  PROVE  Intact'
<1>0. /\ profile \in ProfileType /\ P \in {0} \cup Ids /\ 0 \notin Ids
      /\ transfer \in [Ids -> TransferType]
  BY IdsAreNotFiles DEF IInv, Core, Types, ProfileType, P
<1>1. ASSUME UNCHANGED <<ledger, profile, transfer>>, P = 0 \/ T.phase = "Activated"
      PROVE  Intact'
  BY <1>1, IntactEnds DEF Unharmed, P, T, Resumable
<1>2. ASSUME P' = 0
      PROVE  Intact'
  BY <1>2, IntactEnds DEF Unharmed
<1>3. CASE OpenDatabases \/ HostWrite
  BY <1>1, <1>3 DEF OpenDatabases, HostWrite, Places, ledgerVars
<1>4. CASE MarkInitialized \/ CommitStartup \/ CancelRequested \/ AbandonFailed
  BY <1>0, <1>2, <1>4 DEF MarkInitialized, CommitStartup, CancelRequested, AbandonFailed, Closed, P,
                          ProfileType
<1>5. CASE RollbackStartup
  BY <1>0, <1>2, <1>5 DEF RollbackStartup, Switched, P, ProfileType
<1>6. CASE Exit
  BY <1>6, IntactMoves DEF Exit, Stop, Torn, Looping, ledgerVars, diskVars, history
<1>7. CASE RequestMigration
  <2> DEFINE i == used + 1
  <2>1. PICK target \in Roots \ {profile.root} :
          /\ Empty(target)
          /\ transfer' = [transfer EXCEPT ![i] =
             [source |-> profile.root, target |-> target, generation |-> profile.generation,
              phase |-> "Requested", plan |-> EmptyTree,
              sourceStamp |-> ident[profile.root], targetStamp |-> ident[target]]]
    BY <1>7 DEF RequestMigration
  <2>2. /\ i \in Ids /\ i > used /\ profile.root \in Roots
        /\ UNCHANGED <<ident, tree, work>> /\ pc = "host" /\ pc' = "exiting"
    BY <1>0, <1>7, StorageAssumption
       DEF RequestMigration, Ids, IInv, Core, Types, diskVars, GoTo, ProfileType
  <2>3. P' = i
    BY <1>0, <1>7 DEF RequestMigration, P, ProfileType
  <2> HIDE DEF i
  <2>4. /\ T'.source = profile.root /\ T'.target = target /\ T'.phase = "Requested"
        /\ T'.sourceStamp = ident[profile.root] /\ T'.targetStamp = ident[target]
    BY <1>0, <2>1, <2>2, <2>3 DEF P, T
  <2>5. tree[profile.root][Db] \in Settled /\ tree[profile.root][i] = "absent"
    BY <2>2 DEF Places, Fresh
  <2>6. RootsIntact'
    BY <2>1, <2>2, <2>3, <2>4, <2>5 DEF RootsIntact, SameRoots, Empty
  <2>7. TargetIntact' /\ Progress'
    BY <2>2, <2>4 DEF TargetIntact, Progress, Looping
  <2> QED  BY <2>6, <2>7 DEF Intact
<1> QED
  BY <1>3, <1>4, <1>5, <1>6, <1>7 DEF Hosting, Opening

LEMMA CrashIntact ==
  ASSUME IInv, Places, Intact, Crash
  PROVE  Intact'
<1>0. UNCHANGED <<ledger, profile, transfer, ident, work>> /\ P' = P /\ T' = T /\ pc' = "down"
  BY DEF Crash, ledgerVars, Stop, P, T
<1>1. CASE Torn
  BY <1>1, IntactEnds DEF Crash, Unharmed
<1>2. CASE ~Torn /\ tree' = tree
  BY <1>0, <1>2, IntactMoves DEF Crash, Looping
<1>3. CASE ~Torn /\ pc = "host"
  BY <1>0, <1>3, IntactEnds DEF Places, Unharmed
<1> QED  BY <1>1, <1>2, <1>3 DEF Crash

LEMMA OthersIntact ==
  ASSUME IInv, Rest, Intact, Others
  PROVE  Intact'
<1>0. /\ tree \in [Roots -> [Names -> Contents]] /\ ident \in [Roots -> Nat]
      /\ work \in [Roots -> WorkType]
      /\ ledger = "valid" /\ P # 0 => T.source \in Roots /\ T.target \in Roots
  BY DEF IInv, Core, Types, Rest, ProfileType, TransferType, P, T
<1>1. ASSUME NEW r \in Roots, BlameOthers(r), UNCHANGED <<ledger, profile, transfer>>,
             pc = "down", pc' = "down",
             \A q \in Roots : q # r =>
               tree'[q] = tree[q] /\ ident'[q] = ident[q] /\ work'[q] = work[q]
      PROVE  Intact'
  <2>1. CASE Pending(r)
    BY <1>1, <2>1, IntactEnds DEF BlameOthers, Unharmed
  <2>2. CASE ~Pending(r)
    <3>1. P # 0 => r # T.source /\ r # T.target
      BY <2>2 DEF Pending
    <3>2. blame' = {} => blame = {}
      BY <1>1 DEF BlameOthers
    <3> QED  BY <1>0, <1>1, <3>1, <3>2, IntactMoves DEF Torn, Looping
  <2> QED  BY <2>1, <2>2
<1>2. ASSUME NEW r \in Roots, NEW f \in Files, EditFile(r, f)
      PROVE  Intact'
  <2>1. \A q \in Roots : q # r => tree'[q] = tree[q]
    BY <1>0, <1>2 DEF EditFile
  <2> QED  BY <1>1, <1>2, <2>1 DEF EditFile, ByOthers, ledgerVars, pcVars
<1>3. ASSUME NEW r \in Roots, EmptyRoot(r)
      PROVE  Intact'
  <2>1. ident' = ident \/ ident' = [ident EXCEPT ![r] = @ + 1]
    BY <1>3 DEF EmptyRoot
  <2>2. \A q \in Roots : q # r => ident'[q] = ident[q]
    BY <1>0, <2>1
  <2>3. \A q \in Roots : q # r => tree'[q] = tree[q] /\ work'[q] = work[q]
    BY <1>0, <1>3 DEF EmptyRoot
  <2> QED  BY <1>1, <1>3, <2>2, <2>3 DEF EmptyRoot, ByOthers, ledgerVars, pcVars
<1>4. CASE LoseLedger
  BY <1>4, IntactEnds DEF LoseLedger, Unharmed
<1> QED  BY <1>2, <1>3, <1>4 DEF Others

LEMMA IntactStep ==
  ASSUME IInv, Rest, Places, Fresh, Intact, [Next]_vars
  PROVE  Intact'
<1>1. CASE UNCHANGED vars
  <2>1. P' = P /\ T' = T /\ UNCHANGED <<ledger, blame, ident, tree, work, pc, entry>>
    BY <1>1 DEF vars, ledgerVars, diskVars, pcVars, history, P, T
  <2> QED
    BY <2>1 DEF Intact, Unharmed, RootsIntact, SameRoots, Empty, SourceAsPlanned, SourceAsPlannedButMarked,
                Without, TargetIntact, WorkIntact, OnlyPlanned, Progress, TargetAsPlanned, Entries
<1>2. CASE CopyFails
  BY <1>2, IntactEnds DEF CopyFails, Unharmed
<1> QED
  BY <1>1, <1>2, StartingIntact, CopyingIntact, HostingIntact, CrashIntact, OthersIntact
     DEF Next, Onward, Hosting

\* Whoever gives up for good has been harmed.
LEMMA FailureStep ==
  ASSUME IInv, Rest, Places, Intact, FailureHasCause, [Next]_vars
  PROVE  FailureHasCause'
<1>0. transfer \in [Ids -> TransferType] /\ profile \in ProfileType /\ P \in {0} \cup Ids
  BY DEF IInv, Core, Types, ProfileType, P
<1>1. ASSUME UNCHANGED <<ledger, profile, transfer>>, blame \subseteq blame'
      PROVE  FailureHasCause'
  BY <1>1 DEF FailureHasCause, P, T
<1>2. ASSUME P' = 0 \/ ledger' # "valid"
      PROVE  FailureHasCause'
  BY <1>2 DEF FailureHasCause
<1>3. CASE UNCHANGED vars \/ Starting
  BY <1>1, <1>2, <1>3
     DEF vars, ledgerVars, history, Starting, Start, Reserve, CreateProfile, ResumeCopy, EnterRoot, Refuse,
         NoProfile, P
<1>4. CASE \/ CheckRoots \/ CreateWork \/ WriteOwner \/ FindWork
           \/ BeginEntries \/ SkipEntries \/ KeepEntry \/ CreateTemp \/ TrackTemp
  BY <1>1, <1>4
     DEF CheckRoots, CreateWork, WriteOwner, FindWork, BeginEntries, SkipEntries, KeepEntry,
         CreateTemp, TrackTemp, ledgerVars, history
<1>5. CASE Publish \/ Unlink \/ MakeScratch \/ CreateMarker \/ WriteMarker \/ FindMarker
  BY <1>1, <1>5 DEF Publish, Unlink, MakeScratch, CreateMarker, WriteMarker, FindMarker, ledgerVars, history
<1>7. CASE PlanCopy \/ Verify \/ Activate
  <2>1. pc \in CopyStages /\ profile'.pending = profile.pending
    BY <1>0, <1>7 DEF PlanCopy, Verify, Activate, CopyStages, Switched, ProfileType
  <2>2. P \in Ids /\ T \in TransferType /\ T.source \in Roots /\ tree[T.source] \in [Names -> Contents]
    BY <2>1, CopyIntact
  <2>3. P' = P
    BY <2>1 DEF P
  <2>4. CASE PlanCopy
    BY <1>0, <2>2, <2>3, <2>4 DEF PlanCopy, T, TransferType, FailureHasCause, Stuck
  <2>5. ASSUME NEW ph \in {"Verified", "Activated"}, SetPhase(ph)
        PROVE  T'.phase = ph
    BY <1>0, <2>2, <2>3, <2>5 DEF SetPhase, T, TransferType
  <2> QED  BY <1>7, <2>4, <2>5 DEF Verify, Activate, FailureHasCause, Stuck
<1>8. ASSUME pc \in CopyStages, blame # {}, UNCHANGED blame
      PROVE  FailureHasCause'
  BY <1>8 DEF FailureHasCause
<1>9. CASE CheckDatabases
  <2>1. CASE blame # {}
    BY <1>8, <1>9, <2>1 DEF CheckDatabases, CopyStages, history
  <2>2. CASE blame = {}
    BY <1>1, <1>9, <2>2, NothingUnfit DEF CheckDatabases, CopyStages, history
  <2> QED  BY <2>1, <2>2
<1>10. CASE GiveUp
  <2>1. pc \in CopyStages /\ blame' = blame
    BY <1>10 DEF GiveUp, TargetUnfit, SourceUnfit, CopyStages, history
  <2>2. blame # {}
    BY <1>10, <2>1, NothingUnfit DEF GiveUp
  <2> QED  BY <1>8, <2>1, <2>2
<1>11. CASE OpenDatabases \/ HostWrite \/ Exit
  BY <1>1, <1>11 DEF OpenDatabases, HostWrite, Exit, ledgerVars, history
<1>12. CASE MarkInitialized \/ CommitStartup \/ CancelRequested \/ RollbackStartup \/ AbandonFailed
  BY <1>0, <1>2, <1>12
     DEF MarkInitialized, CommitStartup, CancelRequested, RollbackStartup, AbandonFailed, Closed, Switched,
         P, ProfileType
<1>13. CASE RequestMigration
  <2>1. T'.phase = "Requested"
    BY <1>0, <1>13, StorageAssumption
       DEF RequestMigration, P, T, ProfileType, Ids, IInv, Core, Types
  <2> QED  BY <2>1 DEF FailureHasCause, Stuck
<1>14. CASE Crash \/ Others
  BY <1>1, <1>2, <1>14 DEF Crash, Others, EditFile, EmptyRoot, LoseLedger, BlameOthers, ledgerVars
<1>15. CASE CopyFails
  BY <1>15 DEF CopyFails, FailureHasCause
<1> QED
  BY <1>3, <1>4, <1>5, <1>7, <1>9, <1>10, <1>11, <1>12, <1>13, <1>14, <1>15
     DEF Next, Onward, Copying, Opening

-----------------------------------------------------------------------------
(* The second induction, on top of the first.                              *)

JInv == IInv /\ Rest /\ Places /\ Fresh /\ Untouched /\ Intact /\ FailureHasCause

LEMMA InitJInv ==
  ASSUME Init
  PROVE  JInv
<1>1. IInv
  BY InitIInv
<1>2. /\ pc = "down" /\ entry = 0 /\ blame = {} /\ crashes = 0 /\ edits = 0 /\ ledger = "missing"
      /\ P = 0 /\ used = 0 /\ work = [r \in Roots |-> NoWork]
  BY DEF Init, NoProfile, P
<1>3. Rest
  <2>1. NoWork \in WorkType
    BY DEF NoWork, WorkType
  <2>2. 0 \in 0..(LastName + 1) /\ 0 \in 0..MaxCrashes /\ 0 \in 0..MaxEdits
    BY NamesAreNumbers, StorageAssumption
  <2> QED  BY <1>2, <2>1, <2>2 DEF Rest, Labels
<1>4. Places
  BY <1>2 DEF Places, Writing, CopyStages
<1>5. Fresh
  BY <1>2, IdsAreNotFiles DEF Init, Fresh
<1>6. Untouched /\ Intact /\ FailureHasCause
  BY <1>2 DEF Untouched, Intact, Unharmed, FailureHasCause
<1> QED  BY <1>1, <1>3, <1>4, <1>5, <1>6 DEF JInv

LEMMA AlwaysJInv == Spec => []JInv
<1>1. Init => JInv
  BY InitJInv
<1>2. JInv /\ [Next]_vars => JInv'
  BY NextIInv, RestStep, PlacesStep, FreshStep, UntouchedStep, IntactStep, FailureStep DEF JInv
<1> QED
  BY <1>1, <1>2, PTL DEF Spec

\* Every variable keeps its type; the entry a copy works on is a place in the plan or the
\* one past its end, however many files there are.
THEOREM TypeCorrect == Spec => []TypeOK
<1>1. JInv => TypeOK
  BY TypesAndRest DEF JInv, IInv, Core
<1> QED
  BY <1>1, AlwaysJInv, PTL

\* After any number of crashes outside the four windows, perform_copy gives up for good
\* only if one of its operations failed or somebody else changed a directory: the checks
\* of a resumed copy refuse nothing that an interrupted one has left (NothingUnfit).
THEOREM FailuresHaveCause == Spec => []FailureHasCause
<1>1. JInv => FailureHasCause
  BY DEF JInv
<1> QED
  BY <1>1, AlwaysJInv, PTL

\* Crashes and failed copies alone never make resolve_startup refuse an intact ledger,
\* unless the pending relocation gave up.
THEOREM AlwaysStarts == Spec => []StartsUnlessStuck
<1>1. ASSUME JInv, pc = "resolve", ledger = "valid", edits = 0
      PROVE  CanCopy \/ CanTry \/ CanHost \/ (P # 0 /\ T.phase \in Stuck)
  <2>1. RootUsable /\ PendingAgrees
    BY <1>1 DEF JInv, Untouched, IInv, Core
  <2>2. CASE P = 0
    BY <2>1, <2>2 DEF CanHost
  <2>3. CASE P # 0 /\ T.phase \in Resumable \cup Stuck
    BY <1>1, <2>1, <2>3 DEF PendingAgrees, CanCopy, Resumable, Stuck
  <2>4. CASE P # 0 /\ T.phase = "Activated"
    BY <1>1, <2>1, <2>4 DEF PendingAgrees, JInv, Untouched, SameRoots, CanTry, Resumable, Stuck
  <2>5. P # 0 => T.phase \in Resumable \cup Stuck \cup {"Activated"}
    BY <1>1, <2>1 DEF PendingAgrees
  <2> QED  BY <2>2, <2>3, <2>4, <2>5
<1>2. JInv => StartsUnlessStuck
  BY <1>1 DEF StartsUnlessStuck
<1> QED
  BY <1>2, AlwaysJInv, PTL

-----------------------------------------------------------------------------
(* StorageRoot implements DataHome.  Most steps change nothing a home is   *)
(* made of; a copied entry was absent from the target, and a switch finds  *)
(* the same files on both sides.                                           *)

\* What is about to be published is not there yet.
Unpublished == pc \in {"track", "publish"} => tree[T.target][entry] = "absent"

LEMMA UnpublishedStep ==
  ASSUME Unpublished, [Next]_vars
  PROVE  Unpublished'
<1> DEFINE Writes == {"track", "publish"}
<1>1. CASE UNCHANGED <<ledgerVars, tree>> /\ entry' = entry /\ (pc \in Writes \/ pc' \notin Writes)
  BY <1>1 DEF Unpublished, ledgerVars, P, T
<1>2. CASE pc' \notin Writes
  BY <1>2 DEF Unpublished
<1>3. CASE CreateTemp
  BY <1>3 DEF CreateTemp, Copied, GoTo, Unpublished, ledgerVars, P, T
<1>4. CASE TrackTemp \/ UNCHANGED vars
  BY <1>1, <1>2, <1>4 DEF TrackTemp, GoTo, vars, diskVars, pcVars
<1>5. CASE Starting \/ Hosting \/ Crash \/ Others
  <2>1. pc' \in {"down", "initialize", "create", "resolve", "roots", "starting", "opened", "host", "exiting"}
    BY <1>5 DEF Starting, Start, Reserve, CreateProfile, ResumeCopy, EnterRoot, Refuse, Hosting, Opening,
                OpenDatabases, MarkInitialized, CommitStartup, Exit, HostWrite, RequestMigration,
                CancelRequested, RollbackStartup, AbandonFailed, Crash, Others, EditFile, EmptyRoot,
                LoseLedger, ByOthers, GoTo, Stop, pcVars
  <2> QED  BY <1>2, <2>1
<1>6. CASE \/ CheckRoots \/ PlanCopy \/ CreateWork \/ WriteOwner \/ FindWork
           \/ BeginEntries \/ SkipEntries \/ KeepEntry \/ Publish \/ Unlink
  BY <1>2, <1>6 DEF CheckRoots, PlanCopy, CreateWork, WriteOwner, FindWork, BeginEntries, SkipEntries,
                    KeepEntry, Publish, Unlink, GoTo
<1>7. CASE \/ MakeScratch \/ CheckDatabases \/ Verify \/ CreateMarker \/ WriteMarker \/ FindMarker
           \/ Activate \/ GiveUp \/ CopyFails
  BY <1>2, <1>7 DEF MakeScratch, CheckDatabases, Verify, CreateMarker, WriteMarker, FindMarker, Activate,
                    GiveUp, CopyFails, GoTo, Stop
<1> QED
  BY <1>3, <1>4, <1>5, <1>6, <1>7 DEF Next, Onward, Copying, Hosting

KInv == JInv /\ Unpublished

LEMMA AlwaysKInv == Spec => []KInv
<1>1. Init => Unpublished
  BY DEF Init, Unpublished
<1>2. Unpublished /\ [Next]_vars => Unpublished'
  BY UnpublishedStep
<1> QED
  BY <1>1, <1>2, AlwaysJInv, PTL DEF Spec, KInv

\* Where the home is, and whether it is on trial.
LEMMA HomeIs ==
  ASSUME IInv
  PROVE  /\ ledger = "valid" => HomeOf = profile.root /\ HomeOf \in Roots /\ HomeOf # Nowhere
         /\ ledger # "valid" => HomeOf = Nowhere /\ TrialOf = Nowhere
         /\ P = 0 \/ T.phase # "Activated" => TrialOf = Nowhere
         /\ ledger = "valid" /\ P # 0 /\ T.phase = "Activated" =>
              TrialOf = T.source /\ TrialOf \in Roots /\ TrialOf # Nowhere
         /\ pc \in CopyStages => Home!MayWork /\ StageOf = "up"
         /\ pc \in HostLabels => HomeOf = profile.root /\ HomeOf \in Roots /\ HomeOf # Nowhere /\ StageOf = "up"
<1>1. Nowhere \notin Roots
  BY StorageAssumption DEF Roots
<1>2. profile.root \in Roots
  BY DEF IInv, Core, Types, ProfileType
<1>3. P # 0 => T.source \in Roots
  BY DEF IInv, Core, Types, ProfileType, TransferType, P, T
<1>4. pc \in CopyStages => ledger = "valid" /\ T.phase # "Activated"
  BY DEF IInv, Stages, CanCopy, Resumable
<1>5. pc \in HostLabels => ledger = "valid"
  BY DEF IInv, Stages
<1> QED
  BY <1>1, <1>2, <1>3, <1>4, <1>5 DEF HomeOf, TrialOf, StageOf, CopyStages, HostLabels, Home!MayWork

LEMMA DataTyped ==
  ASSUME Core
  PROVE  DataOf \in Home!AllData
BY IdsAreNotFiles DEF DataOf, Data, Home!AllData, Core, Types

LEMMA DataAlwaysTyped == IInv => DataOf \in Home!AllData
BY DataTyped DEF IInv

\* One entry of one directory is written.
LEMMA EntryWritten ==
  ASSUME Core, NEW r \in Roots, NEW n \in Names, NEW c \in Contents, tree' = [tree EXCEPT ![r][n] = c]
  PROVE  /\ DataOf' \in Home!AllData
         /\ Home!Altered \subseteq {<<r, n>>}
         /\ n \in Ids => DataOf' = DataOf
<1>0. tree \in [Roots -> [Names -> Contents]] /\ tree' \in [Roots -> [Names -> Contents]]
  BY DEF Core, Types
<1>1. \A s \in Roots, m \in Names : s # r \/ m # n => tree'[s][m] = tree[s][m]
  BY <1>0
<1>2. DataOf' \in Home!AllData
  BY <1>0, IdsAreNotFiles DEF DataOf, Data, Home!AllData
<1>3. \A s \in Roots, f \in Files : DataOf[s][f] = tree[s][f] /\ DataOf'[s][f] = tree'[s][f]
  BY DEF DataOf, Data
<1>4. Home!Altered \subseteq {<<r, n>>}
  <2> SUFFICES ASSUME NEW p \in Roots \X Files, DataOf'[p[1]][p[2]] # DataOf[p[1]][p[2]]
               PROVE  p = <<r, n>>
    BY DEF Home!Altered
  <2>1. p[1] \in Roots /\ p[2] \in Files /\ p[2] \in Names /\ p = <<p[1], p[2]>>
    BY IdsAreNotFiles
  <2>2. p[1] = r /\ p[2] = n
    BY <1>1, <1>3, <2>1
  <2> QED  BY <2>1, <2>2
<1>5. n \in Ids => DataOf' = DataOf
  BY <1>1, IdsAreNotFiles DEF DataOf, Data
<1> QED  BY <1>2, <1>4, <1>5

\* The steps no home is concerned by.
Unmoved == UNCHANGED <<HomeOf, TrialOf, DataOf, stale>>

LEMMA DataUnmoved ==
  ASSUME UNCHANGED tree
  PROVE  DataOf' = DataOf
BY DEF DataOf, Data

\* The relocation that is pending stays pending, on trial neither before nor after.
LEMMA NotOnTrial ==
  ASSUME IInv, IInv', UNCHANGED <<ledger, stale>>, profile'.root = profile.root, DataOf' = DataOf,
         P = 0 \/ T.phase # "Activated", P' = 0 \/ T'.phase # "Activated"
  PROVE  Unmoved
<1>1. TrialOf = Nowhere /\ HomeOf = IF ledger = "valid" THEN profile.root ELSE Nowhere
  BY HomeIs DEF HomeOf
<1>2. TrialOf' = Nowhere /\ HomeOf' = IF ledger = "valid" THEN profile.root ELSE Nowhere
  BY DEF TrialOf, HomeOf
<1> QED
  BY <1>1, <1>2 DEF Unmoved

LEMMA LedgerAlone ==
  ASSUME UNCHANGED <<ledgerVars, tree, stale>>
  PROVE  Unmoved
BY DataUnmoved DEF Unmoved, ledgerVars, HomeOf, TrialOf, P, T

LEMMA StopsUnmoved ==
  ASSUME Unmoved, pc # "down", pc' = "down"
  PROVE  Home!Stop
BY DEF Unmoved, Home!Stop, StageOf

LEMMA StaysUnmoved ==
  ASSUME Unmoved, pc = "down" <=> pc' = "down"
  PROVE  UNCHANGED Home!homeVars
BY DEF Unmoved, Home!homeVars, StageOf

LEMMA HomeStarts ==
  ASSUME IInv, IInv', Starting
  PROVE  [Home!Next]_(Home!homeVars)
<1>1. CASE Start
  <2>1. Unmoved /\ pc = "down" /\ pc' # "down"
    BY <1>1, LedgerAlone DEF Start, GoTo, diskVars, history
  <2> QED  BY <2>1 DEF Unmoved, Home!Next, Home!Start, StageOf
<1>2. CASE Reserve
  <2>1. ledger # "valid" /\ ledger' # "valid" /\ UNCHANGED <<tree, stale>> /\ pc # "down" /\ pc' # "down"
    BY <1>2 DEF Reserve, GoTo, IInv, Stages, diskVars, history
  <2>2. Unmoved
    BY <2>1, DataUnmoved DEF Unmoved, HomeOf, TrialOf
  <2> QED  BY <2>1, <2>2, StaysUnmoved
<1>3. CASE CreateProfile
  <2>1. /\ pc = "create" /\ pc' = "resolve" /\ ledger # "valid" /\ ledger' = "valid"
        /\ UNCHANGED <<tree, stale>> /\ MayInitialize
    BY <1>3 DEF CreateProfile, GoTo, IInv, Stages, diskVars
  <2>2. profile'.root = InitialRoot /\ profile'.pending = 0
    BY <1>3 DEF CreateProfile, NoProfile
  <2>3. InitialRoot \in Roots \ stale
    BY <2>1, InitialRootFits DEF IInv
  <2>4. HomeOf = Nowhere /\ TrialOf = Nowhere
    BY <2>1 DEF HomeOf, TrialOf
  <2>5. HomeOf' = InitialRoot /\ TrialOf' = Nowhere
    BY <2>1, <2>2 DEF HomeOf, TrialOf, P
  <2>6. StageOf = "up" /\ StageOf' = "up"
    BY <2>1 DEF StageOf
  <2>7. Home!Settle
    BY <2>1, <2>3, <2>4, <2>5, <2>6, DataUnmoved DEF Home!Settle
  <2> QED  BY <2>7 DEF Home!Next
<1>4. CASE ResumeCopy \/ EnterRoot
  <2>1. Unmoved /\ pc # "down" /\ pc' # "down"
    BY <1>4, LedgerAlone DEF ResumeCopy, EnterRoot, GoTo, diskVars, history
  <2> QED  BY <2>1, StaysUnmoved
<1>5. CASE Refuse
  <2>1. Unmoved /\ pc # "down" /\ pc' = "down"
    BY <1>5, LedgerAlone DEF Refuse, Stop, diskVars, history
  <2> QED  BY <2>1, StopsUnmoved DEF Home!Next
<1> QED
  BY <1>1, <1>2, <1>3, <1>4, <1>5 DEF Starting

\* An entry is published under a name that was free, in the directory that is not the home.
LEMMA HomeFilled ==
  ASSUME IInv, Unpublished, Publish
  PROVE  Home!Fill
<1>1. /\ pc \in CopyStages /\ pc' = "unlink" /\ entry \in Names
      /\ UNCHANGED <<ledger, profile, transfer, stale>>
      /\ tree' = [tree EXCEPT ![T.target][entry] = tree[T.source][entry]]
  BY DEF Publish, GoTo, CopyStages, IInv, Stages, ledgerVars, history
<1>2. /\ ledger = "valid" /\ T.target \in Roots /\ T.source \in Roots
      /\ profile.root = T.source /\ T.source # T.target
  BY <1>1, CopyTyped DEF TransferType
<1>3. tree[T.source][entry] \in Contents
  BY <1>1, <1>2 DEF IInv, Core, Types
<1>4. DataOf' \in Home!AllData /\ Home!Altered \subseteq {<<T.target, entry>>}
  BY <1>1, <1>2, <1>3, EntryWritten DEF IInv
<1>5. tree[T.target][entry] = "absent"
  BY DEF Publish, Unpublished
<1>6. Home!MayWork /\ StageOf = "up" /\ HomeOf = profile.root
  BY <1>1, <1>2, HomeIs
<1>7. Home!Altered \subseteq {p \in (Roots \ {HomeOf}) \X Files : DataOf[p[1]][p[2]] = "absent"}
  <2> SUFFICES ASSUME NEW p \in Home!Altered
               PROVE  p \in (Roots \ {HomeOf}) \X Files /\ DataOf[p[1]][p[2]] = "absent"
    OBVIOUS
  <2>1. p = <<T.target, entry>> /\ p \in Roots \X Files
    BY <1>4 DEF Home!Altered
  <2>2. p[1] = T.target /\ p[2] = entry /\ entry \in Files
    BY <2>1
  <2>3. DataOf[T.target][entry] = tree[T.target][entry]
    BY <1>2, <2>2 DEF DataOf, Data
  <2> QED  BY <1>2, <1>5, <1>6, <2>1, <2>2, <2>3
<1>8. UNCHANGED <<StageOf, HomeOf, TrialOf, stale>>
  BY <1>1 DEF StageOf, HomeOf, TrialOf, P, T, CopyStages
<1> QED
  BY <1>4, <1>6, <1>7, <1>8 DEF Home!Fill, Home!Alters

\* The switch: the home moves to a directory that holds the same files.
LEMMA HomeMoved ==
  ASSUME IInv, Activate
  PROVE  Home!Move
<1>0. /\ ledger = "valid" /\ P \in Ids /\ P # 0 /\ T \in TransferType /\ profile.root = T.source
      /\ T.source # T.target /\ T.phase \in Resumable
      /\ T.source \in Roots /\ T.target \in Roots /\ pc \in CopyStages
  BY CopyTyped, IdsAreNotFiles DEF Activate, CopyStages, CanCopy, TransferType
<1>1. transfer'[P].phase = "Activated" /\ transfer'[P].source = T.source
  BY <1>0, PhaseSet DEF Activate, IInv, Phases
<1>2. profile'.root = T.target /\ profile'.pending = P
  BY <1>0, SwitchedType DEF Activate, IInv, Core, Types, TransferType, P
<1>3. /\ UNCHANGED <<ledger, tree>> /\ pc' = "resolve"
      /\ stale' = (stale \cup {T.source}) \ {T.target}
  BY DEF Activate, GoTo, diskVars
<1>4. Data(T.target) = Data(T.source)
  BY <1>0, IdsAreNotFiles DEF Activate, SourceAsPlannedButMarked, TargetAsPlanned, Without, Data,
                              IInv, Core, Types, TransferType
<1>5. HomeOf = T.source /\ Home!MayWork /\ StageOf = "up"
  BY <1>0, HomeIs
<1>6. HomeOf' = T.target /\ TrialOf' = T.source /\ StageOf' = "up" /\ P' = P
  BY <1>0, <1>1, <1>2, <1>3 DEF HomeOf, TrialOf, StageOf, P, T
<1>7. DataOf[T.target] = DataOf[T.source] /\ DataOf' = DataOf
  BY <1>0, <1>3, <1>4, DataUnmoved DEF DataOf
<1> QED
  BY <1>0, <1>3, <1>5, <1>6, <1>7 DEF Home!Move

LEMMA HomeCopied ==
  ASSUME IInv, IInv', Unpublished, Copying
  PROVE  [Home!Next]_(Home!homeVars)
<1>0. pc \in CopyStages => pc # "down"
  BY DEF CopyStages
<1>1. CASE \/ CheckRoots \/ CreateWork \/ WriteOwner \/ FindWork
           \/ BeginEntries \/ SkipEntries \/ KeepEntry \/ CreateTemp \/ TrackTemp
  <2>1. UNCHANGED <<ledgerVars, tree, stale>> /\ pc # "down" /\ pc' # "down"
    BY <1>1 DEF CheckRoots, CreateWork, WriteOwner, FindWork, BeginEntries, SkipEntries, KeepEntry,
                CreateTemp, TrackTemp, GoTo, diskVars, history
  <2> QED  BY <2>1, LedgerAlone, StaysUnmoved
<1>2. CASE Unlink \/ MakeScratch \/ FindMarker
  <2>1. UNCHANGED <<ledgerVars, tree, stale>> /\ pc # "down" /\ pc' # "down"
    BY <1>2 DEF Unlink, MakeScratch, FindMarker, GoTo, diskVars, history
  <2> QED  BY <2>1, LedgerAlone, StaysUnmoved
<1>3. CASE PlanCopy
  <2>1. /\ pc \in CopyStages /\ pc' = "own" /\ UNCHANGED <<ledger, profile, tree, stale>>
        /\ transfer' = [transfer EXCEPT ![P] = [@ EXCEPT !.phase = "Copying", !.plan = tree[T.source]]]
    BY <1>3 DEF PlanCopy, GoTo, CopyStages, diskVars, history
  <2>2. P \in Ids /\ P' = P /\ T.phase # "Activated" /\ T \in TransferType
    BY <2>1, CopyTyped DEF P, CanCopy, Resumable
  <2>3. T'.phase = "Copying"
    BY <2>1, <2>2 DEF T, TransferType, IInv, Core, Types
  <2>4. Unmoved
    BY <2>1, <2>2, <2>3, DataUnmoved, NotOnTrial
  <2> QED  BY <1>0, <2>1, <2>4, StaysUnmoved
<1>4. CASE Publish
  BY <1>4, HomeFilled DEF Home!Next
<1>5. ASSUME pc \in CopyStages, NEW ph \in Phases \ {"Activated"}, SetPhase(ph),
             UNCHANGED <<ledger, profile, tree, stale>>
      PROVE  Unmoved
  <2>1. P # 0 /\ ledger = "valid" /\ P' = P /\ T.phase # "Activated"
    BY <1>5, CopyTyped, IdsAreNotFiles DEF P, CanCopy, Resumable
  <2>2. T'.phase = ph
    BY <1>5, <2>1, PhaseSet DEF IInv, T
  <2> QED  BY <1>5, <2>1, <2>2, DataUnmoved, NotOnTrial
<1>6. CASE CheckDatabases
  <2>0. pc \in CopyStages /\ UNCHANGED <<ledger, profile, used, tree, stale>>
    BY <1>6 DEF CheckDatabases, CopyStages, history
  <2>1. CASE tree[T.target][Db] = "busy"
    <3>1. pc' = "down" /\ SetPhase("NeedsRecovery")
      BY <1>6, <2>1 DEF CheckDatabases, Stop
    <3>2. Unmoved
      BY <1>5, <2>0, <3>1 DEF Phases
    <3> QED  BY <1>0, <2>0, <3>1, <3>2, StopsUnmoved DEF Home!Next
  <2>2. CASE tree[T.target][Db] # "busy"
    <3>1. pc' = "verify" /\ UNCHANGED ledgerVars
      BY <1>6, <2>0, <2>2 DEF CheckDatabases, GoTo, ledgerVars
    <3> QED  BY <1>0, <2>0, <3>1, LedgerAlone, StaysUnmoved
  <2> QED  BY <2>1, <2>2
<1>7. CASE Verify
  <2>1. /\ pc \in CopyStages /\ pc' = "mark" /\ SetPhase("Verified")
        /\ UNCHANGED <<ledger, profile, tree, stale>>
    BY <1>7 DEF Verify, GoTo, CopyStages, diskVars, history
  <2>2. Unmoved
    BY <1>5, <2>1 DEF Phases
  <2> QED  BY <1>0, <2>1, <2>2, StaysUnmoved
<1>8. CASE GiveUp
  <2>0. pc \in CopyStages /\ pc' = "down" /\ UNCHANGED <<ledger, profile, tree, stale>>
    BY <1>8 DEF GiveUp, Stop, TargetUnfit, SourceUnfit, CopyStages, diskVars, history
  <2>1. SetPhase("Failed") \/ SetPhase("NeedsRecovery")
    BY <1>8 DEF GiveUp
  <2>2. Unmoved
    BY <1>5, <2>0, <2>1 DEF Phases
  <2> QED  BY <1>0, <2>0, <2>2, StopsUnmoved DEF Home!Next
<1>9. CASE CreateMarker \/ WriteMarker
  <2>1. /\ pc \in CopyStages /\ pc' \in CopyStages
        /\ UNCHANGED <<ledger, profile, transfer, stale>>
    BY <1>9 DEF CreateMarker, WriteMarker, GoTo, CopyStages, ledgerVars, history
  <2>2. P \in Ids /\ T.source \in Roots
    BY <2>1, CopyTyped DEF TransferType
  <2>3. PICK c \in Contents : tree' = [tree EXCEPT ![T.source][P] = c]
    BY <1>9 DEF CreateMarker, WriteMarker, Contents
  <2>4. DataOf' = DataOf
    BY <2>2, <2>3, EntryWritten, IdsAreNotFiles DEF IInv
  <2>5. Unmoved
    BY <2>1, <2>4 DEF Unmoved, HomeOf, TrialOf, P, T
  <2> QED  BY <1>0, <2>1, <2>5, StaysUnmoved DEF CopyStages
<1>10. CASE Activate
  BY <1>10, HomeMoved DEF Home!Next
<1> QED
  BY <1>1, <1>2, <1>3, <1>4, <1>6, <1>7, <1>8, <1>9, <1>10 DEF Copying

\* One file of the home is written.
LEMMA HomeWritten ==
  ASSUME IInv, ledger = "valid", NEW f \in Files, NEW c \in Contents,
         tree' = [tree EXCEPT ![profile.root][f] = c]
  PROVE  Home!Alters({HomeOf} \X {f})
<1>1. profile.root \in Roots /\ f \in Names
  BY IdsAreNotFiles DEF IInv, Core, Types, ProfileType
<1>2. DataOf' \in Home!AllData /\ Home!Altered \subseteq {<<profile.root, f>>}
  BY <1>1, EntryWritten DEF IInv
<1>3. {<<profile.root, f>>} = {HomeOf} \X {f}
  BY HomeIs
<1> QED  BY <1>2, <1>3 DEF Home!Alters

LEMMA HomeHosted ==
  ASSUME IInv, IInv', Places, Hosting
  PROVE  [Home!Next]_(Home!homeVars)
<1>0. pc \in HostLabels => pc # "down" /\ ledger = "valid"
  BY DEF HostLabels, IInv, Stages
<1>1. CASE OpenDatabases
  <2>1. /\ pc \in HostLabels /\ pc' \in HostLabels /\ UNCHANGED <<ledger, profile, transfer, stale>>
    BY <1>1 DEF OpenDatabases, GoTo, HostLabels, ledgerVars
  <2>2. UNCHANGED <<StageOf, HomeOf, TrialOf, stale>>
    BY <2>1 DEF StageOf, HomeOf, TrialOf, P, T, HostLabels
  <2>3. CASE UNCHANGED tree
    BY <2>2, <2>3, DataUnmoved DEF Home!homeVars
  <2>4. CASE tree' # tree
    <3>1. tree' = [tree EXCEPT ![profile.root][Db] = "a"] /\ "a" \in Contents /\ Db \in Files
      BY <1>1, <2>4, IdsAreNotFiles DEF OpenDatabases, Contents, Settled
    <3>2. Home!Alters({HomeOf} \X {Db})
      BY <1>0, <2>1, <3>1, HomeWritten
    <3>3. Home!Repair
      BY <2>1, <2>2, <3>2, HomeIs DEF Home!Repair
    <3> QED  BY <3>3 DEF Home!Next
  <2> QED  BY <2>3, <2>4
<1>2. CASE MarkInitialized
  <2>1. /\ pc \in HostLabels /\ pc' \in HostLabels /\ UNCHANGED <<ledger, transfer, tree, stale>>
        /\ P = 0 /\ profile' = [profile EXCEPT !.required = TRUE]
    BY <1>2 DEF MarkInitialized, GoTo, HostLabels, diskVars, history
  <2>2. P' = 0 /\ profile'.root = profile.root
    BY <2>1 DEF P, IInv, Core, Types, ProfileType
  <2>3. Unmoved
    BY <2>1, <2>2, DataUnmoved, NotOnTrial
  <2> QED  BY <2>1, <2>3, StaysUnmoved DEF HostLabels
<1>3. CASE CommitStartup
  <2>1. /\ pc \in HostLabels /\ pc' \in HostLabels /\ UNCHANGED <<ledger, tree, stale>>
        /\ P # 0 /\ T.phase = "Activated" /\ profile' = [Closed EXCEPT !.required = TRUE]
    BY <1>3 DEF CommitStartup, OnTrial, GoTo, HostLabels, diskVars, history
  <2>2. P' = 0 /\ profile'.root = profile.root
    BY <2>1, ClosedType DEF P, IInv, Core, Types, ProfileType
  <2>3. /\ UNCHANGED <<StageOf, HomeOf, DataOf, stale>> /\ StageOf = "up"
        /\ TrialOf # Nowhere /\ TrialOf' = Nowhere
    BY <1>0, <2>1, <2>2, HomeIs, DataUnmoved DEF StageOf, HomeOf, TrialOf, HostLabels
  <2> QED  BY <2>3 DEF Home!Keep, Home!Next
<1>4. CASE Exit
  <2>1. Unmoved /\ pc # "down" /\ pc' = "down"
    BY <1>4, LedgerAlone DEF Exit, Stop, diskVars, history
  <2> QED  BY <2>1, StopsUnmoved DEF Home!Next
<1>5. CASE HostWrite
  <2>1. /\ pc = "host" /\ pc' = "host" /\ UNCHANGED <<ledger, profile, transfer, stale>> /\ P = 0
    BY <1>5 DEF HostWrite, ledgerVars, pcVars, Places
  <2>2. PICK f \in Files, c \in Contents : tree' = [tree EXCEPT ![profile.root][f] = c]
    BY <1>5 DEF HostWrite, Contents, Settled
  <2>3. pc \in HostLabels /\ Home!Alters({HomeOf} \X {f})
    BY <1>0, <2>1, <2>2, HomeWritten DEF HostLabels
  <2>4. Home!Alters({HomeOf} \X Files)
    BY <2>3 DEF Home!Alters
  <2>5. UNCHANGED <<StageOf, HomeOf, TrialOf, stale>>
    BY <2>1 DEF StageOf, HomeOf, TrialOf, P, T
  <2>6. Home!Work
    BY <2>1, <2>3, <2>4, <2>5, HomeIs DEF Home!Work, Home!MayWork
  <2> QED  BY <2>6 DEF Home!Next
<1>6. CASE RequestMigration
  <2>1. /\ pc \in HostLabels /\ pc' \in HostLabels /\ UNCHANGED <<ledger, tree, stale>>
        /\ P = 0 /\ profile' = [profile EXCEPT !.pending = used + 1] /\ used + 1 \in Ids
    BY <1>6, StorageAssumption
       DEF RequestMigration, GoTo, HostLabels, diskVars, history, IInv, Core, Types, Ids
  <2>2. P' = used + 1 /\ profile'.root = profile.root
    BY <2>1 DEF P, IInv, Core, Types, ProfileType
  <2>3. T'.phase = "Requested"
    BY <1>6, <2>1, <2>2 DEF RequestMigration, T, IInv, Core, Types
  <2>4. Unmoved
    BY <2>1, <2>2, <2>3, DataUnmoved, NotOnTrial
  <2> QED  BY <2>1, <2>4, StaysUnmoved DEF HostLabels
<1>7. CASE CancelRequested \/ AbandonFailed
  <2>1. /\ UNCHANGED <<ledger, tree, stale>> /\ (pc = "down" <=> pc' = "down")
        /\ T.phase \in {"Requested"} \cup Stuck /\ profile' = Closed
    BY <1>7 DEF CancelRequested, AbandonFailed, GoTo, diskVars, pcVars, history
  <2>2. P' = 0 /\ profile'.root = profile.root
    BY <2>1, ClosedType DEF P, IInv, Core, Types
  <2>3. Unmoved
    BY <2>1, <2>2, DataUnmoved, NotOnTrial DEF Stuck
  <2> QED  BY <2>1, <2>3, StaysUnmoved
<1>8. CASE RollbackStartup
  <2>1. /\ pc \in HostLabels /\ pc' = "down" /\ UNCHANGED <<ledger, tree>>
        /\ P # 0 /\ T.phase = "Activated" /\ stale' = stale \ {T.source}
        /\ profile' = [Switched(T.source, T.sourceStamp) EXCEPT !.pending = 0]
    BY <1>8 DEF RollbackStartup, OnTrial, Stop, HostLabels, diskVars
  <2>2. T.source \in Roots /\ T.sourceStamp \in Nat
    BY <2>1 DEF IInv, Core, Types, ProfileType, TransferType, P, T
  <2>3. P' = 0 /\ profile'.root = T.source
    BY <2>1, <2>2, SwitchedType DEF P, IInv, Core, Types, ProfileType
  <2>4. StageOf = "up" /\ StageOf' = "down" /\ TrialOf = T.source /\ TrialOf # Nowhere
    BY <1>0, <2>1, HomeIs DEF StageOf
  <2>5. HomeOf' = T.source /\ TrialOf' = Nowhere
    BY <1>0, <2>1, <2>3 DEF HomeOf, TrialOf
  <2> QED  BY <2>1, <2>4, <2>5, DataUnmoved DEF Home!GoBack, Home!Next
<1> QED
  BY <1>1, <1>2, <1>3, <1>4, <1>5, <1>6, <1>7, <1>8 DEF Hosting, Opening

LEMMA HomeFails ==
  ASSUME IInv, IInv', CopyFails
  PROVE  [Home!Next]_(Home!homeVars)
<1>1. /\ pc \in CopyStages /\ pc # "down" /\ pc' = "down"
      /\ UNCHANGED <<ledger, profile, tree, stale>>
  BY DEF CopyFails, Stop, CopyStages
<1>2. PICK ph \in Phases : ph # "Activated" /\ SetPhase(ph)
  BY DEF CopyFails, Phases
<1>3. P # 0 /\ ledger = "valid" /\ P' = P /\ T.phase # "Activated"
  BY <1>1, CopyTyped, IdsAreNotFiles DEF P, CanCopy, Resumable
<1>4. T'.phase = ph
  BY <1>2, <1>3, PhaseSet DEF IInv, T
<1>5. Unmoved
  BY <1>1, <1>2, <1>3, <1>4, DataUnmoved, NotOnTrial
<1> QED  BY <1>1, <1>5, StopsUnmoved DEF Home!Next

LEMMA HomeCrashed ==
  ASSUME IInv, Places, Crash
  PROVE  Home!Stop
<1>1. pc # "down" /\ pc' = "down" /\ UNCHANGED <<ledger, profile, transfer, stale>>
  BY DEF Crash, Stop, ledgerVars
<1>2. UNCHANGED <<HomeOf, TrialOf, stale>> /\ StageOf = "up" /\ StageOf' = "down"
  BY <1>1 DEF StageOf, HomeOf, TrialOf, P, T
<1>3. CASE UNCHANGED tree
  BY <1>2, <1>3, DataUnmoved DEF Home!Stop
<1>4. CASE pc = "host" /\ tree' = [tree EXCEPT ![profile.root][Db] = "busy"]
  <2>1. P = 0 /\ pc \in HostLabels /\ ledger = "valid" /\ "busy" \in Contents
    BY <1>4 DEF Places, HostLabels, IInv, Stages, Contents
  <2>2. Home!Alters({HomeOf} \X {Db})
    BY <1>4, <2>1, IdsAreNotFiles, HomeWritten
  <2>3. Home!Alters({HomeOf} \X Files)
    BY <2>2, IdsAreNotFiles DEF Home!Alters
  <2> QED  BY <1>2, <2>1, <2>3, HomeIs DEF Home!Stop, Home!MayWork
<1> QED  BY <1>3, <1>4 DEF Crash

LEMMA HomeTouched ==
  ASSUME IInv, IInv', Others
  PROVE  Home!Next
<1>0. DataOf' \in Home!AllData
  <2>1. IInv' => (DataOf \in Home!AllData)'
    BY DataAlwaysTyped, PTL
  <2> QED  BY <2>1 DEF Home!AllData
<1>1. CASE \E r \in Roots, f \in Files : EditFile(r, f)
  <2>1. pc = "down" /\ pc' = "down" /\ UNCHANGED <<ledger, profile, transfer, stale>>
    BY <1>1 DEF EditFile, ByOthers, ledgerVars, pcVars
  <2>2. UNCHANGED <<HomeOf, TrialOf>> /\ StageOf = "down" /\ StageOf' = "down"
    BY <2>1 DEF StageOf, HomeOf, TrialOf, P, T
  <2> QED  BY <1>0, <2>1, <2>2 DEF Home!Others, Home!Next
<1>2. ASSUME NEW r \in Roots, EmptyRoot(r)
      PROVE  Home!Others
  <2>1. /\ pc = "down" /\ pc' = "down" /\ UNCHANGED <<ledger, profile, transfer>>
        /\ stale' = stale \ {r} /\ tree' = [tree EXCEPT ![r] = EmptyTree]
    BY <1>2 DEF EmptyRoot, ByOthers, ledgerVars, pcVars
  <2>2. UNCHANGED <<HomeOf, TrialOf>> /\ StageOf = "down" /\ StageOf' = "down"
    BY <2>1 DEF StageOf, HomeOf, TrialOf, P, T
  <2>3. DataOf'[r] = Home!Nothing
    BY <2>1, IdsAreNotFiles DEF DataOf, Data, EmptyTree, Home!Nothing, IInv, Core, Types
  <2> QED  BY <1>0, <2>1, <2>2, <2>3 DEF Home!Others
<1>3. CASE LoseLedger
  <2>1. pc = "down" /\ pc' = "down" /\ ledger' # "valid" /\ UNCHANGED <<tree, stale>>
    BY <1>3 DEF LoseLedger, ByOthers, pcVars, diskVars, history
  <2>2. HomeOf' = Nowhere /\ TrialOf' = Nowhere /\ StageOf = "down" /\ StageOf' = "down"
    BY <2>1 DEF StageOf, HomeOf, TrialOf
  <2> QED  BY <2>1, <2>2, DataUnmoved DEF Home!Forget, Home!Next
<1> QED
  BY <1>1, <1>2, <1>3 DEF Others, Home!Next

LEMMA HomeInit == Init => Home!Init
<1> SUFFICES ASSUME Init PROVE Home!Init
  OBVIOUS
<1>1. Core
  BY InitIInv DEF IInv
<1>2. StageOf = "down" /\ HomeOf = Nowhere /\ TrialOf = Nowhere /\ stale = {}
  BY DEF Init, StageOf, HomeOf, TrialOf
<1> QED  BY <1>1, <1>2, DataTyped DEF Home!Init

LEMMA HomeStep == KInv /\ KInv' /\ [Next]_vars => [Home!Next]_(Home!homeVars)
<1> SUFFICES ASSUME KInv, KInv', [Next]_vars PROVE [Home!Next]_(Home!homeVars)
  OBVIOUS
<1>0. IInv /\ IInv' /\ Places /\ Unpublished
  BY DEF KInv, JInv
<1>1. CASE UNCHANGED vars
  <2>1. Unmoved /\ pc' = pc
    BY <1>1, LedgerAlone DEF vars, diskVars, pcVars, history
  <2> QED  BY <2>1, StaysUnmoved
<1>2. CASE Starting
  BY <1>0, <1>2, HomeStarts
<1>3. CASE Copying
  BY <1>0, <1>3, HomeCopied
<1>4. CASE Hosting
  BY <1>0, <1>4, HomeHosted
<1>5. CASE Crash
  BY <1>0, <1>5, HomeCrashed DEF Home!Next
<1>6. CASE Others
  BY <1>0, <1>6, HomeTouched
<1>7. CASE CopyFails
  BY <1>0, <1>7, HomeFails
<1> QED
  BY <1>1, <1>2, <1>3, <1>4, <1>5, <1>6, <1>7 DEF Next, Onward, Hosting

\* A relocation brings the data set to its new home whole or not at all, overwrites and
\* removes no file of another directory, and writes nothing at the new home that going
\* back would lose, for any number of directories, files, relocations and crashes.
THEOREM RelocationImplementsHome == Spec => ImplementsHome
<1>1. Init => Home!Init
  BY HomeInit
<1>2. KInv /\ KInv' /\ [Next]_vars => [Home!Next]_(Home!homeVars)
  BY HomeStep
<1> QED
  BY <1>1, <1>2, AlwaysKInv, PTL DEF Spec, ImplementsHome, Home!Spec

-----------------------------------------------------------------------------
(* How far a copy has come.  Whatever it finds on disk, a step that does   *)
(* not end it brings it nearer to its end, and its end is at a fixed       *)
(* place: so a start is delayed, never held up.  That it ends is then a    *)
(* matter of the steps being taken, which the runs check.                  *)

\* The four steps of an entry lie between those before the first and those after the last.
Rank(label, n) ==
  CASE label = "roots" -> 0
    [] label = "plan" -> 1
    [] label = "own" -> 2
    [] label = "owner" -> 3
    [] label = "check" -> 4
    [] label = "entry" -> 5 + 4 * n
    [] label = "track" -> 6 + 4 * n
    [] label = "publish" -> 7 + 4 * n
    [] label = "unlink" -> 8 + 4 * n
    [] label = "quickcheck" -> 9 + 4 * (LastName + 1)
    [] label = "verify" -> 10 + 4 * (LastName + 1)
    [] label = "mark" -> 11 + 4 * (LastName + 1)
    [] label = "marker" -> 12 + 4 * (LastName + 1)
    [] label = "activate" -> 13 + 4 * (LastName + 1)

CopyEnd == 13 + 4 * (LastName + 1)

\* A step of perform_copy that leads to another one of it comes nearer to the end.
CopyAdvances ==
  [][(pc \in CopyStages /\ pc' \in CopyStages) =>
       Rank(pc, entry) < Rank(pc', entry') /\ Rank(pc', entry') <= CopyEnd]_pcVars

LEMMA NextEntry ==
  ASSUME NEW a \in Nat
  PROVE  4 < 5 + 4 * a /\ \A b \in Nat : a < b => 8 + 4 * a < 5 + 4 * b
OBVIOUS

LEMMA RankEnds ==
  ASSUME NEW label \in CopyStages, NEW n \in 0..(LastName + 1)
  PROVE  /\ Rank(label, n) \in Nat
         /\ label # "activate" => Rank(label, n) < CopyEnd
         /\ label = "activate" => Rank(label, n) = CopyEnd
BY NamesAreNumbers DEF Rank, CopyStages, CopyEnd

LEMMA CopyStepAdvances ==
  ASSUME IInv, Rest, Rest', [Next]_vars, pcVars' # pcVars, pc \in CopyStages, pc' \in CopyStages
  PROVE  Rank(pc, entry) < Rank(pc', entry') /\ Rank(pc', entry') <= CopyEnd
<1>1. entry \in 0..(LastName + 1) /\ entry' \in 0..(LastName + 1) /\ LastName \in Nat
  BY NamesAreNumbers DEF Rest
<1>2. Rank(pc', entry') <= CopyEnd
  BY <1>1, RankEnds DEF CopyEnd
<1>3. pc \in {"track", "publish", "unlink"} => entry \in Names
  BY DEF IInv, Stages
<1>4. CASE BeginEntries
  <2>1. Rank(pc, entry) = 4 /\ Rank(pc', entry') = 5 + 4 * entry'
    BY <1>4 DEF BeginEntries, Rank
  <2>2. entry' \in Nat
    BY <1>1
  <2>3. 4 < 5 + 4 * entry'
    BY <2>2, NextEntry
  <2> QED  BY <1>2, <2>1, <2>3
<1>5. CASE KeepEntry \/ Unlink
  <2>1. /\ Rank(pc, entry) <= 8 + 4 * entry /\ Rank(pc', entry') = 5 + 4 * entry'
        /\ entry' = Following(entry) /\ entry \in Names
    BY <1>1, <1>3, <1>5 DEF KeepEntry, Unlink, Copied, Rank
  <2>2. entry < entry'
    BY <1>1, <2>1, FollowingIsNext, NamesAreNumbers
  <2>3. entry \in Nat /\ entry' \in Nat
    BY <1>1
  <2>4. 8 + 4 * entry < 5 + 4 * entry'
    BY <2>2, <2>3, NextEntry
  <2>5. Rank(pc, entry) < 5 + 4 * entry'
    <3>1. Rank(pc, entry) \in Nat
      BY <1>1, RankEnds
    <3> QED  BY <2>1, <2>3, <2>4, <3>1
  <2> QED  BY <1>2, <2>1, <2>5
<1>6. CASE CreateTemp \/ TrackTemp \/ Publish
  BY <1>1, <1>2, <1>6 DEF CreateTemp, TrackTemp, Publish, GoTo, Rank
<1>7. CASE CheckRoots \/ PlanCopy \/ CreateWork \/ WriteOwner \/ FindWork \/ SkipEntries
  BY <1>1, <1>2, <1>7 DEF CheckRoots, PlanCopy, CreateWork, WriteOwner, FindWork, SkipEntries, GoTo, Rank
<1>8. CASE MakeScratch
  BY <1>1, <1>2, <1>8 DEF MakeScratch, Rank
<1>9. CASE CheckDatabases \/ Verify \/ CreateMarker \/ WriteMarker \/ FindMarker
  BY <1>1, <1>2, <1>9 DEF CheckDatabases, Verify, CreateMarker, WriteMarker, FindMarker, GoTo, Stop, Rank,
                          CopyStages
<1>10. CASE Activate \/ GiveUp \/ CopyFails \/ Hosting \/ Crash
  BY <1>10 DEF Activate, GiveUp, CopyFails, Hosting, Opening, OpenDatabases, MarkInitialized, CommitStartup,
               Exit, HostWrite, RequestMigration, CancelRequested, RollbackStartup, AbandonFailed, Crash,
               GoTo, Stop, pcVars, CopyStages
<1>11. CASE Starting \/ Others \/ UNCHANGED vars
  BY <1>11 DEF Starting, Start, Reserve, CreateProfile, ResumeCopy, EnterRoot, Refuse, Others, EditFile,
               EmptyRoot, LoseLedger, ByOthers, vars, pcVars, CopyStages
<1> QED
  BY <1>4, <1>5, <1>6, <1>7, <1>8, <1>9, <1>10, <1>11 DEF Next, Onward, Copying, Hosting

\* perform_copy has no step that repeats: from one start to the next it takes at most
\* CopyEnd steps, whatever an earlier start, a crash or somebody else has left on disk.
THEOREM CopyIsBounded == Spec => CopyAdvances
<1>1. JInv /\ JInv' /\ [Next]_vars =>
        [(pc \in CopyStages /\ pc' \in CopyStages) =>
           Rank(pc, entry) < Rank(pc', entry') /\ Rank(pc', entry') <= CopyEnd]_pcVars
  BY CopyStepAdvances DEF JInv
<1> QED
  BY <1>1, AlwaysJInv, PTL DEF Spec, CopyAdvances

\* The phases of a relocation, in the order it may pass them.
Order(phase) ==
  CASE phase = "Idle" -> 0
    [] phase = "Requested" -> 1
    [] phase = "Copying" -> 2
    [] phase = "Verified" -> 3
    [] phase \in {"Activated", "NeedsRecovery", "Failed"} -> 4
    [] phase \in {"Committed", "RolledBack"} -> 5

\* A relocation whose record is written enters a later phase, or the ledger was lost.
PhasesGoForward ==
  [][\A i \in Ids :
       transfer'[i] # transfer[i] /\ ledger' = "valid" =>
         Order(transfer[i].phase) < Order(transfer'[i].phase)]_transfer

\* A relocation that was not requested yet has no phase.
Unrequested == \A i \in Ids : i > used => transfer[i].phase = "Idle"

\* One transaction writes the phase of one relocation; which one may follow, the stage of
\* the process tells.
LEMMA PhaseMoves ==
  ASSUME IInv, Places, [Next]_vars
  PROVE  \/ UNCHANGED <<transfer, used>>
         \/ /\ P \in Ids /\ used' = used
            /\ \E new \in TransferType :
                 /\ transfer' = [transfer EXCEPT ![P] = new]
                 /\ Order(T.phase) < Order(new.phase)
         \/ RequestMigration \/ LoseLedger
<1>0. transfer \in [Ids -> TransferType] /\ P \in {0} \cup Ids /\ 0 \notin Ids
  BY IdsAreNotFiles DEF IInv, Core, Types, ProfileType, P
<1>1. ASSUME P \in Ids, used' = used, NEW ph \in Phases, SetPhase(ph), Order(T.phase) < Order(ph)
      PROVE  \E new \in TransferType :
               /\ transfer' = [transfer EXCEPT ![P] = new]
               /\ Order(T.phase) < Order(new.phase)
  <2> DEFINE new == [T EXCEPT !.phase = ph]
  <2>1. T \in TransferType
    BY <1>0, <1>1 DEF T
  <2>2. new \in TransferType /\ new.phase = ph
    BY <2>1 DEF TransferType
  <2>3. transfer' = [transfer EXCEPT ![P] = new]
    BY <1>0, <1>1 DEF SetPhase, T
  <2> HIDE DEF new
  <2> QED  BY <1>1, <2>2, <2>3
<1>2. CASE UNCHANGED <<transfer, used>>
  BY <1>2
<1>3. pc \in CopyStages => P \in Ids /\ T.phase \in Resumable
  BY CopyTyped DEF CanCopy
<1>4. CASE PlanCopy
  <2> DEFINE half == [T EXCEPT !.phase = "Copying"]
             new == [half EXCEPT !.plan = tree[T.source]]
  <2>1. P \in Ids /\ T \in TransferType /\ T.phase = "Requested" /\ tree[T.source] \in [Names -> Contents]
    BY <1>3, <1>4, CopyTyped DEF PlanCopy, CopyStages, Places, TransferType, IInv, Core, Types
  <2>2. half \in TransferType /\ half.phase = "Copying"
    BY <2>1 DEF TransferType, Phases
  <2>3. new \in TransferType /\ new.phase = "Copying"
    <3> HIDE DEF half
    <3> QED  BY <2>1, <2>2 DEF TransferType
  <2>4. transfer' = [transfer EXCEPT ![P] = new] /\ used' = used
    BY <1>4 DEF PlanCopy, T
  <2>5. Order("Requested") < Order("Copying")
    BY DEF Order
  <2> HIDE DEF new
  <2> QED  BY <2>1, <2>3, <2>4, <2>5
<1>5. CASE CheckDatabases
  <2>1. P \in Ids /\ T.phase = "Copying" /\ Order("Copying") < Order("NeedsRecovery") /\ used' = used
    BY <1>3, <1>5 DEF CheckDatabases, CopyStages, Places, Order
  <2> QED  BY <1>1, <1>2, <1>5, <2>1 DEF CheckDatabases, Phases
<1>6. CASE Verify
  <2>1. P \in Ids /\ T.phase = "Copying" /\ Order("Copying") < Order("Verified")
    BY <1>3, <1>6 DEF Verify, CopyStages, Places, Order
  <2> QED  BY <1>1, <1>6, <2>1 DEF Verify, Phases
<1>7. CASE Activate
  <2>1. P \in Ids /\ T.phase = "Verified" /\ Order("Verified") < Order("Activated")
    BY <1>3, <1>7 DEF Activate, CopyStages, Places, Order
  <2> QED  BY <1>1, <1>7, <2>1 DEF Activate, Phases
<1>8. CASE GiveUp
  <2>1. /\ P \in Ids /\ T.phase \in Resumable /\ used' = used
        /\ SetPhase("Failed") \/ SetPhase("NeedsRecovery")
    BY <1>3, <1>8 DEF GiveUp, TargetUnfit, SourceUnfit, CopyStages
  <2>2. Order(T.phase) < Order("Failed") /\ Order(T.phase) < Order("NeedsRecovery")
    BY <2>1 DEF Order, Resumable
  <2> QED  BY <1>1, <2>1, <2>2 DEF Phases
<1>9. CASE CommitStartup \/ RollbackStartup
  <2>1. /\ P \in Ids /\ T.phase = "Activated" /\ used' = used
        /\ SetPhase("Committed") \/ SetPhase("RolledBack")
    BY <1>0, <1>9 DEF CommitStartup, RollbackStartup, OnTrial
  <2>2. Order(T.phase) < Order("Committed") /\ Order(T.phase) < Order("RolledBack")
    BY <2>1 DEF Order
  <2> QED  BY <1>1, <2>1, <2>2 DEF Phases
<1>10. CASE CancelRequested \/ AbandonFailed
  <2>1. /\ P \in Ids /\ T.phase \in {"Requested"} \cup Stuck /\ used' = used
        /\ SetPhase("RolledBack")
    BY <1>0, <1>10 DEF CancelRequested, AbandonFailed
  <2>2. Order(T.phase) < Order("RolledBack")
    BY <2>1 DEF Order, Stuck
  <2> QED  BY <1>1, <2>1, <2>2 DEF Phases
<1>11. CASE \/ CheckRoots \/ CreateWork \/ WriteOwner \/ FindWork \/ BeginEntries \/ SkipEntries
            \/ KeepEntry \/ CreateTemp \/ TrackTemp \/ Publish \/ Unlink \/ MakeScratch
            \/ CreateMarker \/ WriteMarker \/ FindMarker
  BY <1>11 DEF CheckRoots, CreateWork, WriteOwner, FindWork, BeginEntries, SkipEntries, KeepEntry,
               CreateTemp, TrackTemp, Publish, Unlink, MakeScratch, CreateMarker, WriteMarker, FindMarker,
               ledgerVars
<1>12. CASE Starting \/ OpenDatabases \/ MarkInitialized \/ Exit \/ HostWrite \/ UNCHANGED vars
  BY <1>12 DEF Starting, Start, Reserve, CreateProfile, ResumeCopy, EnterRoot, Refuse, OpenDatabases,
               MarkInitialized, Exit, HostWrite, vars, ledgerVars
<1>13. CASE Crash \/ \E r \in Roots : EmptyRoot(r) \/ \E f \in Files : EditFile(r, f)
  BY <1>13 DEF Crash, EmptyRoot, EditFile, ledgerVars
<1>14. CASE CopyFails
  <2>1. P \in Ids /\ T.phase \in Resumable /\ used' = used /\ SetPhase("Failed")
    BY <1>3, <1>14 DEF CopyFails
  <2>2. Order(T.phase) < Order("Failed")
    BY <2>1 DEF Order, Resumable
  <2> QED  BY <1>1, <2>1, <2>2 DEF Phases
<1> QED
  BY <1>4, <1>5, <1>6, <1>7, <1>8, <1>9, <1>10, <1>11, <1>12, <1>13, <1>14
     DEF Next, Onward, Copying, Opening, Others

LEMMA UnrequestedStep ==
  ASSUME IInv, Places, Fresh, Unrequested, [Next]_vars
  PROVE  Unrequested'
<1>0. transfer \in [Ids -> TransferType] /\ used \in Nat /\ Ids \subseteq Nat /\ P <= used
  BY StorageAssumption DEF IInv, Core, Types, Fresh, Ids
<1>1. CASE UNCHANGED <<transfer, used>>
  BY <1>1 DEF Unrequested
<1>2. ASSUME P \in Ids, used' = used, NEW new, transfer' = [transfer EXCEPT ![P] = new]
      PROVE  Unrequested'
  BY <1>0, <1>2 DEF Unrequested
<1>3. CASE RequestMigration
  <2>1. used' = used + 1 /\ \E new : transfer' = [transfer EXCEPT ![used + 1] = new]
    BY <1>3 DEF RequestMigration
  <2> QED  BY <1>0, <2>1 DEF Unrequested
<1>4. CASE LoseLedger
  BY <1>4 DEF LoseLedger, Unrequested, NoTransfer
<1> QED
  BY <1>1, <1>2, <1>3, <1>4, PhaseMoves

LEMMA PhaseStep ==
  ASSUME IInv, Places, Unrequested, [Next]_vars, ledger' = "valid", NEW i \in Ids, transfer'[i] # transfer[i]
  PROVE  Order(transfer[i].phase) < Order(transfer'[i].phase)
<1>0. transfer \in [Ids -> TransferType] /\ used \in Nat /\ Ids \subseteq Nat
  BY StorageAssumption DEF IInv, Core, Types, Ids
<1>1. ASSUME P \in Ids, NEW new \in TransferType, transfer' = [transfer EXCEPT ![P] = new],
             Order(T.phase) < Order(new.phase)
      PROVE  Order(transfer[i].phase) < Order(transfer'[i].phase)
  <2>1. i = P /\ transfer'[i] = new
    BY <1>0, <1>1
  <2> QED  BY <1>1, <2>1 DEF T
<1>2. CASE RequestMigration
  <2>1. PICK target \in Roots :
          transfer' = [transfer EXCEPT ![used + 1] =
            [source |-> profile.root, target |-> target, generation |-> profile.generation,
             phase |-> "Requested", plan |-> EmptyTree,
             sourceStamp |-> ident[profile.root], targetStamp |-> ident[target]]]
    BY <1>2 DEF RequestMigration
  <2>2. i = used + 1
    BY <1>0, <2>1
  <2>3. transfer'[i].phase = "Requested"
    BY <1>0, <2>1, <2>2
  <2>4. transfer[i].phase = "Idle"
    BY <1>0, <2>2 DEF Unrequested
  <2> QED  BY <2>3, <2>4 DEF Order
<1>3. CASE LoseLedger
  BY <1>3 DEF LoseLedger
<1> QED
  BY <1>1, <1>2, <1>3, PhaseMoves

\* A relocation passes its phases in one direction, from its request to its end, and an
\* ended one is never taken up again, through every crash, resumption and recovery.
THEOREM RelocationsGoForward == Spec => PhasesGoForward
<1>1. Init => Unrequested
  BY DEF Init, Unrequested, NoTransfer
<1>2. JInv /\ Unrequested /\ [Next]_vars => Unrequested'
  BY UnrequestedStep DEF JInv
<1>3. JInv /\ Unrequested /\ [Next]_vars =>
        [\A i \in Ids : transfer'[i] # transfer[i] /\ ledger' = "valid" =>
           Order(transfer[i].phase) < Order(transfer'[i].phase)]_transfer
  BY PhaseStep DEF JInv
<1> QED
  BY <1>1, <1>2, <1>3, AlwaysJInv, PTL DEF Spec, PhasesGoForward
==============================================================================
