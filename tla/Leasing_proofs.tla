--------------------------- MODULE Leasing_proofs ---------------------------
(***************************************************************************)
(* Proofs of the safety of module Leasing, for any repositories,           *)
(* authorities, spaces, clients and inputs.  They hold for callers that    *)
(* invoke every operation from any status, but for the promises to         *)
(* documented callers, whose theorems name what they ask of the callers.   *)
(***************************************************************************)
EXTENDS LeasingProperties, AuthorityGraph_proofs

-----------------------------------------------------------------------------
(* Type correctness.  The repositories a plan works in are known to be     *)
(* repositories only because endpoints are registered, so the two are      *)
(* proved together.                                                        *)

TypeInv == TypeOK /\ KnownEndpoints

LEMMA NoSpaceType == NoSpace \in SpaceRecords
BY DEF NoSpace, SpaceRecords, EmptyClaim, Claims

LEMMA PlanType ==
    ASSUME TypeOK, NEW s \in Spaces
    PROVE  Plan(s) \in SUBSET Authorities
<1>1. graph \in Graphs /\ spaces[s].claim \in Claims
  BY DEF TypeOK, SpaceRecords
<1> QED
  BY <1>1, HeldType DEF Plan

LEMMA SpaceWorkType ==
    ASSUME TypeInv, NEW s \in Spaces
    PROVE  WorkRepositories(graph, spaces[s].claim) \in SUBSET Repositories
<1>1. graph \in Graphs /\ spaces[s].claim \in Claims
  BY DEF TypeInv, TypeOK, SpaceRecords
<1>2. KnownClaim(graph, spaces[s].claim)
  BY DEF TypeInv, KnownEndpoints
<1>3. \A d \in graph.dependencies : d.authority \in Identifiers(graph)
  BY DEF TypeInv, KnownEndpoints
<1> QED
  BY <1>1, <1>2, <1>3, WorkType

LEMMA InitType == Init => TypeInv
<1> SUFFICES ASSUME Init PROVE TypeInv
  OBVIOUS
<1>1. graph \in Graphs
  BY DEF Init, EmptyGraph, Graphs
<1>2. spaces \in [Spaces -> SpaceRecords]
  BY NoSpaceType DEF Init
<1>3. /\ graphGeneration \in Nat
      /\ leases \in SUBSET LeaseRecords
      /\ worktrees \in SUBSET (Spaces \X Repositories)
      /\ reservedPlan \in [Spaces -> SUBSET Authorities]
  BY DEF Init
<1>4. debts \in [Spaces -> [Repositories -> DebtStatuses]]
  BY DEF Init, DebtStatuses
<1>5. calls \in [Clients -> Calls]
  BY DEF Init, Calls
<1>6. KnownEndpoints
  BY DEF Init, KnownEndpoints, EmptyGraph, NoSpace, KnownClaim, EmptyClaim
<1> QED
  BY <1>1, <1>2, <1>3, <1>4, <1>5, <1>6 DEF TypeInv, TypeOK

(* Rebasing moves the graph generation of a space and nothing else.        *)
LEMMA RebasedIsSpace ==
    ASSUME NEW candidate, NEW s, spaces[s] \in SpaceRecords, graphGeneration + 1 \in Nat
    PROVE  /\ Rebased(candidate, s) \in SpaceRecords
           /\ Rebased(candidate, s).status = spaces[s].status
           /\ Rebased(candidate, s).claim = spaces[s].claim
           /\ Rebased(candidate, s).held = spaces[s].held
           /\ Rebased(candidate, s).generated = spaces[s].generated
<1> DEFINE moved == [spaces[s] EXCEPT !.graphGeneration = graphGeneration + 1]
<1>1. Rebased(candidate, s) \in {spaces[s], moved}
  BY DEF Rebased
<1>2. /\ moved \in SpaceRecords
      /\ moved.status = spaces[s].status
      /\ moved.claim = spaces[s].claim
      /\ moved.held = spaces[s].held
      /\ moved.generated = spaces[s].generated
  BY DEF SpaceRecords
<1> QED
  BY <1>1, <1>2

(* An accepted growth of the graph keeps what was registered.              *)
LEMMA ExtendType ==
    ASSUME TypeInv, NEW candidate \in Graphs, Extend(candidate),
           graph.repositories \subseteq candidate.repositories,
           graph.authorities \subseteq candidate.authorities
    PROVE  TypeInv'
<1>1. graph' \in Graphs /\ graphGeneration' \in Nat
  BY DEF Extend, TypeInv, TypeOK
<1>2. \A s \in Spaces : /\ Rebased(candidate, s) \in SpaceRecords
                        /\ Rebased(candidate, s).claim = spaces[s].claim
  <2> TAKE s \in Spaces
  <2>1. spaces[s] \in SpaceRecords /\ graphGeneration + 1 \in Nat
    BY DEF TypeInv, TypeOK
  <2> QED
    BY <2>1, RebasedIsSpace
<1>3. spaces' \in [Spaces -> SpaceRecords]
  BY <1>2 DEF Extend
<1>4. TypeOK'
  BY <1>1, <1>3 DEF Extend, TypeInv, TypeOK
<1>5. \A d \in candidate.dependencies : d.authority \in Identifiers(candidate)
  BY DEF Extend, ValidGraph, DependenciesAreAcyclic
<1>6. Identifiers(graph) \subseteq Identifiers(candidate)
  BY DEF Identifiers
<1>7. \A s \in Spaces : spaces'[s].claim = spaces[s].claim
  BY <1>2 DEF Extend
<1>8. \A s \in Spaces : KnownClaim(candidate, spaces'[s].claim)
  BY <1>6, <1>7 DEF TypeInv, KnownEndpoints, KnownClaim
<1>9. KnownEndpoints'
  BY <1>5, <1>8 DEF KnownEndpoints, Extend
<1> QED
  BY <1>4, <1>9 DEF TypeInv

LEMMA TopologyType == TypeInv /\ Topology => TypeInv'
<1> SUFFICES ASSUME TypeInv, Topology PROVE TypeInv'
  OBVIOUS
<1> USE InputsAssumption DEF InputsAssumption
<1>0. graph \in Graphs
  BY DEF TypeInv, TypeOK
<1>1. CASE \E r \in Repositories : RegisterRepository(r)
  BY <1>0, <1>1, ExtendType DEF RegisterRepository, Graphs
<1>2. CASE \E x \in AuthorityInputs : RegisterAuthority(x)
  BY <1>0, <1>2, ExtendType DEF RegisterAuthority, Graphs
<1>3. CASE \E p \in ParentInputs : RelateParent(p)
  BY <1>0, <1>3, ExtendType DEF RelateParent, Graphs
<1>4. CASE \E d \in DependencyInputs : RelateDependency(d)
  BY <1>0, <1>4, ExtendType DEF RelateDependency, Graphs
<1> QED
  BY <1>1, <1>2, <1>3, <1>4 DEF Topology

(* What the other actions do to the topology and to the spaces.            *)
Shaped ==
    /\ graph \in Graphs
    /\ graphGeneration \in Nat
    /\ spaces \in [Spaces -> SpaceRecords]
    /\ KnownEndpoints

LEMMA SpaceReplaced ==
    ASSUME TypeInv, UNCHANGED <<graph, graphGeneration>>,
           NEW s \in Spaces, NEW record \in SpaceRecords,
           spaces' = [spaces EXCEPT ![s] = record],
           KnownClaim(graph, record.claim)
    PROVE  Shaped'
<1>1. spaces' \in [Spaces -> SpaceRecords]
  BY DEF TypeInv, TypeOK
<1>2. \A x \in Spaces : KnownClaim(graph, spaces'[x].claim)
  BY DEF TypeInv, TypeOK, KnownEndpoints
<1>3. KnownEndpoints'
  BY <1>2 DEF TypeInv, KnownEndpoints, KnownClaim, Identifiers
<1> QED
  BY <1>1, <1>3 DEF Shaped, TypeInv, TypeOK

LEMMA SpacesKept ==
    ASSUME TypeInv, UNCHANGED <<graph, graphGeneration, spaces>>
    PROVE  Shaped'
BY DEF TypeInv, TypeOK, Shaped, KnownEndpoints, KnownClaim, Identifiers

LEMMA DeclareShapes ==
    ASSUME TypeInv, UNCHANGED <<graph, graphGeneration>>,
           NEW s \in Spaces, NEW claim \in Claims, Declare(s, claim)
    PROVE  Shaped'
<1> DEFINE record == [spaces[s] EXCEPT !.claim = claim]
<1>0. spaces[s] \in SpaceRecords
  BY DEF TypeInv, TypeOK
<1>1. record \in SpaceRecords /\ record.claim = claim
  BY <1>0 DEF SpaceRecords
<1>2. spaces' = [spaces EXCEPT ![s] = record]
  BY DEF Declare
<1> QED
  BY <1>1, <1>2, SpaceReplaced DEF Declare

LEMMA BeginAffectCall ==
    ASSUME TypeInv, NEW s \in Spaces, NEW claim \in ClaimInputs, NEW c \in Clients,
           BeginAffectAdd(c, s, claim) \/ BeginAffectRemove(c, s, claim)
    PROVE  \E call \in AffectCalls : calls' = [calls EXCEPT ![c] = call]
<1>1. spaces[s] \in SpaceRecords
  BY DEF TypeInv, TypeOK
<1>2. spaces[s].claim \in Claims /\ claim \in Claims
  BY <1>1, InputsAssumption DEF SpaceRecords, InputsAssumption
<1> QED
  BY <1>2 DEF BeginAffectAdd, BeginAffectRemove, AffectCalls, Claims

LEMMA ShapeType == TypeInv /\ Shape => TypeInv'
<1> SUFFICES ASSUME TypeInv, NEW s \in Spaces,
                    \/ CreateSpace(s)
                    \/ \E r \in AssociationInputs : Associate(s, r)
                    \/ \E claim \in ClaimInputs :
                          \/ SetAffected(s, claim)
                          \/ \E c \in Clients :
                                BeginAffectAdd(c, s, claim) \/ BeginAffectRemove(c, s, claim)
             PROVE  TypeInv'
  BY DEF Shape
<1> USE InputsAssumption DEF InputsAssumption
<1>0. spaces[s] \in SpaceRecords /\ KnownClaim(graph, spaces[s].claim)
  BY DEF TypeInv, TypeOK, KnownEndpoints
<1>1. CASE CreateSpace(s)
  <2>1. [NoSpace EXCEPT !.status = "draft"] \in SpaceRecords
    BY NoSpaceType DEF SpaceRecords, Statuses
  <2>2. KnownClaim(graph, [NoSpace EXCEPT !.status = "draft"].claim)
    BY DEF NoSpace, KnownClaim, EmptyClaim
  <2>3. Shaped'
    BY <1>1, <2>1, <2>2, SpaceReplaced DEF CreateSpace
  <2> QED
    BY <1>1, <2>3 DEF CreateSpace, TypeInv, TypeOK, Shaped
<1>2. ASSUME NEW r \in AssociationInputs, Associate(s, r)
      PROVE  TypeInv'
  <2> DEFINE record == [spaces[s] EXCEPT !.associated = @ \cup {r}]
  <2>1. record \in SpaceRecords /\ record.claim = spaces[s].claim
    BY <1>0 DEF SpaceRecords
  <2>2. spaces' = [spaces EXCEPT ![s] = record]
    BY <1>2 DEF Associate
  <2>3. Shaped'
    BY <1>0, <1>2, <2>1, <2>2, SpaceReplaced DEF Associate
  <2> QED
    BY <1>2, <2>3 DEF Associate, TypeInv, TypeOK, Shaped
<1>3. ASSUME NEW claim \in ClaimInputs, SetAffected(s, claim)
      PROVE  TypeInv'
  <2>1. Shaped'
    BY <1>3, DeclareShapes DEF SetAffected
  <2> QED
    BY <1>3, <2>1 DEF SetAffected, TypeInv, TypeOK, Shaped
<1>4. ASSUME NEW claim \in ClaimInputs, NEW c \in Clients,
             BeginAffectAdd(c, s, claim) \/ BeginAffectRemove(c, s, claim)
      PROVE  TypeInv'
  <2>1. Shaped'
    BY <1>4, SpacesKept DEF BeginAffectAdd, BeginAffectRemove
  <2>3. PICK call \in AffectCalls : calls' = [calls EXCEPT ![c] = call]
    BY <1>4, BeginAffectCall
  <2>4. calls' \in [Clients -> Calls]
    BY <2>3 DEF TypeInv, TypeOK, Calls
  <2> QED
    BY <1>4, <2>1, <2>4 DEF BeginAffectAdd, BeginAffectRemove, TypeInv, TypeOK, Shaped
<1> QED
  BY <1>1, <1>2, <1>3, <1>4

(* The lease tables that the actions write.                                *)
LEMMA LeaseSetType ==
    ASSUME TypeOK, NEW s \in Spaces, NEW held \in SUBSET Authorities
    PROVE  /\ {[authority |-> a, owner |-> s] : a \in held} \in SUBSET LeaseRecords
           /\ Acquired(s, held) \in SUBSET LeaseRecords
           /\ Others(s) \in SUBSET LeaseRecords
BY DEF TypeOK, LeaseRecords, Acquired, Others

LEMMA FreedShapes ==
    ASSUME TypeInv, UNCHANGED <<graph, graphGeneration>>, NEW s \in Spaces, Freed(s)
    PROVE  Shaped' /\ leases' \in SUBSET LeaseRecords
<1> DEFINE record == [spaces[s] EXCEPT !.status = "released", !.held = {}]
<1>0. spaces[s] \in SpaceRecords /\ KnownClaim(graph, spaces[s].claim)
  BY DEF TypeInv, TypeOK, KnownEndpoints
<1>1. record \in SpaceRecords /\ record.claim = spaces[s].claim
  BY <1>0 DEF SpaceRecords, Statuses
<1>2. spaces' = [spaces EXCEPT ![s] = record]
  BY DEF Freed
<1>3. Shaped'
  BY <1>0, <1>1, <1>2, SpaceReplaced
<1> QED
  BY <1>3, LeaseSetType DEF Freed, TypeInv

LEMMA LeasesType == TypeInv /\ Leases => TypeInv'
<1> SUFFICES ASSUME TypeInv, NEW s \in Spaces,
                    \/ Lock(s)
                    \/ Release(s)
                    \/ Recover(s)
                    \/ Finalize(s)
                    \/ \E d \in DispositionInputs : SetHandoffDisposition(s, d)
                    \/ \E r \in Repositories : AbandonMember(s, r) \/ CleanupWorktree(s, r)
             PROVE  TypeInv'
  BY DEF Leases
<1> USE InputsAssumption DEF InputsAssumption
<1>0. /\ spaces[s] \in SpaceRecords
      /\ KnownClaim(graph, spaces[s].claim)
      /\ debts \in [Spaces -> [Repositories -> DebtStatuses]]
  BY DEF TypeInv, TypeOK, KnownEndpoints
<1>1. CASE Lock(s)
  <2> DEFINE record == [spaces[s] EXCEPT !.status = "locked",
                                         !.held = Plan(s),
                                         !.pinned = PinnedAtLock(s),
                                         !.graphGeneration = graphGeneration]
  <2>1. Plan(s) \in SUBSET Authorities
    BY PlanType DEF TypeInv
  <2>2. PinnedAtLock(s) \in SUBSET Repositories
    BY <1>0, SpaceWorkType DEF PinnedAtLock, SpaceRecords
  <2>3. graphGeneration \in Nat
    BY DEF TypeInv, TypeOK
  <2>4. record \in SpaceRecords /\ record.claim = spaces[s].claim
    BY <1>0, <2>1, <2>2, <2>3 DEF SpaceRecords, Statuses
  <2>5. spaces' = [spaces EXCEPT ![s] = record]
    BY <1>1 DEF Lock
  <2>6. Shaped'
    BY <1>0, <1>1, <2>4, <2>5, SpaceReplaced DEF Lock
  <2>7. leases' \in SUBSET LeaseRecords
    BY <1>1, <2>1, LeaseSetType DEF Lock, TypeInv
  <2> QED
    BY <1>1, <2>6, <2>7 DEF Lock, TypeInv, TypeOK, Shaped
<1>2. CASE Release(s)
  <2>1. debts' \in [Spaces -> [Repositories -> DebtStatuses]]
    BY <1>0, <1>2 DEF Release, DebtStatuses
  <2> QED
    BY <1>2, <2>1, FreedShapes DEF Release, TypeInv, TypeOK, Shaped
<1>3. CASE Recover(s)
  <2>1. debts' \in [Spaces -> [Repositories -> DebtStatuses]]
    BY <1>0, <1>3 DEF Recover, RecoveredDebt, DebtStatuses
  <2> QED
    BY <1>3, <2>1, FreedShapes DEF Recover, TypeInv, TypeOK, Shaped
<1>4. CASE Finalize(s)
  <2> DEFINE record == [spaces[s] EXCEPT !.status = "finalized"]
  <2>1. record \in SpaceRecords /\ record.claim = spaces[s].claim
    BY <1>0 DEF SpaceRecords, Statuses
  <2>2. spaces' = [spaces EXCEPT ![s] = record]
    BY <1>4 DEF Finalize
  <2>3. Shaped'
    BY <1>0, <1>4, <2>1, <2>2, SpaceReplaced DEF Finalize
  <2> QED
    BY <1>4, <2>3 DEF Finalize, TypeInv, TypeOK, Shaped
<1>5. ASSUME NEW d \in DispositionInputs, SetHandoffDisposition(s, d)
      PROVE  TypeInv'
  <2> DEFINE record == [spaces[s] EXCEPT !.disposition = d]
  <2>1. record \in SpaceRecords /\ record.claim = spaces[s].claim
    BY <1>0 DEF SpaceRecords
  <2>2. spaces' = [spaces EXCEPT ![s] = record]
    BY <1>5 DEF SetHandoffDisposition
  <2>3. Shaped'
    BY <1>0, <1>5, <2>1, <2>2, SpaceReplaced DEF SetHandoffDisposition
  <2> QED
    BY <1>5, <2>3 DEF SetHandoffDisposition, TypeInv, TypeOK, Shaped
<1>6. ASSUME NEW r \in Repositories, AbandonMember(s, r)
      PROVE  TypeInv'
  <2>1. debts' \in [Spaces -> [Repositories -> DebtStatuses]]
    BY <1>0, <1>6 DEF AbandonMember, DebtStatuses
  <2> QED
    BY <1>6, <2>1, SpacesKept DEF AbandonMember, TypeInv, TypeOK, Shaped
<1>7. ASSUME NEW r \in Repositories, CleanupWorktree(s, r)
      PROVE  TypeInv'
  BY <1>7, SpacesKept DEF CleanupWorktree, TypeInv, TypeOK, Shaped
<1> QED
  BY <1>1, <1>2, <1>3, <1>4, <1>5, <1>6, <1>7

(* The order of a reconciliation is a relation on repositories.            *)
LEMMA DependencyOrderType ==
    ASSUME TypeInv
    PROVE  RepositoryDependencies \in SUBSET (Repositories \X Repositories)
<1>1. graph \in Graphs /\ graph.repositories \subseteq Repositories
  BY DEF TypeInv, TypeOK, Graphs
<1>2. \A d \in graph.dependencies : Host(graph, d.authority) \in Repositories
  BY <1>1, HostType DEF TypeInv, KnownEndpoints
<1> QED
  BY <1>1, <1>2 DEF RepositoryDependencies

LEMMA StartType == ASSUME TypeInv, NEW c \in Clients, Start(c) PROVE TypeInv'
<1> SUFFICES ASSUME NEW s \in Spaces,
                    \/ \E op \in {"isolate", "defer"}, successor \in Spaces :
                          Reserve(c, op, s, successor)
                    \/ \E removed \in SUBSET spaces[s].artifacts : RemoveArtifacts(c, s, removed)
                    \/ BeginReconcile(c, s)
             PROVE  TypeInv'
  BY DEF Start
<1>0. spaces[s] \in SpaceRecords /\ KnownClaim(graph, spaces[s].claim)
  BY DEF TypeInv, TypeOK, KnownEndpoints
<1>1. ASSUME NEW op \in {"isolate", "defer"}, NEW successor \in Spaces,
             Reserve(c, op, s, successor)
      PROVE  TypeInv'
  <2> DEFINE work == WorkRepositories(graph, spaces[s].claim)
             call == [op |-> op, step |-> "materialize", space |-> successor,
                      held |-> Plan(s), work |-> work, artifacts |-> {}]
  <2>1. work \in SUBSET Repositories /\ Plan(s) \in SUBSET Authorities
    BY SpaceWorkType, PlanType DEF TypeInv
  <2>2. {l.owner : l \in Conflicts(s, Plan(s))} \in SUBSET Spaces
    BY DEF Conflicts, Others, TypeInv, TypeOK, LeaseRecords
  <2>3. graphGeneration \in Nat
    BY DEF TypeInv, TypeOK
  <2>4. Reserved(s) \in SpaceRecords
    BY <1>0, <2>1, <2>2, <2>3, NoSpaceType DEF Reserved, SpaceRecords, Statuses
  <2>5. Reserved(s).claim = spaces[s].claim
    BY DEF Reserved, NoSpace
  <2>6. Shaped'
    BY <1>0, <1>1, <2>4, <2>5, SpaceReplaced DEF Reserve
  <2>7. call \in Calls
    BY <2>1 DEF Calls, PrepareCalls
  <2>8. calls' \in [Clients -> Calls]
    BY <1>1, <2>7 DEF Reserve, TypeInv, TypeOK
  <2>9. reservedPlan' \in [Spaces -> SUBSET Authorities]
    BY <1>1, <2>1 DEF Reserve, TypeInv, TypeOK
  <2> QED
    BY <1>1, <2>6, <2>8, <2>9 DEF Reserve, TypeInv, TypeOK, Shaped
<1>2. ASSUME NEW removed \in SUBSET spaces[s].artifacts, RemoveArtifacts(c, s, removed)
      PROVE  TypeInv'
  <2>1. calls' \in [Clients -> Calls]
    BY <1>2 DEF RemoveArtifacts, TypeInv, TypeOK, Calls, RollbackCalls
  <2> QED
    BY <1>2, <2>1, SpacesKept DEF RemoveArtifacts, TypeInv, TypeOK, Shaped
<1>3. CASE BeginReconcile(c, s)
  <2> DEFINE call == [op |-> "reconcile", space |-> s, remaining |-> spaces[s].generated,
                      order |-> RepositoryDependencies]
  <2>1. RepositoryDependencies \in SUBSET (Repositories \X Repositories)
    BY DependencyOrderType
  <2>2. call \in Calls
    BY <1>0, <2>1 DEF Calls, ReconcileCalls, SpaceRecords
  <2>3. calls' \in [Clients -> Calls]
    BY <1>3, <2>2 DEF BeginReconcile, TypeInv, TypeOK
  <2> QED
    BY <1>3, <2>3, SpacesKept DEF BeginReconcile, TypeInv, TypeOK, Shaped
<1> QED
  BY <1>1, <1>2, <1>3

(* What the call of a preparation holds.                                   *)
LEMMA PrepareCallType ==
    ASSUME NEW call \in PrepareCalls
    PROVE  /\ call.op \in {"isolate", "defer"}
           /\ call.space \in Spaces
           /\ call.held \in SUBSET Authorities
           /\ call.work \in SUBSET Repositories
           /\ call.artifacts \in SUBSET Repositories
           /\ \A step \in {"materialize", "publish", "fail"} :
                 [call EXCEPT !.step = step] \in PrepareCalls
           /\ \A made \in SUBSET Repositories : [call EXCEPT !.artifacts = made] \in PrepareCalls
BY DEF PrepareCalls

LEMMA ContinueType == ASSUME TypeInv, NEW c \in Clients, Continue(c) PROVE TypeInv'
<1>0. /\ calls \in [Clients -> Calls]
      /\ worktrees \in SUBSET (Spaces \X Repositories)
      /\ Idle \in Calls
      /\ PrepareCalls \subseteq Calls
  BY DEF TypeInv, TypeOK, Calls
<1>1. CASE FinishAffect(c)
  <2>1. calls[c].space \in Spaces /\ calls[c].claim \in Claims
    BY <1>1 DEF FinishAffect, AffectCalls
  <2>2. Shaped'
    BY <1>1, <2>1, DeclareShapes DEF FinishAffect
  <2> QED
    BY <1>0, <1>1, <2>2 DEF FinishAffect, TypeInv, TypeOK, Shaped
<1>2. ASSUME NEW r \in Repositories, CreateWorktree(c, r)
      PROVE  TypeInv'
  <2>1. calls[c] \in PrepareCalls
    BY <1>2 DEF CreateWorktree, Preparing
  <2>2. [calls[c] EXCEPT !.artifacts = calls[c].artifacts \cup {r}] \in PrepareCalls
    BY <2>1, PrepareCallType
  <2>3. calls' \in [Clients -> Calls]
    BY <1>0, <1>2, <2>2 DEF CreateWorktree
  <2>4. worktrees' \in SUBSET (Spaces \X Repositories)
    <3>1. calls[c].space \in Spaces
      BY <2>1, PrepareCallType
    <3> QED
      BY <1>0, <1>2, <3>1 DEF CreateWorktree
  <2> QED
    BY <1>2, <2>3, <2>4, SpacesKept DEF CreateWorktree, TypeInv, TypeOK, Shaped
<1>3. CASE CreateWorkset(c) \/ MaterializationFails(c) \/ PublicationFails(c)
  <2>1. calls[c] \in PrepareCalls
    BY <1>3 DEF CreateWorkset, MaterializationFails, PublicationFails, Preparing
  <2>2. PICK step \in {"publish", "fail"} : calls' = [calls EXCEPT ![c].step = step]
    BY <1>3 DEF CreateWorkset, MaterializationFails, PublicationFails
  <2>3. [calls[c] EXCEPT !.step = step] \in PrepareCalls
    BY <2>1, PrepareCallType
  <2>4. calls' \in [Clients -> Calls]
    BY <1>0, <2>2, <2>3
  <2> QED
    BY <1>3, <2>4, SpacesKept
    DEF CreateWorkset, MaterializationFails, PublicationFails, TypeInv, TypeOK, Shaped
<1>4. CASE Publish(c)
  <2>1. calls[c] \in PrepareCalls
    BY <1>4 DEF Publish, Preparing
  <2>2. /\ calls[c].artifacts \in SUBSET Repositories
        /\ calls[c].held \in SUBSET Authorities
        /\ calls[c].space \in Spaces
    BY <2>1, PrepareCallType
  <2>3. /\ spaces[calls[c].space] \in SpaceRecords
        /\ KnownClaim(graph, spaces[calls[c].space].claim)
    BY <2>2 DEF TypeInv, TypeOK, KnownEndpoints
  <2>4. Published(c) \in SpaceRecords /\ Published(c).claim = spaces[calls[c].space].claim
    BY <2>2, <2>3 DEF Published, SpaceRecords, Statuses
  <2>6. Shaped'
    BY <1>4, <2>2, <2>3, <2>4, SpaceReplaced DEF Publish
  <2>5. leases' \in SUBSET LeaseRecords
    <3>1. {[authority |-> a, owner |-> calls[c].space] : a \in calls[c].held}
            \in SUBSET LeaseRecords
      BY <2>2, LeaseSetType DEF TypeInv
    <3> QED
      BY <1>4, <3>1 DEF Publish, TypeInv, TypeOK
  <2> QED
    BY <1>0, <1>4, <2>5, <2>6 DEF Publish, TypeInv, TypeOK, Shaped
<1>5. CASE RecordFailure(c)
  <2>1. calls[c] \in PrepareCalls
    BY <1>5 DEF RecordFailure, Preparing
  <2>2. calls[c].space \in Spaces /\ calls[c].artifacts \in SUBSET Repositories
    BY <2>1, PrepareCallType
  <2> DEFINE record == [spaces[calls[c].space] EXCEPT !.status = "preparation_failed",
                                                      !.artifacts = calls[c].artifacts]
  <2>3. /\ spaces[calls[c].space] \in SpaceRecords
        /\ KnownClaim(graph, spaces[calls[c].space].claim)
    BY <2>2 DEF TypeInv, TypeOK, KnownEndpoints
  <2>4. record \in SpaceRecords /\ record.claim = spaces[calls[c].space].claim
    BY <2>2, <2>3 DEF SpaceRecords, Statuses
  <2>5. spaces' = [spaces EXCEPT ![calls[c].space] = record]
    BY <1>5 DEF RecordFailure
  <2>6. Shaped'
    BY <1>5, <2>2, <2>3, <2>4, <2>5, SpaceReplaced DEF RecordFailure
  <2> QED
    BY <1>0, <1>5, <2>6 DEF RecordFailure, TypeInv, TypeOK, Shaped
<1>6. CASE CommitRollback(c)
  <2>1. calls[c].space \in Spaces
    BY <1>6 DEF CommitRollback, RollbackCalls
  <2> DEFINE record == [spaces[calls[c].space] EXCEPT !.status = "rolled_back"]
  <2>2. /\ spaces[calls[c].space] \in SpaceRecords
        /\ KnownClaim(graph, spaces[calls[c].space].claim)
    BY <2>1 DEF TypeInv, TypeOK, KnownEndpoints
  <2>3. record \in SpaceRecords /\ record.claim = spaces[calls[c].space].claim
    BY <2>2 DEF SpaceRecords, Statuses
  <2>4. spaces' = [spaces EXCEPT ![calls[c].space] = record]
    BY <1>6 DEF CommitRollback
  <2>5. Shaped'
    BY <1>6, <2>1, <2>2, <2>3, <2>4, SpaceReplaced DEF CommitRollback
  <2> QED
    BY <1>0, <1>6, <2>5 DEF CommitRollback, TypeInv, TypeOK, Shaped
<1>7. ASSUME NEW r \in Repositories, IntegrateMember(c, r)
      PROVE  TypeInv'
  <2> DEFINE left == calls[c].remaining \ {r}
  <2>1. calls[c] \in ReconcileCalls /\ calls[c].space \in Spaces
    BY <1>7 DEF IntegrateMember, ReconcileCalls
  <2>2. debts' \in [Spaces -> [Repositories -> DebtStatuses]]
    BY <1>7, <2>1 DEF IntegrateMember, TypeInv, TypeOK, DebtStatuses
  <2>3. [calls[c] EXCEPT !.remaining = left] \in ReconcileCalls
    BY <2>1 DEF ReconcileCalls
  <2>4. calls' \in [Clients -> Calls]
    <3>1. calls' = [calls EXCEPT ![c] = IF left = {} THEN Idle
                                          ELSE [calls[c] EXCEPT !.remaining = left]]
      BY <1>0, <1>7 DEF IntegrateMember
    <3> QED
      BY <1>0, <2>3, <3>1 DEF Calls
  <2> QED
    BY <1>0, <1>7, <2>2, <2>4, SpacesKept DEF IntegrateMember, TypeInv, TypeOK, Shaped
<1> QED
  BY <1>1, <1>2, <1>3, <1>4, <1>5, <1>6, <1>7 DEF Continue

LEMMA StepType == TypeInv /\ [Next]_vars => TypeInv'
<1> SUFFICES ASSUME TypeInv, [Next]_vars PROVE TypeInv'
  OBVIOUS
<1>1. ASSUME NEW c \in Clients, Abort(c)
      PROVE  TypeInv'
  BY <1>1, SpacesKept DEF Abort, TypeInv, TypeOK, Shaped, Calls
<1>2. CASE UNCHANGED vars
  BY <1>2, SpacesKept DEF vars, TypeInv, TypeOK, Shaped
<1> QED
  BY <1>1, <1>2, TopologyType, ShapeType, LeasesType, StartType, ContinueType DEF Next

(* In every reachable state the variables have their types, and claims and *)
(* dependencies name registered endpoints, so a plan resolves.             *)
THEOREM TypeCorrect == Spec => [](TypeOK /\ KnownEndpoints)
<1>1. Init => TypeInv
  BY InitType
<1>2. TypeInv /\ [Next]_vars => TypeInv'
  BY StepType
<1>3. Spec => []TypeInv
  BY <1>1, <1>2, PTL DEF Spec
<1> QED
  BY <1>3 DEF TypeInv

-----------------------------------------------------------------------------
(* Exclusive authority.  The argument: lock and isolate look for conflicts *)
(* with every other owner in the current graph; a growth of the graph is   *)
(* judged by the plan of each owner, and AccountedOrFrozen says that the   *)
(* leases of an owner whose held set equals its plan are exactly that plan.*)
(* Publication is the delicate step, because its held set is old: the      *)
(* successor holds nothing or its present plan (PreparationsAccounted), so *)
(* what is published either stands alone or differs from the plan, and     *)
(* then freezes the graph.                                                 *)

LeaseCore == UnshapedOwnsNothing /\ AccountedOrFrozen /\ ExclusiveAuthority

CallCore == PreparationsAccounted /\ OnePreparerPerSuccessor /\ WorktreesAreRecorded

Safe == TypeInv /\ LeaseCore /\ CallCore

\* The claim and the members of s stay, and its shape does not reopen.
Stays(s) ==
    /\ spaces'[s].claim = spaces[s].claim
    /\ spaces'[s].generated = spaces[s].generated
    /\ spaces[s].status # "absent" => spaces'[s].status # "absent"
    /\ spaces[s].status \notin {"absent", "draft"} => spaces'[s].status \notin {"absent", "draft"}

\* No call begins to prepare a successor.
CallsFollow ==
    \A c \in Clients : calls'[c] \in PrepareCalls =>
        /\ calls[c] \in PrepareCalls
        /\ calls'[c].space = calls[c].space
        /\ calls'[c].work = calls[c].work

\* A new worktree is one that the record of its space names.
NewWorktreesRecorded ==
    \A w \in worktrees' \ worktrees :
        /\ w[1] \in Spaces
        /\ spaces[w[1]].status # "absent"
        /\ w[2] \in spaces[w[1]].generated

LEMMA FewerWorktrees == worktrees' \subseteq worktrees => NewWorktreesRecorded
BY DEF NewWorktreesRecorded

LEMMA LeasesOfElements ==
    ASSUME NEW s, NEW l \in leases, l.owner = s
    PROVE  s \in Owners /\ l.authority \in LeasesOf(s)
BY DEF Owners, LeasesOf

LEMMA OwnersHold ==
    ASSUME NEW s
    PROVE  s \in Owners <=> LeasesOf(s) # {}
BY DEF Owners, LeasesOf

LEMMA LeasesKept ==
    ASSUME leases' = leases
    PROVE  Owners' = Owners /\ \A s : LeasesOf(s)' = LeasesOf(s)
BY DEF Owners, LeasesOf

LEMMA PlanKept ==
    ASSUME graph' = graph, NEW s, spaces'[s].claim = spaces[s].claim
    PROVE  Plan(s)' = Plan(s)
BY DEF Plan

LEMMA OwnersAreSpaces == TypeOK => Owners \subseteq Spaces
BY DEF TypeOK, Owners, LeaseRecords

(* The part about calls, when no preparation begins: it is enough that     *)
(* what is held by the successors in preparation stays accounted for.      *)
LEMMA CallsSafe ==
    ASSUME TypeInv, CallCore, CallsFollow, NewWorktreesRecorded,
           \A s \in Spaces : Stays(s) \/ spaces[s].status \in {"absent", "draft"},
           \A s \in Spaces : /\ spaces[s].status # "absent" => spaces'[s].status # "absent"
                             /\ spaces[s].status # "absent" =>
                                   spaces'[s].generated = spaces[s].generated,
           \A c \in Clients, s \in Spaces :
              calls'[c] \in PrepareCalls /\ calls[c] \in PrepareCalls /\ calls[c].space = s =>
                 LeasesOf(s)' \in {{}, Plan(s)'}
    PROVE  CallCore'
<1>1. PreparationsAccounted'
  <2> SUFFICES ASSUME NEW c \in Clients, calls'[c] \in PrepareCalls,
                      NEW s \in Spaces, s = calls'[c].space
               PROVE  /\ spaces'[s].status \notin {"absent", "draft"}
                      /\ calls'[c].work \subseteq spaces'[s].generated
                      /\ LeasesOf(s)' \in {{}, Plan(s)'}
    BY PrepareCallType DEF PreparationsAccounted, LeasesOf, Plan
  <2>1. /\ calls[c] \in PrepareCalls
        /\ calls[c].space = s
        /\ calls'[c].work = calls[c].work
    BY DEF CallsFollow
  <2>2. /\ spaces[s].status \notin {"absent", "draft"}
        /\ calls[c].work \subseteq spaces[s].generated
    BY <2>1 DEF CallCore, PreparationsAccounted
  <2> QED
    BY <2>1, <2>2 DEF Stays
<1>2. OnePreparerPerSuccessor'
  BY DEF CallCore, OnePreparerPerSuccessor, CallsFollow
<1>3. WorktreesAreRecorded'
  BY DEF CallCore, WorktreesAreRecorded, NewWorktreesRecorded, TypeInv, TypeOK, Exists
<1> QED
  BY <1>1, <1>2, <1>3 DEF CallCore

(* The part about leases, when neither they nor what owners hold changes.  *)
LEMMA LeasesSafe ==
    ASSUME TypeInv, LeaseCore, UNCHANGED <<graph, leases>>,
           \A s \in Owners : Stays(s) /\ spaces'[s].held = spaces[s].held
    PROVE  LeaseCore'
<1>1. Owners' = Owners /\ \A s : LeasesOf(s)' = LeasesOf(s)
  BY LeasesKept
<1>2. UnshapedOwnsNothing'
  BY <1>1 DEF LeaseCore, UnshapedOwnsNothing, Stays
<1>3. AccountedOrFrozen'
  <2> SUFFICES ASSUME NEW s \in Owners
               PROVE  LeasesOf(s)' = spaces'[s].held \/ spaces'[s].held # Plan(s)'
    BY <1>1 DEF AccountedOrFrozen, LeasesOf, Plan
  <2>1. Plan(s)' = Plan(s)
    BY PlanKept DEF Stays
  <2> QED
    BY <1>1, <2>1 DEF LeaseCore, AccountedOrFrozen
<1>4. ExclusiveAuthority'
  BY DEF LeaseCore, ExclusiveAuthority
<1> QED
  BY <1>2, <1>3, <1>4 DEF LeaseCore

(* A step that moves no lease, no held set and no member is safe.          *)
LEMMA QuietSafe ==
    ASSUME Safe, UNCHANGED <<graph, leases>>, CallsFollow, NewWorktreesRecorded,
           \A s \in Spaces : Stays(s) /\ spaces'[s].held = spaces[s].held
    PROVE  LeaseCore' /\ CallCore'
<1>1. LeaseCore'
  BY LeasesSafe, OwnersAreSpaces DEF Safe, TypeInv
<1>2. ASSUME NEW c \in Clients, NEW s \in Spaces, calls[c] \in PrepareCalls, calls[c].space = s
      PROVE  LeasesOf(s)' \in {{}, Plan(s)'}
  <2>1. Plan(s)' = Plan(s) /\ LeasesOf(s)' = LeasesOf(s)
    BY PlanKept, LeasesKept DEF Stays
  <2> QED
    BY <1>2, <2>1 DEF Safe, CallCore, PreparationsAccounted
<1>3. \A s \in Spaces : spaces[s].status # "absent" =>
         spaces'[s].generated = spaces[s].generated /\ spaces'[s].status # "absent"
  BY DEF Stays
<1>4. CallCore'
  BY <1>2, <1>3, CallsSafe DEF Safe
<1> QED
  BY <1>1, <1>4

LEMMA CallsUnchangedFollow == calls' = calls => CallsFollow
BY DEF CallsFollow

LEMMA SpacesUnchangedStay ==
    spaces' = spaces => \A s \in Spaces : Stays(s) /\ spaces'[s].held = spaces[s].held
BY DEF Stays

(* One record is replaced by a record with the same claim, held set and    *)
(* members, whose shape does not reopen.                                   *)
LEMMA RecordStays ==
    ASSUME TypeOK, NEW s \in Spaces, NEW record,
           spaces' = [spaces EXCEPT ![s] = record],
           record.claim = spaces[s].claim,
           record.held = spaces[s].held,
           record.generated = spaces[s].generated,
           \/ record.status = spaces[s].status
           \/ record.status \notin {"absent", "draft"}
    PROVE  \A x \in Spaces : Stays(x) /\ spaces'[x].held = spaces[x].held
BY DEF TypeOK, Stays

(* A space that holds nothing is created or reshaped.                      *)
LEMMA UnshapedSafe ==
    ASSUME Safe, UNCHANGED <<graph, leases, worktrees>>, CallsFollow,
           NEW s \in Spaces,
           spaces[s].status \in {"absent", "draft"},
           \A x \in Spaces \ {s} : spaces'[x] = spaces[x],
           spaces'[s].status # "absent",
           spaces[s].status = "draft" => spaces'[s].generated = spaces[s].generated
    PROVE  LeaseCore' /\ CallCore'
<1>0. s \notin Owners /\ Owners \subseteq Spaces
  BY OwnersAreSpaces DEF Safe, TypeInv, LeaseCore, UnshapedOwnsNothing
<1>1. \A x \in Spaces \ {s} : Stays(x) /\ spaces'[x] = spaces[x]
  BY DEF Stays
<1>2. LeaseCore'
  BY <1>0, <1>1, LeasesSafe DEF Safe
<1>3. ASSUME NEW c \in Clients, NEW x \in Spaces, calls[c] \in PrepareCalls, calls[c].space = x
      PROVE  LeasesOf(x)' \in {{}, Plan(x)'}
  <2>1. x # s
    BY <1>3 DEF Safe, CallCore, PreparationsAccounted
  <2>2. Plan(x)' = Plan(x) /\ LeasesOf(x)' = LeasesOf(x)
    BY <1>1, <2>1, PlanKept, LeasesKept DEF Stays
  <2> QED
    BY <1>3, <2>2 DEF Safe, CallCore, PreparationsAccounted
<1>5. \A x \in Spaces : spaces[x].status # "absent" =>
         spaces'[x].generated = spaces[x].generated /\ spaces'[x].status # "absent"
  BY <1>1
<1>6. \A x \in Spaces : Stays(x) \/ spaces[x].status \in {"absent", "draft"}
  BY <1>1
<1>7. CallCore'
  BY <1>3, <1>5, <1>6, CallsSafe, FewerWorktrees DEF Safe
<1> QED
  BY <1>2, <1>7

LEMMA DeclareSafe ==
    ASSUME Safe, UNCHANGED <<graph, leases, worktrees>>, CallsFollow,
           NEW s \in Spaces, NEW claim, Declare(s, claim)
    PROVE  LeaseCore' /\ CallCore'
<1>0. spaces[s] \in SpaceRecords /\ spaces \in [Spaces -> SpaceRecords]
  BY DEF Safe, TypeInv, TypeOK
<1>1. /\ spaces' = [spaces EXCEPT ![s] = [spaces[s] EXCEPT !.claim = claim]]
      /\ spaces[s].status = "draft"
  BY DEF Declare, Editable
<1>2. /\ spaces'[s].status = spaces[s].status
      /\ spaces'[s].generated = spaces[s].generated
  BY <1>0, <1>1 DEF SpaceRecords
<1>3. \A x \in Spaces \ {s} : spaces'[x] = spaces[x]
  BY <1>0, <1>1
<1> QED
  BY <1>1, <1>2, <1>3, UnshapedSafe

LEMMA ShapeSafe == Safe /\ Shape => LeaseCore' /\ CallCore'
<1> SUFFICES ASSUME Safe, NEW s \in Spaces,
                    \/ CreateSpace(s)
                    \/ \E r \in AssociationInputs : Associate(s, r)
                    \/ \E claim \in ClaimInputs :
                          \/ SetAffected(s, claim)
                          \/ \E c \in Clients :
                                BeginAffectAdd(c, s, claim) \/ BeginAffectRemove(c, s, claim)
             PROVE  LeaseCore' /\ CallCore'
  BY DEF Shape
<1>0. spaces[s] \in SpaceRecords /\ TypeOK
  BY DEF Safe, TypeInv, TypeOK
<1>1. CASE CreateSpace(s)
  <2>1. spaces'[s].status # "absent" /\ \A x \in Spaces \ {s} : spaces'[x] = spaces[x]
    BY <1>0, <1>1 DEF CreateSpace, TypeOK, NoSpace
  <2>2. spaces[s].status = "absent"
    BY <1>1 DEF CreateSpace, Exists
  <2>3. UNCHANGED <<graph, leases, worktrees>> /\ CallsFollow
    BY <1>1, CallsUnchangedFollow DEF CreateSpace
  <2> QED
    BY <2>1, <2>2, <2>3, UnshapedSafe
<1>2. ASSUME NEW r \in AssociationInputs, Associate(s, r)
      PROVE  LeaseCore' /\ CallCore'
  <2> DEFINE record == [spaces[s] EXCEPT !.associated = @ \cup {r}]
  <2>1. /\ record.claim = spaces[s].claim
        /\ record.held = spaces[s].held
        /\ record.generated = spaces[s].generated
        /\ record.status = spaces[s].status
    BY <1>0 DEF SpaceRecords
  <2>2. spaces' = [spaces EXCEPT ![s] = record]
    BY <1>2 DEF Associate
  <2>3. \A x \in Spaces : Stays(x) /\ spaces'[x].held = spaces[x].held
    BY <1>0, <2>1, <2>2, RecordStays
  <2> QED
    BY <1>2, <2>3, QuietSafe, CallsUnchangedFollow, FewerWorktrees DEF Associate
<1>3. ASSUME NEW claim \in ClaimInputs, SetAffected(s, claim)
      PROVE  LeaseCore' /\ CallCore'
  BY <1>3, DeclareSafe, CallsUnchangedFollow DEF SetAffected
<1>4. ASSUME NEW claim \in ClaimInputs, NEW c \in Clients,
             BeginAffectAdd(c, s, claim) \/ BeginAffectRemove(c, s, claim)
      PROVE  LeaseCore' /\ CallCore'
  <2>1. PICK call \in AffectCalls : calls' = [calls EXCEPT ![c] = call]
    BY <1>4, BeginAffectCall DEF Safe
  <2>2. CallsFollow
    BY <1>0, <2>1 DEF CallsFollow, PrepareCalls, AffectCalls, TypeOK
  <2> QED
    BY <1>4, <2>2, QuietSafe, SpacesUnchangedStay, FewerWorktrees DEF BeginAffectAdd, BeginAffectRemove
<1> QED
  BY <1>1, <1>2, <1>3, <1>4

(* New leases of s that conflict with no other owner leave authorities     *)
(* exclusive; so does letting leases go.                                   *)
LEMMA AcquisitionExclusive ==
    ASSUME ExclusiveAuthority, graph' = graph, NEW s, NEW held,
           Conflicts(s, held) = {},
           leases' \subseteq leases \cup {[authority |-> a, owner |-> s] : a \in held}
    PROVE  ExclusiveAuthority'
<1> SUFFICES ASSUME NEW k \in leases', NEW l \in leases', k.owner # l.owner
             PROVE  ~Conflicting(graph, k.authority, l.authority)
  BY DEF ExclusiveAuthority
<1> DEFINE new == {[authority |-> a, owner |-> s] : a \in held}
<1>1. \A m \in leases, n \in new : m.owner # s => ~Conflicting(graph, m.authority, n.authority)
  BY DEF Conflicts, Others
<1>2. \A n \in new : n.owner = s
  OBVIOUS
<1>3. CASE k \in leases /\ l \in leases
  BY <1>3 DEF ExclusiveAuthority
<1>4. CASE k \in leases /\ l \in new
  BY <1>1, <1>2, <1>4
<1>5. CASE k \in new /\ l \in leases
  BY <1>1, <1>2, <1>5, ConflictingSymmetric
<1>6. CASE k \in new /\ l \in new
  BY <1>2, <1>6
<1> QED
  BY <1>3, <1>4, <1>5, <1>6

(* A space exchanges its leases for nothing or for its plan.               *)
LEMMA ExchangeSafe ==
    ASSUME Safe, UNCHANGED <<graph, calls, worktrees>>,
           NEW s \in Spaces, NEW held \in SUBSET Authorities,
           held \in {{}, Plan(s)},
           Conflicts(s, held) = {},
           leases' = Acquired(s, held),
           \A x \in Spaces : Stays(x),
           \A x \in Spaces \ {s} : spaces'[x].held = spaces[x].held,
           spaces'[s].held = held,
           spaces'[s].status \notin {"absent", "draft"}
    PROVE  LeaseCore' /\ CallCore'
<1>0. TypeOK /\ Owners \subseteq Spaces
  BY OwnersAreSpaces DEF Safe, TypeInv
<1>1. LeasesOf(s)' = held
  <2>1. {l \in leases' : l.owner = s} = {[authority |-> a, owner |-> s] : a \in held}
    BY DEF Acquired, Others
  <2>2. ASSUME NEW a \in held
        PROVE  a \in LeasesOf(s)'
    <3> DEFINE lease == [authority |-> a, owner |-> s]
    <3>1. lease \in {l \in leases' : l.owner = s} /\ lease.authority = a
      BY <2>1
    <3> QED
      BY <3>1 DEF LeasesOf
  <2>3. LeasesOf(s)' \subseteq held
    BY <2>1 DEF LeasesOf
  <2> QED
    BY <2>2, <2>3
<1>2. \A x \in Spaces \ {s} : LeasesOf(x)' = LeasesOf(x)
  BY DEF LeasesOf, Acquired, Others
<1>3. \A x \in Spaces : Plan(x)' = Plan(x)
  BY PlanKept DEF Stays
<1>4. Owners' \subseteq Owners \cup {s} /\ Owners' \subseteq Spaces
  BY <1>0 DEF Owners, Acquired, Others
<1>5. UnshapedOwnsNothing'
  BY <1>0, <1>4 DEF UnshapedOwnsNothing, Stays, Safe, LeaseCore
<1>6. AccountedOrFrozen'
  <2> SUFFICES ASSUME NEW x \in Spaces, x \in Owners'
               PROVE  LeasesOf(x)' = spaces'[x].held \/ spaces'[x].held # Plan(x)'
    BY <1>4 DEF AccountedOrFrozen, LeasesOf, Plan
  <2>1. CASE x = s
    BY <1>1, <2>1
  <2>2. CASE x # s
    BY <1>2, <1>3, <1>4, <2>2 DEF Safe, LeaseCore, AccountedOrFrozen
  <2> QED
    BY <2>1, <2>2
<1>7. ExclusiveAuthority'
  <2>1. leases' \subseteq leases \cup {[authority |-> a, owner |-> s] : a \in held}
    BY DEF Acquired, Others
  <2> QED
    BY <2>1, AcquisitionExclusive DEF Safe, LeaseCore
<1>8. ASSUME NEW c \in Clients, NEW x \in Spaces, calls[c] \in PrepareCalls, calls[c].space = x
      PROVE  LeasesOf(x)' \in {{}, Plan(x)'}
  <2>1. LeasesOf(x) \in {{}, Plan(x)}
    BY <1>8 DEF Safe, CallCore, PreparationsAccounted
  <2> QED
    BY <1>1, <1>2, <1>3, <2>1
<1>9. \A x \in Spaces : spaces[x].status # "absent" =>
         spaces'[x].generated = spaces[x].generated /\ spaces'[x].status # "absent"
  BY DEF Stays
<1>10. CallCore'
  BY <1>8, <1>9, CallsSafe, CallsUnchangedFollow, FewerWorktrees DEF Safe
<1> QED
  BY <1>5, <1>6, <1>7, <1>10 DEF LeaseCore

LEMMA FreedSafe ==
    ASSUME Safe, UNCHANGED <<graph, calls, worktrees>>, NEW s \in Spaces, Freed(s)
    PROVE  LeaseCore' /\ CallCore'
<1>0. spaces[s] \in SpaceRecords /\ spaces \in [Spaces -> SpaceRecords]
  BY DEF Safe, TypeInv, TypeOK
<1>1. /\ spaces'[s].held = {}
      /\ spaces'[s].status = "released"
      /\ spaces'[s].claim = spaces[s].claim
      /\ spaces'[s].generated = spaces[s].generated
  BY <1>0 DEF Freed, SpaceRecords
<1>2. \A x \in Spaces \ {s} : spaces'[x] = spaces[x]
  BY <1>0 DEF Freed
<1>3. \A x \in Spaces : Stays(x)
  BY <1>1, <1>2 DEF Stays
<1>4. leases' = Acquired(s, {})
  BY DEF Freed, Acquired
<1>5. Conflicts(s, {}) = {}
  BY DEF Conflicts
<1> QED
  BY <1>1, <1>2, <1>3, <1>4, <1>5, ExchangeSafe

LEMMA LeasesStepSafe == Safe /\ Leases => LeaseCore' /\ CallCore'
<1> SUFFICES ASSUME Safe, NEW s \in Spaces,
                    \/ Lock(s)
                    \/ Release(s)
                    \/ Recover(s)
                    \/ Finalize(s)
                    \/ \E d \in DispositionInputs : SetHandoffDisposition(s, d)
                    \/ \E r \in Repositories : AbandonMember(s, r) \/ CleanupWorktree(s, r)
             PROVE  LeaseCore' /\ CallCore'
  BY DEF Leases
<1>0. TypeOK /\ spaces[s] \in SpaceRecords /\ spaces \in [Spaces -> SpaceRecords]
  BY DEF Safe, TypeInv, TypeOK
<1>1. CASE Lock(s)
  <2>1. /\ spaces'[s].held = Plan(s)
        /\ spaces'[s].status = "locked"
        /\ spaces'[s].claim = spaces[s].claim
        /\ spaces'[s].generated = spaces[s].generated
    BY <1>0, <1>1 DEF Lock, SpaceRecords
  <2>2. \A x \in Spaces \ {s} : spaces'[x] = spaces[x]
    BY <1>0, <1>1 DEF Lock
  <2>3. \A x \in Spaces : Stays(x)
    BY <2>1, <2>2 DEF Stays
  <2>4. Plan(s) \in SUBSET Authorities
    BY <1>0, PlanType
  <2>5. leases' = Acquired(s, Plan(s)) /\ Conflicts(s, Plan(s)) = {}
    BY <1>1 DEF Lock
  <2> QED
    BY <1>1, <2>1, <2>2, <2>3, <2>4, <2>5, ExchangeSafe DEF Lock
<1>2. CASE Release(s) \/ Recover(s)
  BY <1>2, FreedSafe DEF Release, Recover
<1>3. CASE Finalize(s)
  <2>1. \A x \in Spaces : Stays(x) /\ spaces'[x].held = spaces[x].held
    BY <1>0, <1>3 DEF Finalize, Stays, SpaceRecords
  <2> QED
    BY <1>3, <2>1, QuietSafe, CallsUnchangedFollow, FewerWorktrees DEF Finalize
<1>4. ASSUME NEW d \in DispositionInputs, SetHandoffDisposition(s, d)
      PROVE  LeaseCore' /\ CallCore'
  <2>1. \A x \in Spaces : Stays(x) /\ spaces'[x].held = spaces[x].held
    BY <1>0, <1>4 DEF SetHandoffDisposition, Stays, SpaceRecords
  <2> QED
    BY <1>4, <2>1, QuietSafe, CallsUnchangedFollow, FewerWorktrees DEF SetHandoffDisposition
<1>5. ASSUME NEW r \in Repositories, AbandonMember(s, r) \/ CleanupWorktree(s, r)
      PROVE  LeaseCore' /\ CallCore'
  BY <1>5, QuietSafe, CallsUnchangedFollow, FewerWorktrees, SpacesUnchangedStay DEF AbandonMember, CleanupWorktree
<1> QED
  BY <1>1, <1>2, <1>3, <1>4, <1>5

LEMMA CallEnds ==
    ASSUME TypeOK, NEW c \in Clients, NEW call, call \notin PrepareCalls,
           calls' = [calls EXCEPT ![c] = call]
    PROVE  CallsFollow
BY DEF CallsFollow, TypeOK

LEMMA IdleIsNoPreparation == Idle \notin PrepareCalls
BY DEF Idle, PrepareCalls

(* A successor is reserved under a name that no space had, so no call      *)
(* prepares it already and it owns nothing.                                *)
LEMMA ReserveSafe ==
    ASSUME Safe, NEW c \in Clients, NEW op \in {"isolate", "defer"},
           NEW s \in Spaces, NEW successor \in Spaces, Reserve(c, op, s, successor)
    PROVE  LeaseCore' /\ CallCore'
<1>0. TypeOK /\ spaces \in [Spaces -> SpaceRecords] /\ calls \in [Clients -> Calls]
  BY DEF Safe, TypeInv, TypeOK
<1>1. /\ spaces[successor].status = "absent"
      /\ spaces'[successor] = Reserved(s)
      /\ \A x \in Spaces \ {successor} : spaces'[x] = spaces[x]
  BY <1>0 DEF Reserve, Available, Exists
<1>2. /\ Reserved(s).status = "preparing"
      /\ Reserved(s).generated = WorkRepositories(graph, spaces[s].claim)
  BY DEF Reserved, NoSpace
<1>3. /\ calls'[c] \in PrepareCalls => calls'[c].space = successor
      /\ calls'[c].work = WorkRepositories(graph, spaces[s].claim)
      /\ calls'[c].space = successor
      /\ \A d \in Clients \ {c} : calls'[d] = calls[d]
  BY <1>0 DEF Reserve
<1>4. successor \notin Owners /\ Owners \subseteq Spaces
  BY <1>0, <1>1, OwnersAreSpaces DEF Safe, LeaseCore, UnshapedOwnsNothing
<1>5. UNCHANGED <<graph, leases, worktrees>>
  BY DEF Reserve
<1>6. \A x \in Spaces \ {successor} : Stays(x)
  BY <1>1 DEF Stays
<1>7. LeaseCore'
  BY <1>1, <1>4, <1>5, <1>6, LeasesSafe DEF Safe
<1>8. \A d \in Clients \ {c} : calls[d] \in PrepareCalls =>
         calls[d].space \in Spaces \ {successor}
  BY <1>1, PrepareCallType DEF Safe, CallCore, PreparationsAccounted
<1>9. PreparationsAccounted'
  <2> SUFFICES ASSUME NEW d \in Clients, calls'[d] \in PrepareCalls,
                      NEW x \in Spaces, x = calls'[d].space
               PROVE  /\ spaces'[x].status \notin {"absent", "draft"}
                      /\ calls'[d].work \subseteq spaces'[x].generated
                      /\ LeasesOf(x)' \in {{}, Plan(x)'}
    BY PrepareCallType DEF PreparationsAccounted, LeasesOf, Plan
  <2>1. CASE d = c
    <3>1. x = successor /\ LeasesOf(x)' = LeasesOf(x)
      BY <1>3, <1>5, <2>1, LeasesKept
    <3>2. LeasesOf(x)' = {}
      BY <1>4, <3>1, OwnersHold
    <3> QED
      BY <1>1, <1>2, <1>3, <2>1, <3>1, <3>2
  <2>2. CASE d # c
    <3>1. calls[d] \in PrepareCalls /\ calls[d].space = x /\ x # successor
      BY <1>3, <1>8, <2>2
    <3>2. Plan(x)' = Plan(x) /\ LeasesOf(x)' = LeasesOf(x)
      BY <1>5, <1>6, <3>1, PlanKept, LeasesKept DEF Stays
    <3> QED
      BY <1>1, <1>3, <2>2, <3>1, <3>2 DEF Safe, CallCore, PreparationsAccounted
  <2> QED
    BY <2>1, <2>2
<1>10. OnePreparerPerSuccessor'
  BY <1>3, <1>8 DEF Safe, CallCore, OnePreparerPerSuccessor
<1>11. WorktreesAreRecorded'
  BY <1>0, <1>1, <1>5 DEF Safe, CallCore, WorktreesAreRecorded, Exists, TypeOK
<1> QED
  BY <1>7, <1>9, <1>10, <1>11 DEF CallCore

LEMMA StartSafe == ASSUME Safe, NEW c \in Clients, Start(c) PROVE LeaseCore' /\ CallCore'
<1> SUFFICES ASSUME NEW s \in Spaces,
                    \/ \E op \in {"isolate", "defer"}, successor \in Spaces :
                          Reserve(c, op, s, successor)
                    \/ \E removed \in SUBSET spaces[s].artifacts : RemoveArtifacts(c, s, removed)
                    \/ BeginReconcile(c, s)
             PROVE  LeaseCore' /\ CallCore'
  BY DEF Start
<1>0. TypeOK
  BY DEF Safe, TypeInv
<1>1. CASE \E op \in {"isolate", "defer"}, successor \in Spaces : Reserve(c, op, s, successor)
  BY <1>1, ReserveSafe
<1>2. ASSUME NEW removed \in SUBSET spaces[s].artifacts, RemoveArtifacts(c, s, removed)
      PROVE  LeaseCore' /\ CallCore'
  <2>1. CallsFollow
    BY <1>0, <1>2 DEF RemoveArtifacts, CallsFollow, PrepareCalls, Idle, TypeOK
  <2>2. NewWorktreesRecorded
    BY <1>2, FewerWorktrees DEF RemoveArtifacts
  <2> QED
    BY <1>2, <2>1, <2>2, QuietSafe, SpacesUnchangedStay DEF RemoveArtifacts
<1>3. CASE BeginReconcile(c, s)
  <2>1. CallsFollow
    BY <1>0, <1>3 DEF BeginReconcile, CallsFollow, PrepareCalls, TypeOK
  <2> QED
    BY <1>3, <2>1, QuietSafe, SpacesUnchangedStay, FewerWorktrees DEF BeginReconcile
<1> QED
  BY <1>1, <1>2, <1>3

(* Publication grants the held set of the reservation.                     *)
LEMMA PublishSafe ==
    ASSUME Safe, NEW c \in Clients, Publish(c)
    PROVE  LeaseCore' /\ CallCore'
<1>0. /\ TypeOK
      /\ spaces \in [Spaces -> SpaceRecords]
      /\ calls \in [Clients -> Calls]
      /\ Owners \subseteq Spaces
      /\ calls[c] \in PrepareCalls
      /\ calls[c].op \in {"isolate", "defer"}
  BY OwnersAreSpaces, PrepareCallType DEF Safe, TypeInv, TypeOK, Publish, Preparing
<1> SUFFICES ASSUME NEW s \in Spaces, s = calls[c].space,
                    NEW held \in SUBSET Authorities, held = calls[c].held
             PROVE  LeaseCore' /\ CallCore'
  BY <1>0, PrepareCallType
<1>1. /\ spaces'[s].status \in {"locked", "deferred"}
      /\ spaces'[s].held = (IF calls[c].op = "isolate" THEN held ELSE {})
      /\ spaces'[s].claim = spaces[s].claim
      /\ spaces'[s].generated = spaces[s].generated
  <2>1. spaces[s] \in SpaceRecords /\ spaces'[s] = Published(c)
    BY <1>0 DEF Publish
  <2> QED
    BY <2>1 DEF Published, SpaceRecords
<1>2. \A x \in Spaces \ {s} : spaces'[x] = spaces[x]
  BY <1>0 DEF Publish
<1>3. \A x \in Spaces : Stays(x)
  BY <1>1, <1>2 DEF Stays
<1>4. UNCHANGED <<graph, worktrees>> /\ calls' = [calls EXCEPT ![c] = Idle]
  BY DEF Publish
<1>5. CallsFollow
  BY <1>0, <1>4, CallEnds, IdleIsNoPreparation
<1>6. \A x \in Spaces : Plan(x)' = Plan(x)
  BY <1>3, <1>4, PlanKept DEF Stays
<1>7. LeasesOf(s) \in {{}, Plan(s)}
  BY <1>0 DEF Safe, CallCore, PreparationsAccounted
<1>8. \A d \in Clients : calls'[d] \in PrepareCalls /\ calls[d] \in PrepareCalls =>
         calls[d].space # s
  BY <1>0, <1>4, IdleIsNoPreparation DEF Safe, CallCore, OnePreparerPerSuccessor
<1>9. ASSUME \A x \in Spaces \ {s} : LeasesOf(x)' = LeasesOf(x)
      PROVE  CallCore'
  <2>1. ASSUME NEW d \in Clients, NEW x \in Spaces,
               calls'[d] \in PrepareCalls, calls[d] \in PrepareCalls, calls[d].space = x
        PROVE  LeasesOf(x)' \in {{}, Plan(x)'}
    <3>1. x # s
      BY <1>8, <2>1
    <3> QED
      BY <1>6, <1>9, <2>1, <3>1 DEF Safe, CallCore, PreparationsAccounted
  <2>2. \A x \in Spaces : spaces[x].status # "absent" =>
           spaces'[x].generated = spaces[x].generated /\ spaces'[x].status # "absent"
    BY <1>3 DEF Stays
  <2>3. NewWorktreesRecorded
    BY <1>4, FewerWorktrees
  <2> QED
    BY <1>3, <1>5, <2>1, <2>2, <2>3, CallsSafe DEF Safe
<1>10. CASE calls[c].op = "isolate"
  <2> DEFINE new == {[authority |-> a, owner |-> s] : a \in held}
  <2>1. /\ leases' = leases \cup new
        /\ Conflicts(s, held) = {}
        /\ LeasesOf(s) \cap held = {}
    BY <1>10 DEF Publish, Grantable
  <2>2. LeasesOf(s)' = LeasesOf(s) \cup held
    <3>1. {l \in leases' : l.owner = s} = {l \in leases : l.owner = s} \cup new
      BY <2>1
    <3>2. ASSUME NEW a \in held
          PROVE  a \in LeasesOf(s)'
      <4> DEFINE lease == [authority |-> a, owner |-> s]
      <4>1. lease \in {l \in leases' : l.owner = s} /\ lease.authority = a
        BY <3>1
      <4> QED
        BY <4>1 DEF LeasesOf
    <3>3. LeasesOf(s) \subseteq LeasesOf(s)' /\ LeasesOf(s)' \subseteq LeasesOf(s) \cup held
      BY <3>1 DEF LeasesOf
    <3> QED
      BY <3>2, <3>3
  <2>3. \A x \in Spaces \ {s} : LeasesOf(x)' = LeasesOf(x)
    BY <2>1 DEF LeasesOf
  <2>4. Owners' \subseteq Owners \cup {s}
    BY <2>1 DEF Owners
  <2>5. UnshapedOwnsNothing'
    BY <1>0, <1>1, <1>3, <2>4 DEF UnshapedOwnsNothing, Stays, Safe, LeaseCore
  <2>6. AccountedOrFrozen'
    <3> SUFFICES ASSUME NEW x \in Spaces, x \in Owners'
                 PROVE  LeasesOf(x)' = spaces'[x].held \/ spaces'[x].held # Plan(x)'
      BY <1>0, <2>4 DEF AccountedOrFrozen, LeasesOf, Plan
    <3>1. CASE x = s
      <4>1. spaces'[s].held = held
        BY <1>1, <1>10
      <4>2. CASE LeasesOf(s) = {}
        BY <2>2, <3>1, <4>1, <4>2
      <4>3. CASE LeasesOf(s) # {}
        <5>1. held # Plan(s)
          BY <1>7, <2>1, <4>3
        <5> QED
          BY <1>6, <3>1, <4>1, <5>1
      <4> QED
        BY <4>2, <4>3
    <3>2. CASE x # s
      BY <1>2, <1>6, <2>3, <2>4, <3>2 DEF Safe, LeaseCore, AccountedOrFrozen
    <3> QED
      BY <3>1, <3>2
  <2>7. ExclusiveAuthority'
    BY <1>4, <2>1, AcquisitionExclusive DEF Safe, LeaseCore
  <2> QED
    BY <1>9, <2>3, <2>5, <2>6, <2>7 DEF LeaseCore
<1>11. CASE calls[c].op = "defer"
  <2>1. leases' = leases
    BY <1>11 DEF Publish
  <2>2. Owners' = Owners /\ \A x : LeasesOf(x)' = LeasesOf(x)
    BY <2>1, LeasesKept
  <2>3. UnshapedOwnsNothing'
    BY <1>0, <1>3, <2>2 DEF UnshapedOwnsNothing, Stays, Safe, LeaseCore
  <2>4. AccountedOrFrozen'
    <3> SUFFICES ASSUME NEW x \in Spaces, x \in Owners
                 PROVE  LeasesOf(x)' = spaces'[x].held \/ spaces'[x].held # Plan(x)'
      BY <1>0, <2>2 DEF AccountedOrFrozen, LeasesOf, Plan
    <3>1. CASE x = s
      BY <1>1, <1>6, <1>7, <1>11, <3>1, OwnersHold
    <3>2. CASE x # s
      BY <1>2, <1>6, <2>2, <3>2 DEF Safe, LeaseCore, AccountedOrFrozen
    <3> QED
      BY <3>1, <3>2
  <2>5. ExclusiveAuthority'
    BY <1>4, <2>1 DEF ExclusiveAuthority, Safe, LeaseCore
  <2> QED
    BY <1>9, <2>2, <2>3, <2>4, <2>5 DEF LeaseCore
<1> QED
  BY <1>0, <1>10, <1>11

LEMMA ContinueSafe ==
    ASSUME Safe, NEW c \in Clients, Continue(c)
    PROVE  LeaseCore' /\ CallCore'
<1>0. TypeOK /\ spaces \in [Spaces -> SpaceRecords] /\ calls \in [Clients -> Calls]
  BY DEF Safe, TypeInv, TypeOK
<1>1. CASE FinishAffect(c)
  <2>1. calls[c].space \in Spaces
    BY <1>1 DEF FinishAffect, AffectCalls
  <2>2. CallsFollow
    BY <1>0, <1>1, CallEnds, IdleIsNoPreparation DEF FinishAffect
  <2> QED
    BY <1>1, <2>1, <2>2, DeclareSafe DEF FinishAffect
<1>2. ASSUME NEW r \in Repositories, CreateWorktree(c, r)
      PROVE  LeaseCore' /\ CallCore'
  <2>1. calls[c] \in PrepareCalls
    BY <1>2 DEF CreateWorktree, Preparing
  <2>2. /\ calls[c].space \in Spaces
        /\ spaces[calls[c].space].status # "absent"
        /\ r \in spaces[calls[c].space].generated
    BY <1>2, <2>1, PrepareCallType DEF CreateWorktree, Safe, CallCore, PreparationsAccounted
  <2>3. NewWorktreesRecorded
    BY <1>2, <2>2 DEF CreateWorktree, NewWorktreesRecorded
  <2>4. CallsFollow
    BY <1>0, <1>2, <2>1 DEF CreateWorktree, CallsFollow, PrepareCalls
  <2> QED
    BY <1>2, <2>3, <2>4, QuietSafe, SpacesUnchangedStay DEF CreateWorktree
<1>3. CASE CreateWorkset(c) \/ MaterializationFails(c) \/ PublicationFails(c)
  <2>1. calls[c] \in PrepareCalls
    BY <1>3 DEF CreateWorkset, MaterializationFails, PublicationFails, Preparing
  <2>2. CallsFollow
    BY <1>0, <1>3, <2>1
    DEF CreateWorkset, MaterializationFails, PublicationFails, CallsFollow, PrepareCalls
  <2> QED
    BY <1>3, <2>2, QuietSafe, SpacesUnchangedStay, FewerWorktrees
    DEF CreateWorkset, MaterializationFails, PublicationFails
<1>4. CASE Publish(c)
  BY <1>4, PublishSafe
<1>5. CASE RecordFailure(c) \/ CommitRollback(c)
  <2>1. calls[c].space \in Spaces
    BY <1>5, PrepareCallType DEF RecordFailure, Preparing, CommitRollback, RollbackCalls
  <2>2. \A x \in Spaces : Stays(x) /\ spaces'[x].held = spaces[x].held
    <3>1. spaces[calls[c].space] \in SpaceRecords
      BY <1>0, <2>1
    <3>2. /\ spaces'[calls[c].space].claim = spaces[calls[c].space].claim
          /\ spaces'[calls[c].space].generated = spaces[calls[c].space].generated
          /\ spaces'[calls[c].space].held = spaces[calls[c].space].held
          /\ spaces'[calls[c].space].status \in {"preparation_failed", "rolled_back"}
      <4>1. CASE RecordFailure(c)
        <5>1. spaces'[calls[c].space] =
                 [spaces[calls[c].space] EXCEPT !.status = "preparation_failed",
                                                !.artifacts = calls[c].artifacts]
          BY <1>0, <2>1, <4>1 DEF RecordFailure
        <5> QED
          BY <3>1, <5>1 DEF SpaceRecords
      <4>2. CASE CommitRollback(c)
        <5>1. spaces'[calls[c].space] = [spaces[calls[c].space] EXCEPT !.status = "rolled_back"]
          BY <1>0, <2>1, <4>2 DEF CommitRollback
        <5> QED
          BY <3>1, <5>1 DEF SpaceRecords
      <4> QED
        BY <1>5, <4>1, <4>2
    <3>3. \A x \in Spaces : x # calls[c].space => spaces'[x] = spaces[x]
      BY <1>0, <1>5 DEF RecordFailure, CommitRollback
    <3> QED
      BY <3>2, <3>3 DEF Stays
  <2>3. CallsFollow
    BY <1>0, <1>5, CallEnds, IdleIsNoPreparation DEF RecordFailure, CommitRollback
  <2> QED
    BY <1>5, <2>2, <2>3, QuietSafe, FewerWorktrees DEF RecordFailure, CommitRollback
<1>6. ASSUME NEW r \in Repositories, IntegrateMember(c, r)
      PROVE  LeaseCore' /\ CallCore'
  <2>1. calls[c] \in ReconcileCalls
    BY <1>6 DEF IntegrateMember
  <2>2. calls'[c] \notin PrepareCalls
    <3>1. CASE calls'[c] = Idle
      BY <3>1, IdleIsNoPreparation
    <3>2. CASE calls'[c] # Idle
      <4>1. calls'[c].op = "reconcile"
        BY <1>0, <1>6, <2>1, <3>2 DEF IntegrateMember, ReconcileCalls
      <4> QED
        BY <4>1 DEF PrepareCalls
    <3> QED
      BY <3>1, <3>2
  <2>3. CallsFollow
    BY <1>0, <1>6, <2>2 DEF IntegrateMember, CallsFollow
  <2> QED
    BY <1>6, <2>3, QuietSafe, SpacesUnchangedStay, FewerWorktrees DEF IntegrateMember
<1> QED
  BY <1>1, <1>2, <1>3, <1>4, <1>5, <1>6 DEF Continue

LEMMA SnapshotHeld ==
    ASSUME NEW g, NEW associated, NEW claim
    PROVE  SpaceSnapshot(g, associated, claim).held = HeldAuthorities(g, claim)
BY DEF SpaceSnapshot

(* An accepted growth leaves the plan of a lease owner as it is, and equal *)
(* to its held set.                                                        *)
LEMMA OwnerPlanKept ==
    ASSUME NEW candidate, Extend(candidate), NEW s \in Owners
    PROVE  /\ HeldAuthorities(candidate, spaces[s].claim) = Plan(s)
           /\ spaces[s].held = Plan(s)
           /\ \A l \in Others(s) : \A a \in Plan(s) : ~Conflicting(candidate, l.authority, a)
<1>1. PreservesOwner(candidate, s)
  BY DEF Extend
<1>2. /\ Snapshot(graph, s).held = Plan(s)
      /\ Snapshot(candidate, s).held = HeldAuthorities(candidate, spaces[s].claim)
  BY SnapshotHeld DEF Snapshot, Plan
<1> QED
  BY <1>1, <1>2 DEF PreservesOwner

LEMMA ExtendSafe ==
    ASSUME Safe, NEW candidate, Extend(candidate)
    PROVE  LeaseCore' /\ CallCore'
<1>0. TypeOK /\ Owners \subseteq Spaces
  BY OwnersAreSpaces DEF Safe, TypeInv
<1>1. UNCHANGED <<leases, calls, worktrees>> /\ graph' = candidate
  BY DEF Extend
<1>2. ASSUME NEW s \in Spaces
      PROVE  Stays(s) /\ spaces'[s].held = spaces[s].held
  <2>1. spaces[s] \in SpaceRecords /\ graphGeneration + 1 \in Nat
    BY <1>0 DEF TypeOK
  <2>2. spaces'[s] = Rebased(candidate, s)
    BY DEF Extend
  <2> QED
    BY <2>1, <2>2, RebasedIsSpace DEF Stays
<1>3. Owners' = Owners /\ \A s : LeasesOf(s)' = LeasesOf(s)
  BY <1>1, LeasesKept
<1>4. ASSUME NEW s \in Owners
      PROVE  /\ Plan(s)' = Plan(s)
             /\ LeasesOf(s) = Plan(s)
  BY <1>0, <1>1, <1>2, OwnerPlanKept DEF Plan, Stays, Safe, LeaseCore, AccountedOrFrozen
<1>5. UnshapedOwnsNothing'
  BY <1>0, <1>2, <1>3 DEF UnshapedOwnsNothing, Stays, Safe, LeaseCore
<1>6. AccountedOrFrozen'
  <2> SUFFICES ASSUME NEW s \in Owners
               PROVE  LeasesOf(s)' = spaces'[s].held
    BY <1>3 DEF AccountedOrFrozen, LeasesOf, Plan
  <2> QED
    BY <1>0, <1>2, <1>3, <1>4, OwnerPlanKept
<1>7. ExclusiveAuthority'
  <2> SUFFICES ASSUME NEW k \in leases, NEW l \in leases, k.owner # l.owner
               PROVE  ~Conflicting(candidate, k.authority, l.authority)
    BY <1>1 DEF ExclusiveAuthority
  <2>1. k.owner \in Owners /\ k.authority \in Plan(k.owner)
    BY <1>4, LeasesOfElements
  <2>2. l \in Others(k.owner)
    BY DEF Others
  <2>3. ~Conflicting(candidate, l.authority, k.authority)
    BY <2>1, <2>2, OwnerPlanKept
  <2> QED
    BY <2>3, ConflictingSymmetric
<1>8. ASSUME NEW c \in Clients, NEW s \in Spaces, calls[c] \in PrepareCalls, calls[c].space = s
      PROVE  LeasesOf(s)' \in {{}, Plan(s)'}
  <2>1. CASE s \in Owners
    BY <1>3, <1>4, <2>1
  <2>2. CASE s \notin Owners
    BY <1>3, <2>2, OwnersHold
  <2> QED
    BY <2>1, <2>2
<1>9. \A s \in Spaces : spaces[s].status # "absent" =>
         spaces'[s].generated = spaces[s].generated /\ spaces'[s].status # "absent"
  BY <1>2 DEF Stays
<1>10. CallCore'
  BY <1>1, <1>2, <1>8, <1>9, CallsSafe, CallsUnchangedFollow, FewerWorktrees DEF Safe
<1> QED
  BY <1>5, <1>6, <1>7, <1>10 DEF LeaseCore

LEMMA InitSafe == Init => Safe
<1> SUFFICES ASSUME Init PROVE Safe
  OBVIOUS
<1>1. TypeInv
  BY InitType
<1>2. Owners = {}
  BY DEF Init, Owners
<1>3. \A c \in Clients : calls[c] \notin PrepareCalls
  BY IdleIsNoPreparation DEF Init
<1>4. LeaseCore
  BY <1>2 DEF LeaseCore, UnshapedOwnsNothing, AccountedOrFrozen, ExclusiveAuthority, Init
<1>5. CallCore
  BY <1>3 DEF CallCore, PreparationsAccounted, OnePreparerPerSuccessor, WorktreesAreRecorded, Init
<1> QED
  BY <1>1, <1>4, <1>5 DEF Safe

LEMMA StepSafe == Safe /\ [Next]_vars => Safe'
<1> SUFFICES ASSUME Safe, [Next]_vars PROVE Safe'
  OBVIOUS
<1>0. TypeInv' /\ TypeOK
  BY StepType DEF Safe, TypeInv
<1>1. CASE Topology
  <2>1. \E candidate : Extend(candidate)
    BY <1>1 DEF Topology, RegisterRepository, RegisterAuthority, RelateParent, RelateDependency
  <2> QED
    BY <1>0, <2>1, ExtendSafe DEF Safe
<1>2. ASSUME NEW c \in Clients, Abort(c)
      PROVE  LeaseCore' /\ CallCore'
  <2>1. CallsFollow
    BY <1>0, <1>2, CallEnds, IdleIsNoPreparation DEF Abort
  <2> QED
    BY <1>2, <2>1, QuietSafe, SpacesUnchangedStay, FewerWorktrees DEF Abort
<1>3. CASE UNCHANGED vars
  <2>1. LeaseCore' /\ CallCore'
    BY <1>3, QuietSafe, SpacesUnchangedStay, CallsUnchangedFollow, FewerWorktrees DEF vars
  <2> QED
    BY <1>0, <2>1 DEF Safe
<1> QED
  BY <1>0, <1>1, <1>2, <1>3, ShapeSafe, LeasesStepSafe, StartSafe, ContinueSafe DEF Next, Safe

LEMMA SafeAlways == Spec => []Safe
BY InitSafe, StepSafe, PTL DEF Spec

(* No two spaces ever own the same authority, or an authority and one that *)
(* contains it, whatever the callers do and however calls interleave or    *)
(* die.                                                                    *)
THEOREM Exclusive == Spec => []ExclusiveAuthority
BY SafeAlways, PTL DEF Safe, LeaseCore

(* What an owner leases is its held set, unless the held set differs from  *)
(* its plan, in which case no growth of the graph is accepted.             *)
THEOREM Accounted == Spec => []AccountedOrFrozen
BY SafeAlways, PTL DEF Safe, LeaseCore

(* Never two calls prepare the same successor.                             *)
THEOREM OnePreparer == Spec => []OnePreparerPerSuccessor
BY SafeAlways, PTL DEF Safe, CallCore

(* No worktree exists that the durable record of its space does not name.  *)
THEOREM WorktreesRecorded == Spec => []WorktreesAreRecorded
BY SafeAlways, PTL DEF Safe, CallCore

(* Only the four operations of the topology change the graph.              *)
LEMMA GrowthIsTopology ==
    ASSUME [Next]_vars, graph' # graph
    PROVE  Topology
<1>1. ~Shape
  BY DEF Shape, CreateSpace, Associate, SetAffected, BeginAffectAdd, BeginAffectRemove
<1>2. ~Leases
  BY DEF Leases, Lock, Release, Recover, Finalize, SetHandoffDisposition, AbandonMember,
         CleanupWorktree
<1>3. \A c \in Clients : ~Start(c) /\ ~Abort(c)
  BY DEF Start, Reserve, RemoveArtifacts, BeginReconcile, Abort
<1>4. \A c \in Clients : ~Continue(c)
  BY DEF Continue, FinishAffect, CreateWorktree, CreateWorkset, MaterializationFails, Publish,
         PublicationFails, RecordFailure, CommitRollback, IntegrateMember
<1> QED
  BY <1>1, <1>2, <1>3, <1>4 DEF Next, vars

LEMMA GrowthIsExtend ==
    ASSUME [Next]_vars, graph' # graph
    PROVE  \E candidate : Extend(candidate)
BY GrowthIsTopology
DEF Topology, RegisterRepository, RegisterAuthority, RelateParent, RelateDependency

-----------------------------------------------------------------------------
(* Integration debt.                                                       *)

\* A record of debt is not dropped.
DebtKept ==
    \A s \in Spaces, r \in Repositories : debts'[s][r] = "none" => debts[s][r] = "none"

\* What is released now was released, with the same generated members.
NoNewRelease ==
    \A s \in Spaces : spaces'[s].status = "released" =>
        spaces[s].status = "released" /\ spaces'[s].generated = spaces[s].generated

(* A step that neither releases a space nor drops a record keeps the debt. *)
LEMMA OwedKept ==
    ASSUME TypeOK, ReleasedWorkIsOwed, DebtKept, NoNewRelease
    PROVE  ReleasedWorkIsOwed'
BY DEF TypeOK, SpaceRecords, ReleasedWorkIsOwed, DebtKept, NoNewRelease

(* The space of a step gets a record that is not a released one.           *)
LEMMA ReplacedIsNoRelease ==
    ASSUME TypeOK, NEW s \in Spaces, NEW record, spaces' = [spaces EXCEPT ![s] = record],
           record.status = "released" =>
              spaces[s].status = "released" /\ record.generated = spaces[s].generated
    PROVE  NoNewRelease
BY DEF TypeOK, NoNewRelease

(* release and recover record the debt of every generated member.          *)
LEMMA FreedOwes ==
    ASSUME TypeOK, ReleasedWorkIsOwed, NEW s \in Spaces, Freed(s), NEW owed,
           debts' = [debts EXCEPT ![s] = owed],
           \A r \in spaces[s].generated : owed[r] # "none"
    PROVE  ReleasedWorkIsOwed'
<1>1. spaces \in [Spaces -> SpaceRecords] /\ debts \in [Spaces -> [Repositories -> DebtStatuses]]
  BY DEF TypeOK
<1>2. spaces'[s].generated = spaces[s].generated /\ debts'[s] = owed
  BY <1>1 DEF Freed, SpaceRecords
<1>3. \A x \in Spaces \ {s} : spaces'[x] = spaces[x] /\ debts'[x] = debts[x]
  BY <1>1 DEF Freed
<1> QED
  BY <1>2, <1>3 DEF ReleasedWorkIsOwed

LEMMA TopologyOwes == TypeInv /\ ReleasedWorkIsOwed /\ Topology => ReleasedWorkIsOwed'
<1> SUFFICES ASSUME TypeInv, ReleasedWorkIsOwed, NEW candidate, Extend(candidate)
             PROVE  ReleasedWorkIsOwed'
  BY DEF Topology, RegisterRepository, RegisterAuthority, RelateParent, RelateDependency
<1>0. TypeOK
  BY DEF TypeInv
<1>1. \A s \in Spaces : /\ Rebased(candidate, s).status = spaces[s].status
                        /\ Rebased(candidate, s).generated = spaces[s].generated
  BY <1>0, RebasedIsSpace DEF TypeOK
<1>2. NoNewRelease /\ DebtKept
  BY <1>1 DEF Extend, NoNewRelease, DebtKept
<1> QED
  BY <1>0, <1>2, OwedKept

LEMMA ShapeOwes == TypeInv /\ ReleasedWorkIsOwed /\ Shape => ReleasedWorkIsOwed'
<1> SUFFICES ASSUME TypeOK, ReleasedWorkIsOwed, Shape PROVE ReleasedWorkIsOwed'
  BY DEF TypeInv
<1>1. DebtKept
  BY DEF Shape, CreateSpace, Associate, SetAffected, BeginAffectAdd, BeginAffectRemove, DebtKept
<1>2. ASSUME NEW s \in Spaces, CreateSpace(s)
      PROVE  NoNewRelease
  BY <1>2, ReplacedIsNoRelease DEF CreateSpace, NoSpace
<1>3. ASSUME NEW s \in Spaces, NEW r, Associate(s, r)
      PROVE  NoNewRelease
  BY <1>3 DEF Associate, Editable, NoNewRelease, TypeOK, SpaceRecords
<1>4. ASSUME NEW s \in Spaces, NEW claim, SetAffected(s, claim)
      PROVE  NoNewRelease
  BY <1>4 DEF SetAffected, Declare, Editable, NoNewRelease, TypeOK, SpaceRecords
<1>5. ASSUME spaces' = spaces
      PROVE  NoNewRelease
  BY <1>5 DEF NoNewRelease
<1>6. NoNewRelease
  BY <1>2, <1>3, <1>4, <1>5 DEF Shape, BeginAffectAdd, BeginAffectRemove
<1> QED
  BY <1>1, <1>6, OwedKept

LEMMA LeasesOwe == TypeInv /\ ReleasedWorkIsOwed /\ Leases => ReleasedWorkIsOwed'
<1> SUFFICES ASSUME TypeOK, ReleasedWorkIsOwed, NEW s \in Spaces,
                    \/ Lock(s)
                    \/ Release(s)
                    \/ Recover(s)
                    \/ Finalize(s)
                    \/ \E d \in DispositionInputs : SetHandoffDisposition(s, d)
                    \/ \E r \in Repositories : AbandonMember(s, r) \/ CleanupWorktree(s, r)
             PROVE  ReleasedWorkIsOwed'
  BY DEF TypeInv, Leases
<1>0. spaces[s] \in SpaceRecords /\ debts \in [Spaces -> [Repositories -> DebtStatuses]]
  BY DEF TypeOK
<1>1. CASE Lock(s)
  BY <1>0, <1>1, OwedKept DEF Lock, DebtKept, NoNewRelease, TypeOK, SpaceRecords
<1>2. CASE Release(s)
  <2>1. \A r \in spaces[s].generated : r \in Repositories
    BY <1>0 DEF SpaceRecords
  <2> QED
    BY <1>2, <2>1, FreedOwes DEF Release
<1>3. CASE Recover(s)
  <2>1. \A r \in spaces[s].generated : RecoveredDebt(s)[r] # "none"
    BY <1>0 DEF RecoveredDebt, SpaceRecords
  <2> QED
    BY <1>3, <2>1, FreedOwes DEF Recover
<1>4. CASE Finalize(s)
  BY <1>0, <1>4, OwedKept DEF Finalize, DebtKept, NoNewRelease, TypeOK, SpaceRecords
<1>5. ASSUME NEW d \in DispositionInputs, SetHandoffDisposition(s, d)
      PROVE  ReleasedWorkIsOwed'
  BY <1>0, <1>5, OwedKept DEF SetHandoffDisposition, DebtKept, NoNewRelease, TypeOK, SpaceRecords
<1>6. ASSUME NEW r \in Repositories, AbandonMember(s, r) \/ CleanupWorktree(s, r)
      PROVE  ReleasedWorkIsOwed'
  BY <1>0, <1>6, OwedKept DEF AbandonMember, CleanupWorktree, DebtKept, NoNewRelease
<1> QED
  BY <1>1, <1>2, <1>3, <1>4, <1>5, <1>6

LEMMA CallsOwe ==
    ASSUME TypeInv, ReleasedWorkIsOwed, NEW c \in Clients, Start(c) \/ Continue(c) \/ Abort(c)
    PROVE  ReleasedWorkIsOwed'
<1>0. /\ TypeOK
      /\ spaces \in [Spaces -> SpaceRecords]
      /\ debts \in [Spaces -> [Repositories -> DebtStatuses]]
  BY DEF TypeInv, TypeOK
<1>1. CASE spaces' = spaces /\ debts' = debts
  BY <1>0, <1>1, OwedKept DEF DebtKept, NoNewRelease
<1>2. ASSUME NEW op, NEW s \in Spaces, NEW successor \in Spaces, Reserve(c, op, s, successor)
      PROVE  ReleasedWorkIsOwed'
  <2>1. Reserved(s).status = "preparing"
    BY DEF Reserved, NoSpace
  <2> QED
    BY <1>0, <1>2, <2>1, ReplacedIsNoRelease, OwedKept DEF Reserve, DebtKept
<1>3. CASE FinishAffect(c)
  BY <1>0, <1>3, OwedKept
  DEF FinishAffect, AffectCalls, Declare, Editable, DebtKept, NoNewRelease, SpaceRecords
<1>4. CASE Publish(c)
  <2>1. calls[c].space \in Spaces
    BY <1>4, PrepareCallType DEF Publish, Preparing
  <2>2. Published(c).status \in {"locked", "deferred"}
    BY <1>0, <2>1 DEF Published, SpaceRecords
  <2> QED
    BY <1>0, <1>4, <2>1, <2>2, ReplacedIsNoRelease, OwedKept DEF Publish, DebtKept
<1>5. CASE RecordFailure(c)
  <2>1. calls[c].space \in Spaces
    BY <1>5, PrepareCallType DEF RecordFailure, Preparing
  <2> QED
    BY <1>0, <1>5, <2>1, OwedKept DEF RecordFailure, DebtKept, NoNewRelease, SpaceRecords
<1>6. CASE CommitRollback(c)
  BY <1>0, <1>6, OwedKept
  DEF CommitRollback, RollbackCalls, DebtKept, NoNewRelease, SpaceRecords
<1>7. ASSUME NEW r \in Repositories, IntegrateMember(c, r)
      PROVE  ReleasedWorkIsOwed'
  BY <1>0, <1>7, OwedKept DEF IntegrateMember, ReconcileCalls, DebtKept, NoNewRelease
<1>8. CASE Start(c)
  BY <1>1, <1>2, <1>8 DEF Start, RemoveArtifacts, BeginReconcile
<1>9. CASE Continue(c)
  BY <1>1, <1>3, <1>4, <1>5, <1>6, <1>7, <1>9
  DEF Continue, CreateWorktree, CreateWorkset, MaterializationFails, PublicationFails
<1>10. CASE Abort(c)
  BY <1>1, <1>10 DEF Abort
<1> QED
  BY <1>8, <1>9, <1>10

(* Every generated member of a released space is recorded as owed,         *)
(* reconciled or abandoned, whoever releases or recovers it and when.      *)
THEOREM ReleaseLeavesDebt == Spec => []ReleasedWorkIsOwed
<1>1. Init => ReleasedWorkIsOwed
  BY DEF Init, NoSpace, ReleasedWorkIsOwed
<1>2. TypeInv /\ ReleasedWorkIsOwed /\ [Next]_vars => ReleasedWorkIsOwed'
  <2>1. UNCHANGED vars /\ ReleasedWorkIsOwed => ReleasedWorkIsOwed'
    BY DEF vars, ReleasedWorkIsOwed
  <2> QED
    BY <2>1, TopologyOwes, ShapeOwes, LeasesOwe, CallsOwe DEF Next
<1>3. Spec => []TypeInv
  BY TypeCorrect, PTL DEF TypeInv
<1> QED
  BY <1>1, <1>2, <1>3, PTL DEF Spec
-----------------------------------------------------------------------------
(* The registered graph: it is finite and valid, so the closures, the      *)
(* rankings and the coverage of AuthorityGraph_proofs are those of every   *)
(* graph that the lifecycle reaches.                                       *)

GraphAccepted == FiniteGraph(graph) /\ ValidGraph(graph)

(* A step adds at most one repository, authority or relation.              *)
LEMMA GraphGrows ==
    ASSUME TypeOK, FiniteGraph(graph), [Next]_vars
    PROVE  FiniteGraph(graph') /\ graph.dependencies \subseteq graph'.dependencies
<1>1. CASE graph' = graph
  BY <1>1
<1>2. CASE Topology
  <2>1. /\ graph \in Graphs
        /\ IsFiniteSet(graph.authorities)
        /\ IsFiniteSet(graph.parents)
        /\ IsFiniteSet(graph.dependencies)
    BY DEF TypeOK, FiniteGraph
  <2>2. \A x : /\ IsFiniteSet(graph.authorities \cup {x})
               /\ IsFiniteSet(graph.parents \cup {x})
               /\ IsFiniteSet(graph.dependencies \cup {x})
    BY <2>1, FS_AddElement
  <2>3. ASSUME NEW r, graph' = [graph EXCEPT !.repositories = @ \cup {r}]
        PROVE  FiniteGraph(graph') /\ graph.dependencies \subseteq graph'.dependencies
    BY <2>1, <2>3 DEF Graphs, FiniteGraph
  <2>4. ASSUME NEW x, graph' = [graph EXCEPT !.authorities = @ \cup {x}]
        PROVE  FiniteGraph(graph') /\ graph.dependencies \subseteq graph'.dependencies
    BY <2>1, <2>2, <2>4 DEF Graphs, FiniteGraph
  <2>5. ASSUME NEW x, graph' = [graph EXCEPT !.parents = @ \cup {x}]
        PROVE  FiniteGraph(graph') /\ graph.dependencies \subseteq graph'.dependencies
    BY <2>1, <2>2, <2>5 DEF Graphs, FiniteGraph
  <2>6. ASSUME NEW x, graph' = [graph EXCEPT !.dependencies = @ \cup {x}]
        PROVE  FiniteGraph(graph') /\ graph.dependencies \subseteq graph'.dependencies
    BY <2>1, <2>2, <2>6 DEF Graphs, FiniteGraph
  <2> QED
    BY <1>2, <2>3, <2>4, <2>5, <2>6
    DEF Topology, RegisterRepository, RegisterAuthority, RelateParent, RelateDependency, Extend
<1>3. graph' # graph => Topology
  BY GrowthIsTopology
<1> QED
  BY <1>1, <1>2, <1>3

LEMMA InitAccepted == Init => GraphAccepted
<1> SUFFICES ASSUME graph = EmptyGraph PROVE GraphAccepted
  BY DEF Init
<1>1. graph.authorities = {} /\ graph.parents = {} /\ graph.dependencies = {}
  BY DEF EmptyGraph
<1>2. Identifiers(graph) = {}
  BY <1>1 DEF Identifiers
<1>3. ValidGraph(graph)
  BY <1>1, <1>2 DEF ValidGraph, UniqueAuthorities, ContainmentIsForest, DependenciesAreAcyclic
<1> QED
  BY <1>1, <1>3, FS_EmptySet DEF GraphAccepted, FiniteGraph

LEMMA StepAccepted == TypeOK /\ GraphAccepted /\ [Next]_vars => GraphAccepted'
<1> SUFFICES ASSUME TypeOK, GraphAccepted, [Next]_vars PROVE GraphAccepted'
  OBVIOUS
<1>1. FiniteGraph(graph')
  BY GraphGrows DEF GraphAccepted
<1>2. ValidGraph(graph')
  BY GrowthIsExtend DEF GraphAccepted, Extend
<1> QED
  BY <1>1, <1>2 DEF GraphAccepted

LEMMA AcceptedAlways == Spec => [](TypeOK /\ GraphAccepted)
BY InitAccepted, StepAccepted, TypeCorrect, PTL DEF Spec

(* In every state of the lifecycle a closure is the least closed set, what *)
(* is registered has no cycle, and leases conflict exactly when they cover *)
(* a common authority.                                                     *)
THEOREM RegisteredGraphIsSound ==
    Spec => [](HeldIsLeastClosure /\ AcceptedGraphIsRanked /\ ConflictIsSharedSubtree)
<1>1. TypeOK /\ GraphAccepted =>
        HeldIsLeastClosure /\ AcceptedGraphIsRanked /\ ConflictIsSharedSubtree
  BY ClosuresAreLeast, AcceptedIsRanked, ConflictsAreShared DEF GraphAccepted, TypeOK
<1> QED
  BY <1>1, AcceptedAlways, PTL

-----------------------------------------------------------------------------
(* No lease lies outside the plan of its owner.                            *)

Within == LeasesWithinPlan /\ PreparationsWithinPlan

(* Outside the topology: claims change only where nothing is held, and     *)
(* what is newly leased or prepared is within the plan.                    *)
LEMMA WithinKept ==
    ASSUME Safe, TypeOK', Within, graph' = graph,
           \A s \in Spaces : \/ spaces'[s].claim = spaces[s].claim
                             \/ spaces[s].status \in {"absent", "draft"},
           \A s \in Spaces : LeasesOf(s)' \subseteq LeasesOf(s) \/ LeasesOf(s)' \subseteq Plan(s)',
           \A c \in Clients, s \in Spaces : calls'[c] \in PrepareCalls /\ calls'[c].space = s =>
              \/ /\ calls[c] \in PrepareCalls
                 /\ calls[c].space = s
                 /\ calls'[c].held = calls[c].held
              \/ calls'[c].held \subseteq Plan(s)'
    PROVE  Within'
<1>0. Owners \subseteq Spaces /\ UnshapedOwnsNothing
  BY OwnersAreSpaces DEF Safe, TypeInv, LeaseCore
<1>1. \A s \in Spaces : spaces'[s].claim = spaces[s].claim => Plan(s)' = Plan(s)
  BY PlanKept
<1>2. ASSUME NEW s \in Spaces
      PROVE  LeasesOf(s)' \subseteq Plan(s)'
  <2>1. CASE LeasesOf(s)' \subseteq Plan(s)'
    BY <2>1
  <2>2. CASE LeasesOf(s)' \subseteq LeasesOf(s) /\ LeasesOf(s) = {}
    BY <2>2
  <2>3. CASE LeasesOf(s)' \subseteq LeasesOf(s) /\ LeasesOf(s) # {}
    <3>1. s \in Owners
      BY <2>3, OwnersHold
    <3>2. LeasesOf(s) \subseteq Plan(s) /\ Plan(s)' = Plan(s)
      BY <1>0, <1>1, <3>1 DEF Within, LeasesWithinPlan, UnshapedOwnsNothing
    <3> QED
      BY <2>3, <3>2
  <2> QED
    BY <2>1, <2>2, <2>3
<1>3. LeasesWithinPlan'
  <2>1. Owners' \subseteq Spaces
    BY DEF TypeOK, Owners, LeaseRecords
  <2> QED
    BY <1>2, <2>1 DEF LeasesWithinPlan
<1>4. PreparationsWithinPlan'
  <2> SUFFICES ASSUME NEW c \in Clients, calls'[c] \in PrepareCalls,
                      NEW s \in Spaces, s = calls'[c].space
               PROVE  calls'[c].held \subseteq Plan(s)'
    BY PrepareCallType DEF PreparationsWithinPlan, Plan
  <2>1. ASSUME calls[c] \in PrepareCalls, calls[c].space = s, calls'[c].held = calls[c].held
        PROVE  calls'[c].held \subseteq Plan(s)'
    <3>1. spaces[s].status \notin {"absent", "draft"}
      BY <2>1 DEF Safe, CallCore, PreparationsAccounted
    <3> QED
      BY <1>1, <2>1, <3>1 DEF Within, PreparationsWithinPlan
  <2> QED
    BY <2>1
<1> QED
  BY <1>3, <1>4 DEF Within

\* No call begins to prepare, and what is prepared stays.
PreparationsGoOn ==
    \A c \in Clients : calls'[c] \in PrepareCalls =>
        /\ calls[c] \in PrepareCalls
        /\ calls'[c].space = calls[c].space
        /\ calls'[c].held = calls[c].held

\* The claim of a space changes only while it is not shaped.
ClaimsFixed ==
    \A s \in Spaces : \/ spaces'[s].claim = spaces[s].claim
                      \/ spaces[s].status \in {"absent", "draft"}

LEMMA WithinQuiet ==
    ASSUME Safe, TypeOK', Within, UNCHANGED <<graph, leases>>, ClaimsFixed, PreparationsGoOn
    PROVE  Within'
<1>1. \A s \in Spaces : LeasesOf(s)' = LeasesOf(s)
  BY LeasesKept
<1> QED
  BY <1>1, WithinKept DEF ClaimsFixed, PreparationsGoOn

LEMMA OtherCallGoesOn ==
    ASSUME TypeOK, NEW c \in Clients, NEW call, call \notin PrepareCalls,
           calls' = [calls EXCEPT ![c] = call]
    PROVE  PreparationsGoOn
BY DEF PreparationsGoOn, TypeOK

LEMMA ClaimReplaced ==
    ASSUME TypeOK, NEW s \in Spaces, NEW record, spaces' = [spaces EXCEPT ![s] = record],
           record.claim = spaces[s].claim \/ spaces[s].status \in {"absent", "draft"}
    PROVE  ClaimsFixed
BY DEF ClaimsFixed, TypeOK

LEMMA ClaimsUnchanged == spaces' = spaces => ClaimsFixed
BY DEF ClaimsFixed

LEMMA CallsUnchanged == calls' = calls => PreparationsGoOn
BY DEF PreparationsGoOn

LEMMA ExtendWithin ==
    ASSUME Safe, TypeOK', Within, FiniteGraph(graph'), graph.dependencies \subseteq graph'.dependencies,
           NEW candidate, Extend(candidate)
    PROVE  Within'
<1>0. TypeOK /\ Owners \subseteq Spaces
  BY OwnersAreSpaces DEF Safe, TypeInv
<1>1. UNCHANGED <<leases, calls>> /\ graph' = candidate
  BY DEF Extend
<1>2. ASSUME NEW s \in Spaces
      PROVE  spaces'[s].claim = spaces[s].claim
  <2>1. /\ spaces[s] \in SpaceRecords
        /\ graphGeneration + 1 \in Nat
        /\ spaces'[s] = Rebased(candidate, s)
    BY <1>0 DEF TypeOK, Extend
  <2> QED
    BY <2>1, RebasedIsSpace
<1>3. ASSUME NEW s \in Spaces
      PROVE  Plan(s) \subseteq Plan(s)'
  BY <1>2, HeldGrows DEF Plan
<1>4. Owners' = Owners /\ \A s : LeasesOf(s)' = LeasesOf(s)
  BY <1>1, LeasesKept
<1>5. LeasesWithinPlan'
  BY <1>0, <1>3, <1>4 DEF Within, LeasesWithinPlan
<1>6. PreparationsWithinPlan'
  <2> SUFFICES ASSUME NEW c \in Clients, calls[c] \in PrepareCalls, NEW s \in Spaces,
                      s = calls[c].space
               PROVE  calls[c].held \subseteq Plan(s)'
    BY <1>1, PrepareCallType DEF PreparationsWithinPlan, Plan
  <2> QED
    BY <1>3 DEF Within, PreparationsWithinPlan
<1> QED
  BY <1>5, <1>6 DEF Within

(* The leases of a space after it has exchanged them.                      *)
LEMMA AcquiredLeases ==
    ASSUME NEW s, NEW held, leases' = Acquired(s, held)
    PROVE  LeasesOf(s)' = held /\ \A x : x # s => LeasesOf(x)' = LeasesOf(x)
<1>1. {l \in leases' : l.owner = s} = {[authority |-> a, owner |-> s] : a \in held}
  BY DEF Acquired, Others
<1>2. ASSUME NEW a \in held
      PROVE  a \in LeasesOf(s)'
  <2> DEFINE lease == [authority |-> a, owner |-> s]
  <2>1. lease \in {l \in leases' : l.owner = s} /\ lease.authority = a
    BY <1>1
  <2> QED
    BY <2>1 DEF LeasesOf
<1>3. LeasesOf(s)' \subseteq held
  BY <1>1 DEF LeasesOf
<1>4. \A x : x # s => LeasesOf(x)' = LeasesOf(x)
  BY DEF LeasesOf, Acquired, Others
<1> QED
  BY <1>2, <1>3, <1>4

LEMMA ShapeWithin == Safe /\ TypeOK' /\ Within /\ Shape => Within'
<1> SUFFICES ASSUME Safe, TypeOK', Within, NEW s \in Spaces,
                    \/ CreateSpace(s)
                    \/ \E r \in AssociationInputs : Associate(s, r)
                    \/ \E claim \in ClaimInputs :
                          \/ SetAffected(s, claim)
                          \/ \E c \in Clients :
                                BeginAffectAdd(c, s, claim) \/ BeginAffectRemove(c, s, claim)
             PROVE  Within'
  BY DEF Shape
<1>0. TypeOK
  BY DEF Safe, TypeInv
<1>1. CASE CreateSpace(s)
  <2>1. spaces[s].status = "absent"
    BY <1>1 DEF CreateSpace, Exists
  <2> QED
    BY <1>0, <1>1, <2>1, ClaimReplaced, CallsUnchanged, WithinQuiet DEF CreateSpace
<1>2. ASSUME NEW r, Associate(s, r)
      PROVE  Within'
  <2>1. spaces[s].status = "draft"
    BY <1>2 DEF Associate, Editable
  <2> QED
    BY <1>0, <1>2, <2>1, ClaimReplaced, CallsUnchanged, WithinQuiet DEF Associate
<1>3. ASSUME NEW claim, SetAffected(s, claim)
      PROVE  Within'
  <2>1. spaces[s].status = "draft"
    BY <1>3 DEF SetAffected, Declare, Editable
  <2> QED
    BY <1>0, <1>3, <2>1, ClaimReplaced, CallsUnchanged, WithinQuiet DEF SetAffected, Declare
<1>4. ASSUME NEW claim \in ClaimInputs, NEW c \in Clients,
             BeginAffectAdd(c, s, claim) \/ BeginAffectRemove(c, s, claim)
      PROVE  Within'
  <2>1. ASSUME NEW op \in {"affect_add", "affect_remove"}, NEW claimed,
               calls' = [calls EXCEPT ![c] = [op |-> op, space |-> s, claim |-> claimed]]
        PROVE  PreparationsGoOn
    <3> DEFINE call == [op |-> op, space |-> s, claim |-> claimed]
    <3>1. call \notin PrepareCalls
      BY DEF PrepareCalls
    <3> QED
      BY <1>0, <2>1, <3>1, OtherCallGoesOn
  <2>2. PreparationsGoOn
    BY <1>4, <2>1 DEF BeginAffectAdd, BeginAffectRemove
  <2> QED
    BY <1>4, <2>2, ClaimsUnchanged, WithinQuiet DEF BeginAffectAdd, BeginAffectRemove
<1> QED
  BY <1>1, <1>2, <1>3, <1>4

LEMMA LeasesWithin == Safe /\ TypeOK' /\ Within /\ Leases => Within'
<1> SUFFICES ASSUME Safe, TypeOK', Within, NEW s \in Spaces,
                    \/ Lock(s)
                    \/ Release(s)
                    \/ Recover(s)
                    \/ Finalize(s)
                    \/ \E d \in DispositionInputs : SetHandoffDisposition(s, d)
                    \/ \E r \in Repositories : AbandonMember(s, r) \/ CleanupWorktree(s, r)
             PROVE  Within'
  BY DEF Leases
<1>0. TypeOK /\ spaces[s] \in SpaceRecords
  BY DEF Safe, TypeInv, TypeOK
<1>1. CASE Lock(s)
  <2> DEFINE record == [spaces[s] EXCEPT !.status = "locked",
                                         !.held = Plan(s),
                                         !.pinned = PinnedAtLock(s),
                                         !.graphGeneration = graphGeneration]
  <2>1. record.claim = spaces[s].claim
    BY <1>0 DEF SpaceRecords
  <2>2. spaces' = [spaces EXCEPT ![s] = record]
    BY <1>1 DEF Lock
  <2>3. ClaimsFixed /\ spaces'[s].claim = spaces[s].claim
    <3> HIDE DEF record
    <3> QED
      BY <1>0, <2>1, <2>2, ClaimReplaced DEF TypeOK
  <2>4. UNCHANGED <<graph, calls>> /\ leases' = Acquired(s, Plan(s))
    BY <1>1 DEF Lock
  <2>5. Plan(s)' = Plan(s)
    BY <2>3, <2>4, PlanKept
  <2>6. \A x \in Spaces : LeasesOf(x)' \subseteq LeasesOf(x) \/ LeasesOf(x)' \subseteq Plan(x)'
    BY <2>4, <2>5, AcquiredLeases
  <2> QED
    BY <2>3, <2>4, <2>6, CallsUnchanged, WithinKept DEF ClaimsFixed, PreparationsGoOn
<1>2. CASE Release(s) \/ Recover(s)
  <2> DEFINE record == [spaces[s] EXCEPT !.status = "released", !.held = {}]
  <2>1. record.claim = spaces[s].claim
    BY <1>0 DEF SpaceRecords
  <2>2. spaces' = [spaces EXCEPT ![s] = record]
    BY <1>2 DEF Release, Recover, Freed
  <2>3. ClaimsFixed
    <3> HIDE DEF record
    <3> QED
      BY <1>0, <2>1, <2>2, ClaimReplaced
  <2>4. UNCHANGED <<graph, calls>> /\ leases' \subseteq leases
    BY <1>2 DEF Release, Recover, Freed, Others
  <2>5. \A x \in Spaces : LeasesOf(x)' \subseteq LeasesOf(x)
    BY <2>4 DEF LeasesOf
  <2> QED
    BY <2>3, <2>4, <2>5, CallsUnchanged, WithinKept DEF ClaimsFixed, PreparationsGoOn
<1>3. CASE Finalize(s)
  <2> DEFINE record == [spaces[s] EXCEPT !.status = "finalized"]
  <2>1. record.claim = spaces[s].claim
    BY <1>0 DEF SpaceRecords
  <2> QED
    BY <1>0, <1>3, <2>1, ClaimReplaced, CallsUnchanged, WithinQuiet DEF Finalize
<1>4. ASSUME NEW d, SetHandoffDisposition(s, d)
      PROVE  Within'
  <2> DEFINE record == [spaces[s] EXCEPT !.disposition = d]
  <2>1. record.claim = spaces[s].claim
    BY <1>0 DEF SpaceRecords
  <2> QED
    BY <1>0, <1>4, <2>1, ClaimReplaced, CallsUnchanged, WithinQuiet DEF SetHandoffDisposition
<1>5. ASSUME NEW r, AbandonMember(s, r) \/ CleanupWorktree(s, r)
      PROVE  Within'
  BY <1>5, ClaimsUnchanged, CallsUnchanged, WithinQuiet DEF AbandonMember, CleanupWorktree
<1> QED
  BY <1>1, <1>2, <1>3, <1>4, <1>5

(* A successor is reserved with its source's claim, so what its call will  *)
(* hold is its plan.                                                       *)
LEMMA ReserveWithin ==
    ASSUME Safe, TypeOK', Within, NEW c \in Clients, NEW op, NEW s \in Spaces,
           NEW successor \in Spaces, Reserve(c, op, s, successor)
    PROVE  Within'
<1>0. TypeOK
  BY DEF Safe, TypeInv
<1> DEFINE call == [op |-> op, step |-> "materialize", space |-> successor, held |-> Plan(s),
                    work |-> WorkRepositories(graph, spaces[s].claim), artifacts |-> {}]
<1>1. UNCHANGED <<graph, leases>> /\ calls' = [calls EXCEPT ![c] = call]
  BY DEF Reserve
<1>2. spaces[successor].status = "absent" /\ spaces' = [spaces EXCEPT ![successor] = Reserved(s)]
  BY DEF Reserve, Available, Exists
<1>3. ClaimsFixed
  BY <1>0, <1>2, ClaimReplaced
<1>4. spaces'[successor].claim = spaces[s].claim
  BY <1>0, <1>2 DEF TypeOK, Reserved, NoSpace
<1>5. Plan(successor)' = Plan(s)
  BY <1>1, <1>4 DEF Plan
<1>6. call.space = successor /\ call.held = Plan(s)
  OBVIOUS
<1> HIDE DEF call
<1>7. ASSUME NEW d \in Clients, NEW x \in Spaces, calls'[d] \in PrepareCalls,
             calls'[d].space = x
      PROVE  \/ /\ calls[d] \in PrepareCalls
                /\ calls[d].space = x
                /\ calls'[d].held = calls[d].held
             \/ calls'[d].held \subseteq Plan(x)'
  <2>1. CASE d = c
    <3>1. calls'[d] = call
      BY <1>0, <1>1, <2>1 DEF TypeOK
    <3> QED
      BY <1>5, <1>6, <1>7, <3>1
  <2>2. CASE d # c
    BY <1>0, <1>1, <1>7, <2>2 DEF TypeOK
  <2> QED
    BY <2>1, <2>2
<1>8. \A x \in Spaces : LeasesOf(x)' = LeasesOf(x)
  BY <1>1, LeasesKept
<1> QED
  BY <1>1, <1>3, <1>7, <1>8, WithinKept DEF ClaimsFixed

(* Publication leases what the call has held since the reservation, and    *)
(* that is still within the plan.                                          *)
LEMMA PublishWithin ==
    ASSUME Safe, TypeOK', Within, NEW c \in Clients, Publish(c)
    PROVE  Within'
<1>0. /\ TypeOK
      /\ calls[c] \in PrepareCalls
      /\ calls[c].op \in {"isolate", "defer"}
  BY PrepareCallType DEF Safe, TypeInv, Publish, Preparing
<1> SUFFICES ASSUME NEW s \in Spaces, s = calls[c].space, NEW held, held = calls[c].held
             PROVE  Within'
  BY <1>0, PrepareCallType
<1>1. spaces[s] \in SpaceRecords /\ spaces' = [spaces EXCEPT ![s] = Published(c)]
  BY <1>0 DEF Publish, TypeOK
<1>2. Published(c).claim = spaces[s].claim
  BY <1>1 DEF Published, SpaceRecords
<1>3. ClaimsFixed /\ spaces'[s].claim = spaces[s].claim
  BY <1>0, <1>1, <1>2, ClaimReplaced DEF TypeOK
<1>4. graph' = graph /\ PreparationsGoOn
  BY <1>0, OtherCallGoesOn, IdleIsNoPreparation DEF Publish
<1>5. Plan(s)' = Plan(s)
  BY <1>3, <1>4, PlanKept
<1>6. CASE leases' = leases
  BY <1>3, <1>4, <1>6, WithinQuiet
<1>7. CASE leases' = leases \cup {[authority |-> a, owner |-> s] : a \in held}
  <2>1. held \subseteq Plan(s) /\ LeasesOf(s) \in {{}, Plan(s)}
    BY <1>0 DEF Within, PreparationsWithinPlan, Safe, CallCore, PreparationsAccounted
  <2>2. LeasesOf(s)' \subseteq LeasesOf(s) \cup held
    <3>1. \A l \in leases' : l \in leases \/ l.authority \in held
      BY <1>7
    <3> QED
      BY <3>1 DEF LeasesOf
  <2>3. \A x \in Spaces \ {s} : LeasesOf(x)' = LeasesOf(x)
    <3>1. \A l \in leases' : l \in leases \/ l.owner = s
      BY <1>7
    <3>2. leases \subseteq leases'
      BY <1>7
    <3> QED
      BY <3>1, <3>2 DEF LeasesOf
  <2>4. \A x \in Spaces : LeasesOf(x)' \subseteq LeasesOf(x) \/ LeasesOf(x)' \subseteq Plan(x)'
    BY <1>5, <2>1, <2>2, <2>3
  <2> QED
    BY <1>3, <1>4, <2>4, WithinKept DEF ClaimsFixed, PreparationsGoOn
<1> QED
  BY <1>6, <1>7 DEF Publish

LEMMA CallsWithin ==
    ASSUME Safe, TypeOK', Within, NEW c \in Clients, Start(c) \/ Continue(c) \/ Abort(c)
    PROVE  Within'
<1>0. TypeOK /\ calls \in [Clients -> Calls]
  BY DEF Safe, TypeInv, TypeOK
<1>1. ASSUME NEW call, call \notin PrepareCalls, calls' = [calls EXCEPT ![c] = call],
             UNCHANGED <<graph, leases>>, ClaimsFixed
      PROVE  Within'
  BY <1>0, <1>1, OtherCallGoesOn, WithinQuiet
<1>2. CASE Abort(c)
  BY <1>1, <1>2, ClaimsUnchanged, IdleIsNoPreparation DEF Abort
<1>3. ASSUME NEW s \in Spaces, NEW removed, RemoveArtifacts(c, s, removed)
      PROVE  Within'
  <2>1. [op |-> "rollback", space |-> s] \notin PrepareCalls
    BY DEF PrepareCalls
  <2> QED
    BY <1>1, <1>3, <2>1, ClaimsUnchanged, IdleIsNoPreparation DEF RemoveArtifacts
<1>4. ASSUME NEW s \in Spaces, BeginReconcile(c, s)
      PROVE  Within'
  <2>1. [op |-> "reconcile", space |-> s, remaining |-> spaces[s].generated,
         order |-> RepositoryDependencies] \notin PrepareCalls
    BY DEF PrepareCalls
  <2> QED
    BY <1>1, <1>4, <2>1, ClaimsUnchanged DEF BeginReconcile
<1>5. CASE FinishAffect(c)
  <2>1. calls[c].space \in Spaces /\ spaces[calls[c].space].status = "draft"
    BY <1>5 DEF FinishAffect, AffectCalls, Declare, Editable
  <2>2. ClaimsFixed
    BY <1>0, <1>5, <2>1, ClaimReplaced DEF FinishAffect, Declare
  <2> QED
    BY <1>1, <1>5, <2>2, IdleIsNoPreparation DEF FinishAffect
<1>6. ASSUME NEW call, calls[c] \in PrepareCalls, calls' = [calls EXCEPT ![c] = call],
             call.space = calls[c].space, call.held = calls[c].held,
             UNCHANGED <<graph, leases, spaces>>
      PROVE  Within'
  <2>1. PreparationsGoOn
    BY <1>0, <1>6 DEF PreparationsGoOn
  <2> QED
    BY <1>6, <2>1, ClaimsUnchanged, WithinQuiet
<1>7. ASSUME NEW step, calls[c] \in PrepareCalls,
             calls' = [calls EXCEPT ![c] = [@ EXCEPT !.step = step]],
             UNCHANGED <<graph, leases, spaces>>
      PROVE  Within'
  <2>1. /\ [calls[c] EXCEPT !.step = step].space = calls[c].space
        /\ [calls[c] EXCEPT !.step = step].held = calls[c].held
    BY <1>7 DEF PrepareCalls
  <2> QED
    BY <1>6, <1>7, <2>1
<1>8. ASSUME NEW r, CreateWorktree(c, r)
      PROVE  Within'
  <2> DEFINE call == [calls[c] EXCEPT !.artifacts = @ \cup {r}]
  <2>1. calls[c] \in PrepareCalls /\ calls' = [calls EXCEPT ![c] = call]
    BY <1>8 DEF CreateWorktree, Preparing
  <2>2. call.space = calls[c].space /\ call.held = calls[c].held
    BY <2>1 DEF PrepareCalls
  <2> QED
    BY <1>6, <1>8, <2>1, <2>2 DEF CreateWorktree
<1>9. CASE CreateWorkset(c) \/ MaterializationFails(c) \/ PublicationFails(c)
  BY <1>7, <1>9 DEF CreateWorkset, MaterializationFails, PublicationFails, Preparing
<1>10. CASE RecordFailure(c)
  <2> DEFINE record == [spaces[calls[c].space] EXCEPT !.status = "preparation_failed",
                                                      !.artifacts = calls[c].artifacts]
  <2>1. calls[c].space \in Spaces
    BY <1>10, PrepareCallType DEF RecordFailure, Preparing
  <2>2. record.claim = spaces[calls[c].space].claim
    BY <1>0, <2>1 DEF TypeOK, SpaceRecords
  <2>3. ClaimsFixed
    BY <1>0, <1>10, <2>1, <2>2, ClaimReplaced DEF RecordFailure
  <2> QED
    BY <1>1, <1>10, <2>3, IdleIsNoPreparation DEF RecordFailure
<1>11. CASE CommitRollback(c)
  <2> DEFINE record == [spaces[calls[c].space] EXCEPT !.status = "rolled_back"]
  <2>1. calls[c].space \in Spaces
    BY <1>11 DEF CommitRollback, RollbackCalls
  <2>2. record.claim = spaces[calls[c].space].claim
    BY <1>0, <2>1 DEF TypeOK, SpaceRecords
  <2>3. ClaimsFixed
    BY <1>0, <1>11, <2>1, <2>2, ClaimReplaced DEF CommitRollback
  <2> QED
    BY <1>1, <1>11, <2>3, IdleIsNoPreparation DEF CommitRollback
<1>12. ASSUME NEW r, IntegrateMember(c, r)
      PROVE  Within'
  <2> DEFINE left == calls[c].remaining \ {r}
  <2>1. PICK call : /\ calls' = [calls EXCEPT ![c] = call]
                    /\ call \in {Idle, [calls[c] EXCEPT !.remaining = left]}
    BY <1>12 DEF IntegrateMember
  <2>2. calls[c] \in ReconcileCalls
    BY <1>12 DEF IntegrateMember
  <2>3. [calls[c] EXCEPT !.remaining = left].op = "reconcile"
    BY <2>2 DEF ReconcileCalls
  <2>4. call \notin PrepareCalls
    BY <2>1, <2>3, IdleIsNoPreparation DEF PrepareCalls
  <2> QED
    BY <1>1, <1>12, <2>1, <2>4, ClaimsUnchanged DEF IntegrateMember
<1> QED
  BY <1>2, <1>3, <1>4, <1>5, <1>8, <1>9, <1>10, <1>11, <1>12, ReserveWithin, PublishWithin
  DEF Start, Continue

LEMMA InitWithin == Init => Within
<1> SUFFICES ASSUME Init PROVE Within
  OBVIOUS
<1>1. Owners = {} /\ \A c \in Clients : calls[c] \notin PrepareCalls
  BY IdleIsNoPreparation DEF Init, Owners
<1> QED
  BY <1>1 DEF Within, LeasesWithinPlan, PreparationsWithinPlan

LEMMA StepWithin == Safe /\ GraphAccepted /\ Within /\ [Next]_vars => Within'
<1> SUFFICES ASSUME Safe, GraphAccepted, Within, [Next]_vars PROVE Within'
  OBVIOUS
<1>0. TypeOK /\ TypeOK'
  BY StepType DEF Safe, TypeInv
<1>1. CASE Topology
  <2>1. \E candidate : Extend(candidate)
    BY <1>1 DEF Topology, RegisterRepository, RegisterAuthority, RelateParent, RelateDependency
  <2> QED
    BY <1>0, <2>1, GraphGrows, ExtendWithin DEF GraphAccepted
<1>2. CASE UNCHANGED vars
  BY <1>0, <1>2, ClaimsUnchanged, CallsUnchanged, WithinQuiet DEF vars
<1> QED
  BY <1>0, <1>1, <1>2, ShapeWithin, LeasesWithin, CallsWithin DEF Next

LEMMA WithinAlways == Spec => [](Safe /\ Within)
BY InitWithin, StepWithin, SafeAlways, AcceptedAlways, PTL DEF Spec

(* No space ever leases an authority outside the closure of its claim:     *)
(* also a successor that is published after the graph has grown leases     *)
(* nothing that its present plan does not hold.                            *)
THEOREM LeasesStayWithinPlan == Spec => []LeasesWithinPlan
BY WithinAlways, PTL DEF Within

(* The inductive invariant that the runs check is an invariant.            *)
THEOREM InductiveAlways == Spec => []Inductive
BY WithinAlways, PTL DEF Safe, TypeInv, LeaseCore, CallCore, Within, Inductive

-----------------------------------------------------------------------------
(* Callers that leave an unpublished preparation alone.                    *)

\* A successor in preparation stays "preparing" until its own call ends, and
\* what a rollback is about to record stays failed.
CallsStand ==
    \A c \in Clients :
        /\ calls[c] \in PrepareCalls => spaces[calls[c].space].status = "preparing"
        /\ calls[c] \in RollbackCalls =>
              spaces[calls[c].space].status \in {"preparation_failed", "rolled_back"}

Standing == Safe /\ CallsStand

\* No call begins to prepare or to roll back.
CallsContinue ==
    \A c \in Clients : calls'[c] \in PrepareCalls \cup RollbackCalls =>
        /\ calls[c] \in PrepareCalls <=> calls'[c] \in PrepareCalls
        /\ calls[c] \in RollbackCalls <=> calls'[c] \in RollbackCalls
        /\ calls'[c].space = calls[c].space

\* What is unpublished or given up stays so.
UnpublishedStays ==
    \A s \in Spaces : spaces[s].status \in {"preparing", "preparation_failed", "rolled_back"} =>
        spaces'[s].status = spaces[s].status

LEMMA CallKinds ==
    ASSUME NEW call
    PROVE  /\ call \in PrepareCalls => /\ call \notin RollbackCalls
                                       /\ call # Idle
                                       /\ call.space \in Spaces
           /\ call \in RollbackCalls => call # Idle /\ call.space \in Spaces
           /\ call \in AffectCalls \cup ReconcileCalls =>
                 call \notin PrepareCalls /\ call \notin RollbackCalls
BY DEF PrepareCalls, RollbackCalls, AffectCalls, ReconcileCalls, Idle

LEMMA StandKept ==
    ASSUME CallsStand, CallsContinue, UnpublishedStays
    PROVE  CallsStand'
<1> SUFFICES ASSUME NEW c \in Clients, calls'[c] \in PrepareCalls \cup RollbackCalls
             PROVE  /\ calls'[c] \in PrepareCalls => spaces'[calls'[c].space].status = "preparing"
                    /\ calls'[c] \in RollbackCalls =>
                          spaces'[calls'[c].space].status \in {"preparation_failed", "rolled_back"}
  BY DEF CallsStand
<1>1. calls'[c].space \in Spaces
  BY CallKinds
<1> QED
  BY <1>1 DEF CallsStand, CallsContinue, UnpublishedStays

(* A call that ends, or becomes one of another kind, prepares nothing.     *)
LEMMA CallLeaves ==
    ASSUME TypeOK, NEW c \in Clients, NEW call,
           call \notin PrepareCalls, call \notin RollbackCalls,
           calls' = [calls EXCEPT ![c] = call]
    PROVE  CallsContinue
BY DEF CallsContinue, TypeOK

LEMMA SpacesUnchangedUnpublished == spaces' = spaces => UnpublishedStays
BY DEF UnpublishedStays

(* One record that was neither unpublished nor given up is replaced.       *)
LEMMA PublishedReplaced ==
    ASSUME TypeOK, NEW s \in Spaces, NEW record, spaces' = [spaces EXCEPT ![s] = record],
           \/ spaces[s].status \notin {"preparing", "preparation_failed", "rolled_back"}
           \/ record.status = spaces[s].status
    PROVE  UnpublishedStays
BY DEF UnpublishedStays, TypeOK

LEMMA ShapeStands == Standing /\ Shape => CallsStand'
<1> SUFFICES ASSUME Standing, Shape PROVE CallsStand'
  OBVIOUS
<1>0. TypeOK /\ CallsStand
  BY DEF Standing, Safe, TypeInv
<1>1. ASSUME NEW s \in Spaces, CreateSpace(s)
      PROVE  CallsStand'
  <2>1. CallsContinue /\ UnpublishedStays
    BY <1>0, <1>1, PublishedReplaced DEF CreateSpace, Exists, CallsContinue
  <2> QED
    BY <1>0, <2>1, StandKept
<1>2. ASSUME NEW s \in Spaces, NEW r, Associate(s, r)
      PROVE  CallsStand'
  <2>1. CallsContinue /\ UnpublishedStays
    BY <1>0, <1>2 DEF Associate, Editable, CallsContinue, UnpublishedStays, TypeOK
  <2> QED
    BY <1>0, <2>1, StandKept
<1>3. ASSUME NEW s \in Spaces, NEW claim, SetAffected(s, claim)
      PROVE  CallsStand'
  <2>1. CallsContinue /\ UnpublishedStays
    BY <1>0, <1>3 DEF SetAffected, Declare, Editable, CallsContinue, UnpublishedStays, TypeOK
  <2> QED
    BY <1>0, <2>1, StandKept
<1>4. ASSUME NEW s \in Spaces, NEW claim \in ClaimInputs, NEW c \in Clients,
             BeginAffectAdd(c, s, claim) \/ BeginAffectRemove(c, s, claim)
      PROVE  CallsStand'
  <2>1. PICK call \in AffectCalls : calls' = [calls EXCEPT ![c] = call]
    BY <1>4, BeginAffectCall DEF Standing, Safe
  <2>2. CallsContinue
    BY <1>0, <2>1, CallKinds, CallLeaves
  <2>3. UnpublishedStays
    BY <1>4, SpacesUnchangedUnpublished DEF BeginAffectAdd, BeginAffectRemove
  <2> QED
    BY <1>0, <2>2, <2>3, StandKept
<1> QED
  BY <1>1, <1>2, <1>3, <1>4 DEF Shape

LEMMA LeasesStand == PreparationsLeftAlone /\ Standing /\ Leases => CallsStand'
<1> SUFFICES ASSUME PreparationsLeftAlone, Standing, NEW s \in Spaces,
                    \/ Lock(s)
                    \/ Release(s)
                    \/ Recover(s)
                    \/ Finalize(s)
                    \/ \E d \in DispositionInputs : SetHandoffDisposition(s, d)
                    \/ \E r \in Repositories : AbandonMember(s, r) \/ CleanupWorktree(s, r)
             PROVE  CallsStand'
  BY DEF Leases
<1>0. TypeOK /\ CallsStand
  BY DEF Standing, Safe, TypeInv
<1>1. CallsContinue
  BY DEF Lock, Release, Recover, Finalize, SetHandoffDisposition, AbandonMember,
         CleanupWorktree, CallsContinue
<1>2. CASE Lock(s) \/ Release(s) \/ Recover(s) \/ Finalize(s)
  <2>1. spaces[s].status \notin {"preparing", "preparation_failed", "rolled_back"}
    BY <1>2 DEF Lock, Release, Recover, Finalize, Callable, PreparationsLeftAlone
  <2>2. UnpublishedStays
    BY <1>0, <1>2, <2>1 DEF Lock, Release, Recover, Freed, Finalize, UnpublishedStays, TypeOK
  <2> QED
    BY <1>0, <1>1, <2>2, StandKept
<1>3. ASSUME NEW d, SetHandoffDisposition(s, d)
      PROVE  CallsStand'
  <2>1. UnpublishedStays
    BY <1>0, <1>3 DEF SetHandoffDisposition, UnpublishedStays, TypeOK
  <2> QED
    BY <1>0, <1>1, <2>1, StandKept
<1>4. ASSUME NEW r, AbandonMember(s, r) \/ CleanupWorktree(s, r)
      PROVE  CallsStand'
  BY <1>0, <1>1, <1>4, SpacesUnchangedUnpublished, StandKept DEF AbandonMember, CleanupWorktree
<1> QED
  BY <1>2, <1>3, <1>4

LEMMA StartStands == ASSUME Standing, NEW c \in Clients, Start(c) PROVE CallsStand'
<1>0. /\ TypeOK
      /\ CallsStand
      /\ spaces \in [Spaces -> SpaceRecords]
      /\ calls \in [Clients -> Calls]
  BY DEF Standing, Safe, TypeInv, TypeOK
<1>1. ASSUME NEW op \in {"isolate", "defer"}, NEW s \in Spaces, NEW successor \in Spaces,
             Reserve(c, op, s, successor)
      PROVE  CallsStand'
  <2>1. /\ spaces[successor].status = "absent"
        /\ spaces'[successor].status = "preparing"
        /\ \A x \in Spaces \ {successor} : spaces'[x] = spaces[x]
    BY <1>0, <1>1 DEF Reserve, Available, Exists, Reserved, NoSpace
  <2>2. /\ calls'[c].op = op
        /\ calls'[c].space = successor
        /\ \A d \in Clients \ {c} : calls'[d] = calls[d]
    BY <1>0, <1>1 DEF Reserve
  <2>3. calls'[c] \notin RollbackCalls
    BY <2>2 DEF RollbackCalls
  <2>4. ASSUME NEW d \in Clients \ {c}, calls[d] \in PrepareCalls \cup RollbackCalls
        PROVE  calls[d].space \in Spaces \ {successor}
    BY <1>0, <2>1, <2>4, CallKinds DEF CallsStand
  <2> QED
    BY <1>0, <2>1, <2>2, <2>3, <2>4 DEF CallsStand
<1>2. ASSUME NEW s \in Spaces, NEW removed, RemoveArtifacts(c, s, removed)
      PROVE  CallsStand'
  <2>1. /\ calls'[c] \in {Idle, [op |-> "rollback", space |-> s]}
        /\ \A d \in Clients \ {c} : calls'[d] = calls[d]
        /\ spaces' = spaces
        /\ spaces[s].status = "preparation_failed"
    BY <1>0, <1>2 DEF RemoveArtifacts
  <2>2. calls'[c] \notin PrepareCalls
    BY <2>1 DEF PrepareCalls, Idle
  <2>3. calls'[c] \in RollbackCalls => calls'[c].space = s
    BY <2>1, CallKinds
  <2> QED
    BY <1>0, <2>1, <2>2, <2>3 DEF CallsStand
<1>3. ASSUME NEW s \in Spaces, BeginReconcile(c, s)
      PROVE  CallsStand'
  <2>1. calls'[c].op = "reconcile" /\ \A d \in Clients \ {c} : calls'[d] = calls[d]
    BY <1>0, <1>3 DEF BeginReconcile
  <2>2. calls'[c] \notin PrepareCalls /\ calls'[c] \notin RollbackCalls
    BY <2>1 DEF PrepareCalls, RollbackCalls
  <2>3. CallsContinue
    BY <2>1, <2>2 DEF CallsContinue
  <2> QED
    BY <1>0, <1>3, <2>3, SpacesUnchangedUnpublished, StandKept DEF BeginReconcile
<1> QED
  BY <1>1, <1>2, <1>3 DEF Start

LEMMA ContinueStands == ASSUME Standing, NEW c \in Clients, Continue(c) PROVE CallsStand'
<1>0. /\ TypeOK
      /\ CallsStand
      /\ OnePreparerPerSuccessor
      /\ spaces \in [Spaces -> SpaceRecords]
      /\ calls \in [Clients -> Calls]
      /\ Idle \notin PrepareCalls /\ Idle \notin RollbackCalls
  BY CallKinds DEF Standing, Safe, TypeInv, TypeOK, CallCore
<1>1. CASE FinishAffect(c)
  <2>1. CallsContinue
    BY <1>0, <1>1, CallLeaves DEF FinishAffect
  <2>2. UnpublishedStays
    BY <1>0, <1>1 DEF FinishAffect, Declare, Editable, UnpublishedStays
  <2> QED
    BY <1>0, <2>1, <2>2, StandKept
<1>2. ASSUME NEW r, CreateWorktree(c, r)
      PROVE  CallsStand'
  <2>1. calls[c] \in PrepareCalls
    BY <1>2 DEF CreateWorktree, Preparing
  <2>2. CallsContinue
    BY <1>0, <1>2, <2>1, CallKinds DEF CreateWorktree, CallsContinue, PrepareCalls, RollbackCalls
  <2> QED
    BY <1>0, <1>2, <2>2, SpacesUnchangedUnpublished, StandKept DEF CreateWorktree
<1>3. CASE CreateWorkset(c) \/ MaterializationFails(c) \/ PublicationFails(c)
  <2>1. calls[c] \in PrepareCalls
    BY <1>3 DEF CreateWorkset, MaterializationFails, PublicationFails, Preparing
  <2>2. CallsContinue
    BY <1>0, <1>3, <2>1
    DEF CreateWorkset, MaterializationFails, PublicationFails, CallsContinue, PrepareCalls,
        RollbackCalls
  <2> QED
    BY <1>0, <1>3, <2>2, SpacesUnchangedUnpublished, StandKept
    DEF CreateWorkset, MaterializationFails, PublicationFails
<1>4. CASE Publish(c) \/ RecordFailure(c)
  <2>1. calls[c] \in PrepareCalls /\ spaces[calls[c].space].status = "preparing"
    BY <1>0, <1>4 DEF Publish, RecordFailure, Preparing, CallsStand
  <2>2. calls' = [calls EXCEPT ![c] = Idle]
    BY <1>4 DEF Publish, RecordFailure
  <2>3. \A x \in Spaces : x # calls[c].space => spaces'[x] = spaces[x]
    BY <1>0, <1>4 DEF Publish, RecordFailure
  <2>4. ASSUME NEW d \in Clients, calls'[d] \in PrepareCalls \cup RollbackCalls
        PROVE  calls'[d] = calls[d] /\ calls[d].space \in Spaces /\ calls[d].space # calls[c].space
    <3>1. calls'[d] = calls[d] /\ d # c
      BY <1>0, <2>2, <2>4
    <3> QED
      BY <1>0, <2>1, <2>4, <3>1, CallKinds DEF CallsStand, OnePreparerPerSuccessor
  <2> QED
    BY <1>0, <2>3, <2>4 DEF CallsStand
<1>5. CASE CommitRollback(c)
  <2>1. /\ calls[c] \in RollbackCalls
        /\ spaces[calls[c].space].status \in {"preparation_failed", "rolled_back"}
        /\ calls[c].space \in Spaces
    BY <1>0, <1>5, CallKinds DEF CommitRollback, CallsStand
  <2>2. calls' = [calls EXCEPT ![c] = Idle]
    BY <1>5 DEF CommitRollback
  <2>3. /\ \A x \in Spaces : x # calls[c].space => spaces'[x] = spaces[x]
        /\ spaces'[calls[c].space].status = "rolled_back"
    BY <1>0, <1>5, <2>1 DEF CommitRollback, SpaceRecords
  <2>4. ASSUME NEW d \in Clients, calls'[d] \in PrepareCalls \cup RollbackCalls
        PROVE  calls'[d] = calls[d] /\ calls[d].space \in Spaces
    BY <1>0, <2>2, <2>4, CallKinds
  <2> QED
    BY <1>0, <2>1, <2>3, <2>4 DEF CallsStand
<1>6. ASSUME NEW r, IntegrateMember(c, r)
      PROVE  CallsStand'
  <2>1. calls[c] \in ReconcileCalls
    BY <1>6 DEF IntegrateMember
  <2>2. calls'[c] = Idle \/ calls'[c].op = "reconcile"
    BY <1>0, <1>6, <2>1 DEF IntegrateMember, ReconcileCalls
  <2>3. calls'[c] \notin PrepareCalls /\ calls'[c] \notin RollbackCalls
    BY <1>0, <2>2 DEF PrepareCalls, RollbackCalls
  <2>4. CallsContinue
    BY <1>0, <1>6, <2>3 DEF IntegrateMember, CallsContinue
  <2> QED
    BY <1>0, <1>6, <2>4, SpacesUnchangedUnpublished, StandKept DEF IntegrateMember
<1> QED
  BY <1>1, <1>2, <1>3, <1>4, <1>5, <1>6 DEF Continue

LEMMA InitStands == Init => Standing
<1> SUFFICES ASSUME Init PROVE CallsStand
  BY InitSafe DEF Standing
<1> QED
  BY CallKinds DEF Init, CallsStand

LEMMA StepStands ==
    ASSUME PreparationsLeftAlone
    PROVE  Standing /\ [Next]_vars => Standing'
<1> SUFFICES ASSUME Standing, [Next]_vars PROVE CallsStand'
  BY StepSafe DEF Standing
<1>0. TypeOK /\ CallsStand
  BY DEF Standing, Safe, TypeInv
<1>1. ASSUME NEW candidate, Extend(candidate)
      PROVE  CallsStand'
  <2>1. \A s \in Spaces : Rebased(candidate, s).status = spaces[s].status
    BY <1>0, RebasedIsSpace DEF TypeOK
  <2>2. CallsContinue /\ UnpublishedStays
    BY <1>1, <2>1 DEF Extend, CallsContinue, UnpublishedStays
  <2> QED
    BY <1>0, <2>2, StandKept
<1>2. CASE Topology
  BY <1>1, <1>2 DEF Topology, RegisterRepository, RegisterAuthority, RelateParent, RelateDependency
<1>3. ASSUME NEW c \in Clients, Abort(c)
      PROVE  CallsStand'
  <2>1. CallsContinue
    BY <1>0, <1>3, CallLeaves, CallKinds DEF Abort
  <2> QED
    BY <1>0, <1>3, <2>1, SpacesUnchangedUnpublished, StandKept DEF Abort
<1>4. CASE UNCHANGED vars
  BY <1>0, <1>4 DEF vars, CallsStand
<1> QED
  BY <1>2, <1>3, <1>4, ShapeStands, LeasesStand, StartStands, ContinueStands DEF Next

LEMMA StandsAlways == ASSUME PreparationsLeftAlone PROVE Spec => []Standing
BY InitStands, StepStands, PTL DEF Spec

\* What OnlyLockedOwns says of one space.
OwnsLocked(s) ==
    /\ LeasesOf(s) = spaces[s].held
    /\ spaces[s].held # {} => spaces[s].status = "locked"

LEMMA OwnsLockedKept ==
    ASSUME NEW s, OwnsLocked(s), LeasesOf(s)' = LeasesOf(s), spaces'[s].held = spaces[s].held,
           spaces'[s].status = spaces[s].status \/ spaces[s].status # "locked"
    PROVE  OwnsLocked(s)'
BY DEF OwnsLocked

(* A step that moves no lease and no held set, and leaves what is locked   *)
(* locked.                                                                 *)
LEMMA OwnershipKept ==
    ASSUME OnlyLockedOwns, leases' = leases,
           \A s \in Spaces : /\ spaces'[s].held = spaces[s].held
                             /\ \/ spaces'[s].status = spaces[s].status
                                \/ spaces[s].status # "locked"
    PROVE  OnlyLockedOwns'
<1> SUFFICES ASSUME NEW s \in Spaces PROVE OwnsLocked(s)'
  BY DEF OnlyLockedOwns, OwnsLocked
<1> QED
  BY LeasesKept, OwnsLockedKept DEF OnlyLockedOwns, OwnsLocked

(* One record is replaced by another that holds as much, and nothing if it *)
(* is not locked any more.                                                 *)
LEMMA OwnershipReplaced ==
    ASSUME TypeOK, OnlyLockedOwns, leases' = leases, NEW s \in Spaces, NEW record,
           spaces' = [spaces EXCEPT ![s] = record],
           record.held = spaces[s].held,
           record.status = spaces[s].status \/ spaces[s].status # "locked"
    PROVE  OnlyLockedOwns'
<1>1. \A x \in Spaces : /\ spaces'[x].held = spaces[x].held
                        /\ \/ spaces'[x].status = spaces[x].status
                           \/ spaces[x].status # "locked"
  BY DEF TypeOK
<1> QED
  BY <1>1, OwnershipKept

LEMMA ExchangeOwns ==
    ASSUME TypeOK, OnlyLockedOwns, NEW s \in Spaces, NEW held,
           leases' = Acquired(s, held),
           spaces'[s].held = held,
           held # {} => spaces'[s].status = "locked",
           \A x \in Spaces \ {s} : spaces'[x] = spaces[x]
    PROVE  OnlyLockedOwns'
<1> SUFFICES ASSUME NEW x \in Spaces PROVE OwnsLocked(x)'
  BY DEF OnlyLockedOwns, OwnsLocked
<1>1. CASE x = s
  BY <1>1, AcquiredLeases DEF OwnsLocked
<1>2. CASE x # s
  BY <1>2, AcquiredLeases, OwnsLockedKept DEF OnlyLockedOwns, OwnsLocked
<1> QED
  BY <1>1, <1>2

LEMMA ShapeOwns == TypeInv /\ OnlyLockedOwns /\ Shape => OnlyLockedOwns'
<1> SUFFICES ASSUME TypeOK, OnlyLockedOwns, NEW s \in Spaces,
                    \/ CreateSpace(s)
                    \/ \E r \in AssociationInputs : Associate(s, r)
                    \/ \E claim \in ClaimInputs :
                          \/ SetAffected(s, claim)
                          \/ \E c \in Clients :
                                BeginAffectAdd(c, s, claim) \/ BeginAffectRemove(c, s, claim)
             PROVE  OnlyLockedOwns'
  BY DEF Shape, TypeInv
<1>0. spaces[s] \in SpaceRecords /\ spaces \in [Spaces -> SpaceRecords]
  BY DEF TypeOK
<1>1. CASE CreateSpace(s)
  <2>1. spaces[s].held = {} /\ spaces[s].status # "locked"
    BY <1>1 DEF CreateSpace, Exists, OnlyLockedOwns
  <2> QED
    BY <1>1, <2>1, OwnershipReplaced DEF CreateSpace, NoSpace
<1>2. ASSUME NEW r, Associate(s, r)
      PROVE  OnlyLockedOwns'
  <2> DEFINE record == [spaces[s] EXCEPT !.associated = @ \cup {r}]
  <2>1. record.held = spaces[s].held /\ record.status = spaces[s].status
    BY <1>0 DEF SpaceRecords
  <2> QED
    BY <1>2, <2>1, OwnershipReplaced DEF Associate
<1>3. ASSUME NEW claim, SetAffected(s, claim)
      PROVE  OnlyLockedOwns'
  <2> DEFINE record == [spaces[s] EXCEPT !.claim = claim]
  <2>1. record.held = spaces[s].held /\ record.status = spaces[s].status
    BY <1>0 DEF SpaceRecords
  <2> QED
    BY <1>3, <2>1, OwnershipReplaced DEF SetAffected, Declare
<1>4. ASSUME NEW claim, NEW c, BeginAffectAdd(c, s, claim) \/ BeginAffectRemove(c, s, claim)
      PROVE  OnlyLockedOwns'
  BY <1>4, OwnershipKept DEF BeginAffectAdd, BeginAffectRemove
<1> QED
  BY <1>1, <1>2, <1>3, <1>4

LEMMA LeasesOwn ==
    ASSUME PreparationsLeftAlone, FinalizesReleased
    PROVE  TypeInv /\ OnlyLockedOwns /\ Leases => OnlyLockedOwns'
<1> SUFFICES ASSUME TypeOK, OnlyLockedOwns, NEW s \in Spaces,
                    \/ Lock(s)
                    \/ Release(s)
                    \/ Recover(s)
                    \/ Finalize(s)
                    \/ \E d \in DispositionInputs : SetHandoffDisposition(s, d)
                    \/ \E r \in Repositories : AbandonMember(s, r) \/ CleanupWorktree(s, r)
             PROVE  OnlyLockedOwns'
  BY DEF Leases, TypeInv
<1>0. spaces[s] \in SpaceRecords /\ spaces \in [Spaces -> SpaceRecords]
  BY DEF TypeOK
<1>1. CASE Lock(s)
  <2>1. /\ spaces'[s].held = Plan(s)
        /\ spaces'[s].status = "locked"
        /\ \A x \in Spaces \ {s} : spaces'[x] = spaces[x]
        /\ leases' = Acquired(s, Plan(s))
    BY <1>0, <1>1 DEF Lock, SpaceRecords
  <2> QED
    BY <2>1, ExchangeOwns
<1>2. CASE Release(s) \/ Recover(s)
  <2>1. /\ spaces'[s].held = {}
        /\ \A x \in Spaces \ {s} : spaces'[x] = spaces[x]
        /\ leases' = Acquired(s, {})
    BY <1>0, <1>2 DEF Release, Recover, Freed, Acquired, SpaceRecords
  <2> QED
    BY <2>1, ExchangeOwns
<1>3. CASE Finalize(s)
  <2> DEFINE record == [spaces[s] EXCEPT !.status = "finalized"]
  <2>1. spaces[s].status # "locked"
    BY <1>3 DEF Finalize, Callable, FinalizesReleased
  <2>2. record.held = spaces[s].held
    BY <1>0 DEF SpaceRecords
  <2> QED
    BY <1>3, <2>1, <2>2, OwnershipReplaced DEF Finalize
<1>4. ASSUME NEW d, SetHandoffDisposition(s, d)
      PROVE  OnlyLockedOwns'
  <2> DEFINE record == [spaces[s] EXCEPT !.disposition = d]
  <2>1. record.held = spaces[s].held /\ record.status = spaces[s].status
    BY <1>0 DEF SpaceRecords
  <2> QED
    BY <1>4, <2>1, OwnershipReplaced DEF SetHandoffDisposition
<1>5. ASSUME NEW r, AbandonMember(s, r) \/ CleanupWorktree(s, r)
      PROVE  OnlyLockedOwns'
  BY <1>5, OwnershipKept DEF AbandonMember, CleanupWorktree
<1> QED
  BY <1>1, <1>2, <1>3, <1>4, <1>5

(* A successor owns nothing until it is published, and then what its call  *)
(* planned.                                                                *)
LEMMA PublishOwns ==
    ASSUME Standing, OnlyLockedOwns, NEW c \in Clients, Publish(c)
    PROVE  OnlyLockedOwns'
<1>0. /\ TypeOK
      /\ spaces \in [Spaces -> SpaceRecords]
      /\ calls[c] \in PrepareCalls
      /\ calls[c].op \in {"isolate", "defer"}
      /\ calls[c].space \in Spaces
      /\ spaces[calls[c].space].status = "preparing"
  BY PrepareCallType DEF Standing, Safe, TypeInv, TypeOK, Publish, Preparing, CallsStand
<1> SUFFICES ASSUME NEW s \in Spaces, s = calls[c].space PROVE OnlyLockedOwns'
  BY <1>0
<1>1. spaces[s].held = {} /\ LeasesOf(s) = {}
  BY <1>0 DEF OnlyLockedOwns
<1>2. /\ spaces'[s].status = (IF calls[c].op = "isolate" THEN "locked" ELSE "deferred")
      /\ spaces'[s].held = (IF calls[c].op = "isolate" THEN calls[c].held ELSE {})
      /\ \A x \in Spaces \ {s} : spaces'[x] = spaces[x]
  <2>1. spaces[s] \in SpaceRecords /\ spaces' = [spaces EXCEPT ![s] = Published(c)]
    BY <1>0 DEF Publish
  <2> QED
    BY <1>0, <2>1 DEF Published, SpaceRecords
<1>3. CASE calls[c].op = "isolate"
  <2>1. leases' = leases \cup {[authority |-> a, owner |-> s] : a \in calls[c].held}
    BY <1>3 DEF Publish
  <2>2. Others(s) = leases
    BY <1>1 DEF LeasesOf, Others
  <2>3. leases' = Acquired(s, calls[c].held)
    BY <2>1, <2>2 DEF Acquired
  <2> QED
    BY <1>0, <1>2, <1>3, <2>3, ExchangeOwns
<1>4. CASE calls[c].op = "defer"
  <2>1. leases' = leases
    BY <1>4 DEF Publish
  <2>2. \A x \in Spaces : /\ spaces'[x].held = spaces[x].held
                          /\ spaces'[x].status = spaces[x].status \/ spaces[x].status # "locked"
    BY <1>0, <1>1, <1>2, <1>4
  <2> QED
    BY <2>1, <2>2, OwnershipKept
<1> QED
  BY <1>0, <1>3, <1>4

LEMMA CallsOwn ==
    ASSUME Standing, OnlyLockedOwns, NEW c \in Clients, Start(c) \/ Continue(c) \/ Abort(c)
    PROVE  OnlyLockedOwns'
<1>0. /\ TypeOK
      /\ CallsStand
      /\ spaces \in [Spaces -> SpaceRecords]
  BY DEF Standing, Safe, TypeInv, TypeOK
<1>1. CASE spaces' = spaces /\ leases' = leases
  BY <1>1, OwnershipKept
<1>2. ASSUME NEW op, NEW s \in Spaces, NEW successor \in Spaces, Reserve(c, op, s, successor)
      PROVE  OnlyLockedOwns'
  <2>1. spaces[successor].status = "absent"
    BY <1>2 DEF Reserve, Available, Exists
  <2>2. spaces[successor].held = {}
    BY <2>1 DEF OnlyLockedOwns
  <2>3. Reserved(s).held = {}
    BY DEF Reserved, NoSpace
  <2> QED
    BY <1>0, <1>2, <2>1, <2>2, <2>3, OwnershipReplaced DEF Reserve
<1>3. CASE FinishAffect(c)
  <2> DEFINE record == [spaces[calls[c].space] EXCEPT !.claim = calls[c].claim]
  <2>1. calls[c].space \in Spaces
    BY <1>3 DEF FinishAffect, AffectCalls
  <2>2. /\ record.held = spaces[calls[c].space].held
        /\ record.status = spaces[calls[c].space].status
    BY <1>0, <2>1 DEF SpaceRecords
  <2> QED
    BY <1>0, <1>3, <2>1, <2>2, OwnershipReplaced DEF FinishAffect, Declare
<1>4. CASE RecordFailure(c)
  <2> DEFINE record == [spaces[calls[c].space] EXCEPT !.status = "preparation_failed",
                                                      !.artifacts = calls[c].artifacts]
  <2>1. calls[c].space \in Spaces /\ spaces[calls[c].space].status = "preparing"
    BY <1>0, <1>4, CallKinds DEF RecordFailure, Preparing, CallsStand
  <2>2. record.held = spaces[calls[c].space].held
    BY <1>0, <2>1 DEF SpaceRecords
  <2> QED
    BY <1>0, <1>4, <2>1, <2>2, OwnershipReplaced DEF RecordFailure
<1>5. CASE CommitRollback(c)
  <2> DEFINE record == [spaces[calls[c].space] EXCEPT !.status = "rolled_back"]
  <2>1. calls[c].space \in Spaces /\ spaces[calls[c].space].status # "locked"
    BY <1>0, <1>5, CallKinds DEF CommitRollback, CallsStand
  <2>2. record.held = spaces[calls[c].space].held
    BY <1>0, <2>1 DEF SpaceRecords
  <2> QED
    BY <1>0, <1>5, <2>1, <2>2, OwnershipReplaced DEF CommitRollback
<1>6. CASE Start(c)
  BY <1>1, <1>2, <1>6 DEF Start, RemoveArtifacts, BeginReconcile
<1>7. CASE Continue(c)
  BY <1>1, <1>3, <1>4, <1>5, <1>7, PublishOwns
  DEF Continue, CreateWorktree, CreateWorkset, MaterializationFails, PublicationFails,
      IntegrateMember
<1>8. CASE Abort(c)
  BY <1>1, <1>8 DEF Abort
<1> QED
  BY <1>6, <1>7, <1>8

(* When callers leave an unpublished preparation alone and finalize only   *)
(* what was released, a space that is not locked owns nothing, and what a  *)
(* locked space leases is its recorded held set, through every growth,     *)
(* publication, failure, rollback and death.                               *)
THEOREM LockedOwns ==
    ASSUME PreparationsLeftAlone, FinalizesReleased
    PROVE  Spec => []OnlyLockedOwns
<1>1. Init => OnlyLockedOwns
  BY DEF Init, NoSpace, OnlyLockedOwns, LeasesOf
<1>2. Standing /\ OnlyLockedOwns /\ [Next]_vars => OnlyLockedOwns'
  <2> SUFFICES ASSUME Standing, OnlyLockedOwns, [Next]_vars PROVE OnlyLockedOwns'
    OBVIOUS
  <2>0. TypeInv /\ TypeOK
    BY DEF Standing, Safe, TypeInv
  <2>1. ASSUME NEW candidate, Extend(candidate)
        PROVE  OnlyLockedOwns'
    <3>1. \A s \in Spaces : /\ Rebased(candidate, s).status = spaces[s].status
                            /\ Rebased(candidate, s).held = spaces[s].held
      BY <2>0, RebasedIsSpace DEF TypeOK
    <3> QED
      BY <2>1, <3>1, OwnershipKept DEF Extend
  <2>2. CASE Topology
    BY <2>1, <2>2 DEF Topology, RegisterRepository, RegisterAuthority, RelateParent, RelateDependency
  <2>3. CASE UNCHANGED vars
    BY <2>3, OwnershipKept DEF vars
  <2> QED
    BY <2>0, <2>2, <2>3, ShapeOwns, LeasesOwn, CallsOwn DEF Next
<1> QED
  BY <1>1, <1>2, StandsAlways, PTL DEF Spec

-----------------------------------------------------------------------------
(* Finalization.                                                           *)

Resolved == {"reconciled", "abandoned"}

\* What is finalized now was finalized, with the same members, and none of
\* them owes anything again.
StaysSettled(s) ==
    spaces'[s].status = "finalized" =>
        /\ spaces[s].status = "finalized"
        /\ spaces'[s].generated = spaces[s].generated
        /\ \A r \in Repositories : debts[s][r] \in Resolved => debts'[s][r] \in Resolved

LEMMA SettledKept ==
    ASSUME TypeOK, FinalizedIsDisposed, worktrees' \subseteq worktrees,
           \A s \in Spaces : StaysSettled(s)
    PROVE  FinalizedIsDisposed'
<1>1. \A s \in Spaces : spaces[s].generated \subseteq Repositories
  BY DEF TypeOK, SpaceRecords
<1> QED
  BY <1>1 DEF FinalizedIsDisposed, StaysSettled, Resolved

LEMMA SettledReplaced ==
    ASSUME TypeOK, FinalizedIsDisposed, worktrees' \subseteq worktrees, debts' = debts,
           NEW s \in Spaces, NEW record, spaces' = [spaces EXCEPT ![s] = record],
           record.status = "finalized" =>
              spaces[s].status = "finalized" /\ record.generated = spaces[s].generated
    PROVE  FinalizedIsDisposed'
<1>1. \A x \in Spaces : StaysSettled(x)
  BY DEF StaysSettled, TypeOK
<1> QED
  BY <1>1, SettledKept

LEMMA LeasesSettle ==
    ASSUME FinalizesReleased
    PROVE  /\ TypeInv /\ ReleasedWorkIsOwed /\ FinalizedIsDisposed /\ Leases
           => FinalizedIsDisposed'
<1> SUFFICES ASSUME TypeOK, ReleasedWorkIsOwed, FinalizedIsDisposed, NEW s \in Spaces,
                    \/ Lock(s)
                    \/ Release(s)
                    \/ Recover(s)
                    \/ Finalize(s)
                    \/ \E d \in DispositionInputs : SetHandoffDisposition(s, d)
                    \/ \E r \in Repositories : AbandonMember(s, r) \/ CleanupWorktree(s, r)
             PROVE  FinalizedIsDisposed'
  BY DEF Leases, TypeInv
<1>0. /\ spaces[s] \in SpaceRecords
      /\ spaces \in [Spaces -> SpaceRecords]
      /\ debts \in [Spaces -> [Repositories -> DebtStatuses]]
      /\ spaces[s].generated \subseteq Repositories
  BY DEF TypeOK, SpaceRecords
<1>1. CASE Lock(s)
  <2>1. spaces'[s].status = "locked" /\ \A x \in Spaces \ {s} : spaces'[x] = spaces[x]
    BY <1>0, <1>1 DEF Lock, SpaceRecords
  <2>2. \A x \in Spaces : StaysSettled(x)
    BY <1>1, <2>1 DEF StaysSettled, Lock
  <2> QED
    BY <1>1, <2>2, SettledKept DEF Lock
<1>2. CASE Release(s) \/ Recover(s)
  <2>1. /\ spaces'[s].status = "released"
        /\ \A x \in Spaces \ {s} : spaces'[x] = spaces[x] /\ debts'[x] = debts[x]
    <3>1. spaces'[s].status = "released" /\ \A x \in Spaces \ {s} : spaces'[x] = spaces[x]
      <4>1. Freed(s)
        BY <1>2 DEF Release, Recover
      <4> QED
        BY <1>0, <4>1 DEF Freed, SpaceRecords
    <3>2. PICK owed : debts' = [debts EXCEPT ![s] = owed]
      BY <1>2 DEF Release, Recover
    <3> QED
      BY <1>0, <3>1, <3>2
  <2>2. \A x \in Spaces : StaysSettled(x)
    BY <2>1 DEF StaysSettled
  <2> QED
    BY <1>2, <2>2, SettledKept DEF Release, Recover
<1>3. CASE Finalize(s)
  <2>1. /\ spaces'[s].status = "finalized"
        /\ spaces'[s].generated = spaces[s].generated
        /\ \A x \in Spaces \ {s} : spaces'[x] = spaces[x]
        /\ debts' = debts /\ worktrees' = worktrees
    BY <1>0, <1>3 DEF Finalize, SpaceRecords
  <2>2. spaces[s].status \in {"released", "finalized"}
    BY <1>3 DEF Finalize, Callable, FinalizesReleased
  <2>3. ASSUME NEW r \in spaces[s].generated
        PROVE  debts[s][r] \in {"reconciled", "abandoned"} /\ <<s, r>> \notin worktrees
    <3>1. debts[s][r] # "none"
      BY <2>2 DEF ReleasedWorkIsOwed, FinalizedIsDisposed
    <3>2. debts[s][r] \in DebtStatuses /\ debts[s][r] # "pending" /\ <<s, r>> \notin worktrees
      BY <1>0, <1>3 DEF Finalize, Disposed
    <3> QED
      BY <3>1, <3>2 DEF DebtStatuses
  <2> QED
    BY <2>1, <2>3 DEF FinalizedIsDisposed
<1>4. ASSUME NEW d, SetHandoffDisposition(s, d)
      PROVE  FinalizedIsDisposed'
  <2> DEFINE record == [spaces[s] EXCEPT !.disposition = d]
  <2>1. record.status = spaces[s].status /\ record.generated = spaces[s].generated
    BY <1>0 DEF SpaceRecords
  <2> QED
    BY <1>4, <2>1, SettledReplaced DEF SetHandoffDisposition
<1>5. ASSUME NEW r \in Repositories, AbandonMember(s, r) \/ CleanupWorktree(s, r)
      PROVE  FinalizedIsDisposed'
  <2>1. \A x \in Spaces : StaysSettled(x)
    BY <1>0, <1>5 DEF AbandonMember, CleanupWorktree, StaysSettled, Resolved
  <2> QED
    BY <1>5, <2>1, SettledKept DEF AbandonMember, CleanupWorktree
<1> QED
  BY <1>1, <1>2, <1>3, <1>4, <1>5

LEMMA ShapeSettles == TypeInv /\ FinalizedIsDisposed /\ Shape => FinalizedIsDisposed'
<1> SUFFICES ASSUME TypeOK, FinalizedIsDisposed, NEW s \in Spaces,
                    \/ CreateSpace(s)
                    \/ \E r \in AssociationInputs : Associate(s, r)
                    \/ \E claim \in ClaimInputs :
                          \/ SetAffected(s, claim)
                          \/ \E c \in Clients :
                                BeginAffectAdd(c, s, claim) \/ BeginAffectRemove(c, s, claim)
             PROVE  FinalizedIsDisposed'
  BY DEF Shape, TypeInv
<1>0. spaces \in [Spaces -> SpaceRecords]
  BY DEF TypeOK
<1>1. CASE CreateSpace(s)
  BY <1>1, SettledReplaced DEF CreateSpace, NoSpace
<1>2. ASSUME NEW r, Associate(s, r)
      PROVE  FinalizedIsDisposed'
  <2>1. \A x \in Spaces : StaysSettled(x)
    BY <1>0, <1>2 DEF Associate, Editable, StaysSettled, SpaceRecords
  <2> QED
    BY <1>2, <2>1, SettledKept DEF Associate
<1>3. ASSUME NEW claim, SetAffected(s, claim)
      PROVE  FinalizedIsDisposed'
  <2>1. \A x \in Spaces : StaysSettled(x)
    BY <1>0, <1>3 DEF SetAffected, Declare, Editable, StaysSettled, SpaceRecords
  <2> QED
    BY <1>3, <2>1, SettledKept DEF SetAffected
<1>4. ASSUME NEW claim, NEW c, BeginAffectAdd(c, s, claim) \/ BeginAffectRemove(c, s, claim)
      PROVE  FinalizedIsDisposed'
  BY <1>4, SettledKept DEF BeginAffectAdd, BeginAffectRemove, StaysSettled
<1> QED
  BY <1>1, <1>2, <1>3, <1>4

LEMMA CallsSettle ==
    ASSUME Standing, FinalizedIsDisposed, NEW c \in Clients, Start(c) \/ Continue(c) \/ Abort(c)
    PROVE  FinalizedIsDisposed'
<1>0. /\ TypeOK
      /\ CallsStand
      /\ spaces \in [Spaces -> SpaceRecords]
      /\ debts \in [Spaces -> [Repositories -> DebtStatuses]]
  BY DEF Standing, Safe, TypeInv, TypeOK
<1>1. CASE spaces' = spaces /\ debts' = debts /\ worktrees' \subseteq worktrees
  BY <1>0, <1>1, SettledKept DEF StaysSettled
<1>2. ASSUME NEW op, NEW s \in Spaces, NEW successor \in Spaces, Reserve(c, op, s, successor)
      PROVE  FinalizedIsDisposed'
  BY <1>0, <1>2, SettledReplaced DEF Reserve, Reserved, NoSpace
<1>3. CASE FinishAffect(c)
  <2>1. \A x \in Spaces : StaysSettled(x)
    BY <1>0, <1>3 DEF FinishAffect, AffectCalls, Declare, Editable, StaysSettled, SpaceRecords
  <2> QED
    BY <1>0, <1>3, <2>1, SettledKept DEF FinishAffect
<1>4. ASSUME NEW r \in Repositories, CreateWorktree(c, r)
      PROVE  FinalizedIsDisposed'
  <2>1. spaces[calls[c].space].status = "preparing"
    BY <1>0, <1>4 DEF CreateWorktree, Preparing, CallsStand
  <2> QED
    BY <1>0, <1>4, <2>1 DEF CreateWorktree, FinalizedIsDisposed
<1>5. CASE Publish(c)
  <2>1. calls[c].space \in Spaces
    BY <1>5, PrepareCallType DEF Publish, Preparing
  <2>2. Published(c).status \in {"locked", "deferred"}
    BY <1>0, <2>1 DEF Published, SpaceRecords
  <2> QED
    BY <1>0, <1>5, <2>1, <2>2, SettledReplaced DEF Publish
<1>6. CASE RecordFailure(c)
  <2>1. calls[c].space \in Spaces
    BY <1>6, PrepareCallType DEF RecordFailure, Preparing
  <2>2. \A x \in Spaces : StaysSettled(x)
    BY <1>0, <1>6, <2>1 DEF RecordFailure, StaysSettled, SpaceRecords
  <2> QED
    BY <1>0, <1>6, <2>2, SettledKept DEF RecordFailure
<1>7. CASE CommitRollback(c)
  <2>1. \A x \in Spaces : StaysSettled(x)
    BY <1>0, <1>7 DEF CommitRollback, RollbackCalls, StaysSettled, SpaceRecords
  <2> QED
    BY <1>0, <1>7, <2>1, SettledKept DEF CommitRollback
<1>8. ASSUME NEW r \in Repositories, IntegrateMember(c, r)
      PROVE  FinalizedIsDisposed'
  <2>1. \A x \in Spaces : StaysSettled(x)
    BY <1>0, <1>8 DEF IntegrateMember, ReconcileCalls, StaysSettled, Resolved
  <2> QED
    BY <1>0, <1>8, <2>1, SettledKept DEF IntegrateMember
<1>9. CASE Start(c)
  BY <1>1, <1>2, <1>9 DEF Start, RemoveArtifacts, BeginReconcile
<1>10. CASE Continue(c)
  BY <1>1, <1>3, <1>4, <1>5, <1>6, <1>7, <1>8, <1>10
  DEF Continue, CreateWorkset, MaterializationFails, PublicationFails
<1>11. CASE Abort(c)
  BY <1>1, <1>11 DEF Abort
<1> QED
  BY <1>9, <1>10, <1>11

(* When callers leave an unpublished preparation alone and finalize only   *)
(* what was released, every generated member of a finalized space is       *)
(* recorded as reconciled or abandoned, and its worktree is gone for good: *)
(* no preparation that is still running can make another.                  *)
THEOREM FinalizationDisposes ==
    ASSUME PreparationsLeftAlone, FinalizesReleased
    PROVE  Spec => []FinalizedIsDisposed
<1>1. Init => FinalizedIsDisposed
  BY DEF Init, NoSpace, FinalizedIsDisposed
<1>2. Standing /\ ReleasedWorkIsOwed /\ FinalizedIsDisposed /\ [Next]_vars => FinalizedIsDisposed'
  <2> SUFFICES ASSUME Standing, ReleasedWorkIsOwed, FinalizedIsDisposed, [Next]_vars
               PROVE  FinalizedIsDisposed'
    OBVIOUS
  <2>0. TypeInv /\ TypeOK
    BY DEF Standing, Safe, TypeInv
  <2>1. ASSUME NEW candidate, Extend(candidate)
        PROVE  FinalizedIsDisposed'
    <3>1. \A s \in Spaces : /\ Rebased(candidate, s).status = spaces[s].status
                            /\ Rebased(candidate, s).generated = spaces[s].generated
      BY <2>0, RebasedIsSpace DEF TypeOK
    <3>2. \A s \in Spaces : StaysSettled(s)
      BY <2>1, <3>1 DEF Extend, StaysSettled
    <3> QED
      BY <2>0, <2>1, <3>2, SettledKept DEF Extend
  <2>2. CASE Topology
    BY <2>1, <2>2 DEF Topology, RegisterRepository, RegisterAuthority, RelateParent, RelateDependency
  <2>3. CASE UNCHANGED vars
    BY <2>0, <2>3, SettledKept DEF vars, StaysSettled
  <2> QED
    BY <2>0, <2>2, <2>3, ShapeSettles, LeasesSettle, CallsSettle DEF Next
<1> QED
  BY <1>1, <1>2, StandsAlways, ReleaseLeavesDebt, PTL DEF Spec

-----------------------------------------------------------------------------
(* Promotion of a deferred successor.                                      *)

\* As long as a successor that is not promoted yet is at the present graph
\* generation, its plan is the one it was reserved with.
PlanIsReserved(s) ==
    /\ spaces[s].graphGeneration <= graphGeneration
    /\ /\ spaces[s].status \in {"preparing", "deferred"}
       /\ spaces[s].graphGeneration = graphGeneration
       => Plan(s) = reservedPlan[s]

PlansAreReserved == \A s \in Spaces : PlanIsReserved(s)

\* The record of s changes in no field that PlanIsReserved is about, or s is
\* no successor that waits.
KeepsReservation(s) ==
    /\ spaces'[s].graphGeneration \in {spaces[s].graphGeneration, graphGeneration, 0}
    /\ spaces'[s].status \in {"preparing", "deferred"} =>
          /\ spaces[s].status \in {"preparing", "deferred"}
          /\ spaces'[s].claim = spaces[s].claim
          /\ spaces'[s].graphGeneration = spaces[s].graphGeneration
          /\ reservedPlan'[s] = reservedPlan[s]

LEMMA ReservationKept ==
    ASSUME TypeOK, PlansAreReserved, UNCHANGED <<graph, graphGeneration>>,
           \A s \in Spaces : KeepsReservation(s)
    PROVE  PlansAreReserved'
<1> SUFFICES ASSUME NEW s \in Spaces PROVE PlanIsReserved(s)'
  BY DEF PlansAreReserved
<1>1. graphGeneration \in Nat /\ PlanIsReserved(s) /\ KeepsReservation(s)
  BY DEF TypeOK, PlansAreReserved
<1>2. spaces'[s].graphGeneration <= graphGeneration'
  BY <1>1 DEF PlanIsReserved, KeepsReservation
<1>3. ASSUME spaces'[s].status \in {"preparing", "deferred"},
             spaces'[s].graphGeneration = graphGeneration'
      PROVE  Plan(s)' = reservedPlan'[s]
  BY <1>1, <1>3, PlanKept DEF PlanIsReserved, KeepsReservation
<1> QED
  BY <1>2, <1>3 DEF PlanIsReserved, Plan

LEMMA ReservationReplaced ==
    ASSUME TypeOK, PlansAreReserved, UNCHANGED <<graph, graphGeneration, reservedPlan>>,
           NEW s \in Spaces, NEW record, spaces' = [spaces EXCEPT ![s] = record],
           record.graphGeneration \in {spaces[s].graphGeneration, graphGeneration, 0},
           record.status \in {"preparing", "deferred"} =>
              /\ spaces[s].status \in {"preparing", "deferred"}
              /\ record.claim = spaces[s].claim
              /\ record.graphGeneration = spaces[s].graphGeneration
    PROVE  PlansAreReserved'
<1>1. \A x \in Spaces : KeepsReservation(x)
  BY DEF KeepsReservation, TypeOK
<1> QED
  BY <1>1, ReservationKept

LEMMA ReservationUntouched ==
    ASSUME TypeOK, PlansAreReserved, UNCHANGED <<graph, graphGeneration, spaces, reservedPlan>>
    PROVE  PlansAreReserved'
BY ReservationKept DEF KeepsReservation

(* A growth advances the graph generation, and takes along only a deferred *)
(* space whose snapshot, and so whose plan, it leaves as it was.           *)
LEMMA ExtendReserves ==
    ASSUME TypeOK, PlansAreReserved, NEW candidate, Extend(candidate)
    PROVE  PlansAreReserved'
<1> SUFFICES ASSUME NEW s \in Spaces PROVE PlanIsReserved(s)'
  BY DEF PlansAreReserved
<1>1. /\ graphGeneration \in Nat
      /\ graphGeneration' = graphGeneration + 1
      /\ spaces[s] \in SpaceRecords
      /\ spaces'[s] = Rebased(candidate, s)
      /\ reservedPlan' = reservedPlan
      /\ graph' = candidate
      /\ PlanIsReserved(s)
  BY DEF TypeOK, Extend, PlansAreReserved
<1>2. CASE /\ spaces[s].status = "deferred"
           /\ spaces[s].graphGeneration = graphGeneration
           /\ Snapshot(graph, s) = Snapshot(candidate, s)
  <2>1. spaces'[s] = [spaces[s] EXCEPT !.graphGeneration = graphGeneration + 1]
    BY <1>1, <1>2 DEF Rebased
  <2>2. spaces'[s].graphGeneration = graphGeneration' /\ spaces'[s].claim = spaces[s].claim
    BY <1>1, <2>1 DEF SpaceRecords
  <2>3. HeldAuthorities(graph, spaces[s].claim) = HeldAuthorities(candidate, spaces[s].claim)
    BY <1>2, SnapshotHeld DEF Snapshot
  <2>4. Plan(s) = reservedPlan[s]
    BY <1>1, <1>2 DEF PlanIsReserved
  <2>5. Plan(s)' = reservedPlan'[s]
    BY <1>1, <2>2, <2>3, <2>4 DEF Plan
  <2>6. spaces'[s].graphGeneration <= graphGeneration'
    BY <1>1, <2>2
  <2> QED
    BY <2>5, <2>6 DEF PlanIsReserved, Plan
<1>3. CASE ~ /\ spaces[s].status = "deferred"
             /\ spaces[s].graphGeneration = graphGeneration
             /\ Snapshot(graph, s) = Snapshot(candidate, s)
  <2>1. spaces'[s] = spaces[s]
    BY <1>1, <1>3 DEF Rebased
  <2>2. spaces[s].graphGeneration \in Nat /\ spaces[s].graphGeneration <= graphGeneration
    BY <1>1 DEF SpaceRecords, PlanIsReserved
  <2> QED
    BY <1>1, <2>1, <2>2 DEF PlanIsReserved
<1> QED
  BY <1>2, <1>3

LEMMA ShapeReserves == TypeInv /\ PlansAreReserved /\ Shape => PlansAreReserved'
<1> SUFFICES ASSUME TypeOK, PlansAreReserved, NEW s \in Spaces,
                    \/ CreateSpace(s)
                    \/ \E r \in AssociationInputs : Associate(s, r)
                    \/ \E claim \in ClaimInputs :
                          \/ SetAffected(s, claim)
                          \/ \E c \in Clients :
                                BeginAffectAdd(c, s, claim) \/ BeginAffectRemove(c, s, claim)
             PROVE  PlansAreReserved'
  BY DEF Shape, TypeInv
<1>0. spaces[s] \in SpaceRecords
  BY DEF TypeOK
<1>1. CASE CreateSpace(s)
  BY <1>1, ReservationReplaced DEF CreateSpace, NoSpace
<1>2. ASSUME NEW r, Associate(s, r)
      PROVE  PlansAreReserved'
  <2> DEFINE record == [spaces[s] EXCEPT !.associated = @ \cup {r}]
  <2>1. record.status = "draft" /\ record.graphGeneration = spaces[s].graphGeneration
    BY <1>0, <1>2 DEF Associate, Editable, SpaceRecords
  <2> QED
    BY <1>2, <2>1, ReservationReplaced DEF Associate
<1>3. ASSUME NEW claim, SetAffected(s, claim)
      PROVE  PlansAreReserved'
  <2> DEFINE record == [spaces[s] EXCEPT !.claim = claim]
  <2>1. record.status = "draft" /\ record.graphGeneration = spaces[s].graphGeneration
    BY <1>0, <1>3 DEF SetAffected, Declare, Editable, SpaceRecords
  <2> QED
    BY <1>3, <2>1, ReservationReplaced DEF SetAffected, Declare
<1>4. ASSUME NEW claim, NEW c, BeginAffectAdd(c, s, claim) \/ BeginAffectRemove(c, s, claim)
      PROVE  PlansAreReserved'
  BY <1>4, ReservationUntouched DEF BeginAffectAdd, BeginAffectRemove
<1> QED
  BY <1>1, <1>2, <1>3, <1>4

LEMMA LeasesReserve == TypeInv /\ PlansAreReserved /\ Leases => PlansAreReserved'
<1> SUFFICES ASSUME TypeOK, PlansAreReserved, NEW s \in Spaces,
                    \/ Lock(s)
                    \/ Release(s)
                    \/ Recover(s)
                    \/ Finalize(s)
                    \/ \E d \in DispositionInputs : SetHandoffDisposition(s, d)
                    \/ \E r \in Repositories : AbandonMember(s, r) \/ CleanupWorktree(s, r)
             PROVE  PlansAreReserved'
  BY DEF Leases, TypeInv
<1>0. spaces[s] \in SpaceRecords
  BY DEF TypeOK
<1>1. CASE Lock(s)
  <2> DEFINE record == [spaces[s] EXCEPT !.status = "locked",
                                         !.held = Plan(s),
                                         !.pinned = PinnedAtLock(s),
                                         !.graphGeneration = graphGeneration]
  <2>1. record.status = "locked" /\ record.graphGeneration = graphGeneration
    BY <1>0 DEF SpaceRecords
  <2> QED
    BY <1>1, <2>1, ReservationReplaced DEF Lock
<1>2. CASE Release(s) \/ Recover(s)
  <2> DEFINE record == [spaces[s] EXCEPT !.status = "released", !.held = {}]
  <2>1. record.status = "released" /\ record.graphGeneration = spaces[s].graphGeneration
    BY <1>0 DEF SpaceRecords
  <2> QED
    BY <1>2, <2>1, ReservationReplaced DEF Release, Recover, Freed
<1>3. CASE Finalize(s)
  <2> DEFINE record == [spaces[s] EXCEPT !.status = "finalized"]
  <2>1. record.status = "finalized" /\ record.graphGeneration = spaces[s].graphGeneration
    BY <1>0 DEF SpaceRecords
  <2> QED
    BY <1>3, <2>1, ReservationReplaced DEF Finalize
<1>4. ASSUME NEW d, SetHandoffDisposition(s, d)
      PROVE  PlansAreReserved'
  <2> DEFINE record == [spaces[s] EXCEPT !.disposition = d]
  <2>1. /\ record.status = spaces[s].status
        /\ record.claim = spaces[s].claim
        /\ record.graphGeneration = spaces[s].graphGeneration
    BY <1>0 DEF SpaceRecords
  <2> QED
    BY <1>4, <2>1, ReservationReplaced DEF SetHandoffDisposition
<1>5. ASSUME NEW r, AbandonMember(s, r) \/ CleanupWorktree(s, r)
      PROVE  PlansAreReserved'
  BY <1>5, ReservationUntouched DEF AbandonMember, CleanupWorktree
<1> QED
  BY <1>1, <1>2, <1>3, <1>4, <1>5

LEMMA CallsReserve ==
    ASSUME Standing, PlansAreReserved, NEW c \in Clients, Start(c) \/ Continue(c) \/ Abort(c)
    PROVE  PlansAreReserved'
<1>0. /\ TypeOK
      /\ CallsStand
      /\ spaces \in [Spaces -> SpaceRecords]
  BY DEF Standing, Safe, TypeInv, TypeOK
<1>1. CASE UNCHANGED <<graph, graphGeneration, spaces, reservedPlan>>
  BY <1>0, <1>1, ReservationUntouched
<1>2. ASSUME NEW op, NEW s \in Spaces, NEW successor \in Spaces, Reserve(c, op, s, successor)
      PROVE  PlansAreReserved'
  <2>1. /\ Reserved(s).claim = spaces[s].claim
        /\ Reserved(s).graphGeneration = graphGeneration
    BY DEF Reserved, NoSpace
  <2>2. /\ spaces'[successor] = Reserved(s)
        /\ reservedPlan'[successor] = Plan(s)
        /\ \A x \in Spaces \ {successor} : /\ spaces'[x] = spaces[x]
                                           /\ reservedPlan'[x] = reservedPlan[x]
        /\ UNCHANGED <<graph, graphGeneration>>
    BY <1>0, <1>2 DEF Reserve, TypeOK
  <2>3. PlanIsReserved(successor)'
    <3>1. Plan(successor)' = reservedPlan'[successor]
      BY <2>1, <2>2 DEF Plan
    <3>2. spaces'[successor].graphGeneration <= graphGeneration'
      BY <1>0, <2>1, <2>2 DEF TypeOK
    <3> QED
      BY <3>1, <3>2 DEF PlanIsReserved, Plan
  <2>4. ASSUME NEW x \in Spaces \ {successor}
        PROVE  PlanIsReserved(x)'
    BY <2>2 DEF PlansAreReserved, PlanIsReserved, Plan
  <2> QED
    BY <2>3, <2>4 DEF PlansAreReserved
<1>3. CASE FinishAffect(c)
  <2> DEFINE record == [spaces[calls[c].space] EXCEPT !.claim = calls[c].claim]
  <2>1. calls[c].space \in Spaces
    BY <1>3 DEF FinishAffect, AffectCalls
  <2>2. /\ record.status = "draft"
        /\ record.graphGeneration = spaces[calls[c].space].graphGeneration
    BY <1>0, <1>3, <2>1 DEF FinishAffect, Declare, Editable, SpaceRecords
  <2> QED
    BY <1>0, <1>3, <2>1, <2>2, ReservationReplaced DEF FinishAffect, Declare
<1>4. CASE Publish(c)
  <2>1. calls[c].space \in Spaces /\ spaces[calls[c].space].status = "preparing"
    BY <1>0, <1>4, PrepareCallType DEF Publish, Preparing, CallsStand
  <2>2. /\ Published(c).claim = spaces[calls[c].space].claim
        /\ Published(c).graphGeneration = spaces[calls[c].space].graphGeneration
    BY <1>0, <2>1 DEF Published, SpaceRecords
  <2> QED
    BY <1>0, <1>4, <2>1, <2>2, ReservationReplaced DEF Publish
<1>5. CASE RecordFailure(c)
  <2> DEFINE record == [spaces[calls[c].space] EXCEPT !.status = "preparation_failed",
                                                      !.artifacts = calls[c].artifacts]
  <2>1. calls[c].space \in Spaces
    BY <1>5, PrepareCallType DEF RecordFailure, Preparing
  <2>2. /\ record.status = "preparation_failed"
        /\ record.graphGeneration = spaces[calls[c].space].graphGeneration
    BY <1>0, <2>1 DEF SpaceRecords
  <2> QED
    BY <1>0, <1>5, <2>1, <2>2, ReservationReplaced DEF RecordFailure
<1>6. CASE CommitRollback(c)
  <2> DEFINE record == [spaces[calls[c].space] EXCEPT !.status = "rolled_back"]
  <2>1. calls[c].space \in Spaces
    BY <1>6, CallKinds DEF CommitRollback
  <2>2. /\ record.status = "rolled_back"
        /\ record.graphGeneration = spaces[calls[c].space].graphGeneration
    BY <1>0, <2>1 DEF SpaceRecords
  <2> QED
    BY <1>0, <1>6, <2>1, <2>2, ReservationReplaced DEF CommitRollback
<1>7. CASE Start(c)
  BY <1>1, <1>2, <1>7 DEF Start, RemoveArtifacts, BeginReconcile
<1>8. CASE Continue(c)
  BY <1>1, <1>3, <1>4, <1>5, <1>6, <1>8
  DEF Continue, CreateWorktree, CreateWorkset, MaterializationFails, PublicationFails,
      IntegrateMember
<1>9. CASE Abort(c)
  BY <1>1, <1>9 DEF Abort
<1> QED
  BY <1>7, <1>8, <1>9

LEMMA StepReserves ==
    Standing /\ PlansAreReserved /\ [Next]_vars => PlansAreReserved'
<1> SUFFICES ASSUME Standing, PlansAreReserved, [Next]_vars PROVE PlansAreReserved'
  OBVIOUS
<1>0. TypeInv /\ TypeOK
  BY DEF Standing, Safe, TypeInv
<1>1. CASE Topology
  BY <1>0, <1>1, ExtendReserves
  DEF Topology, RegisterRepository, RegisterAuthority, RelateParent, RelateDependency
<1>2. CASE UNCHANGED vars
  BY <1>0, <1>2, ReservationUntouched DEF vars
<1> QED
  BY <1>0, <1>1, <1>2, ShapeReserves, LeasesReserve, CallsReserve DEF Next

(* Nothing but lock promotes a deferred space.                             *)
LEMMA PromotionIsLock ==
    ASSUME Standing, [Next]_vars, NEW s \in Spaces,
           spaces[s].status = "deferred", spaces'[s].status = "locked"
    PROVE  Lock(s)
<1>0. /\ TypeOK
      /\ CallsStand
      /\ spaces \in [Spaces -> SpaceRecords]
  BY DEF Standing, Safe, TypeInv, TypeOK
<1>1. ASSUME NEW candidate, Extend(candidate)
      PROVE  FALSE
  BY <1>0, <1>1, RebasedIsSpace DEF Extend, TypeOK
<1>2. ~Topology
  BY <1>1 DEF Topology, RegisterRepository, RegisterAuthority, RelateParent, RelateDependency
<1>3. ASSUME NEW x \in Spaces, NEW record, spaces' = [spaces EXCEPT ![x] = record],
             record.status # "locked" \/ spaces[x].status # "deferred"
      PROVE  FALSE
  BY <1>0, <1>3
<1>4. ~Shape
  <2>1. ASSUME NEW x \in Spaces, CreateSpace(x)
        PROVE  FALSE
    BY <1>3, <2>1 DEF CreateSpace, NoSpace
  <2>2. ASSUME NEW x \in Spaces, NEW r, Associate(x, r)
        PROVE  FALSE
    BY <1>0, <2>2 DEF Associate, Editable
  <2>3. ASSUME NEW x \in Spaces, NEW claim, SetAffected(x, claim)
        PROVE  FALSE
    BY <1>0, <2>3 DEF SetAffected, Declare, Editable
  <2> QED
    BY <2>1, <2>2, <2>3 DEF Shape, BeginAffectAdd, BeginAffectRemove
<1>5. ASSUME NEW c \in Clients, Start(c) \/ Continue(c) \/ Abort(c)
      PROVE  FALSE
  <2>1. ASSUME NEW op, NEW x \in Spaces, NEW successor \in Spaces, Reserve(c, op, x, successor)
        PROVE  FALSE
    BY <1>3, <2>1 DEF Reserve, Reserved, NoSpace
  <2>2. CASE FinishAffect(c)
    BY <1>0, <2>2 DEF FinishAffect, AffectCalls, Declare, Editable
  <2>3. CASE Publish(c) \/ RecordFailure(c)
    <3>1. calls[c].space \in Spaces /\ spaces[calls[c].space].status = "preparing"
      BY <1>0, <2>3, PrepareCallType DEF Publish, RecordFailure, Preparing, CallsStand
    <3> QED
      BY <1>3, <2>3, <3>1 DEF Publish, RecordFailure
  <2>4. CASE CommitRollback(c)
    <3>1. /\ calls[c].space \in Spaces
          /\ spaces[calls[c].space].status \in {"preparation_failed", "rolled_back"}
      BY <1>0, <2>4, CallKinds DEF CommitRollback, CallsStand
    <3> QED
      BY <1>3, <2>4, <3>1 DEF CommitRollback
  <2>5. spaces' # spaces
    OBVIOUS
  <2> QED
    BY <1>5, <2>1, <2>2, <2>3, <2>4, <2>5
    DEF Start, Continue, Abort, RemoveArtifacts, BeginReconcile, CreateWorktree, CreateWorkset,
        MaterializationFails, PublicationFails, IntegrateMember
<1>6. ASSUME NEW x \in Spaces, Lock(x)
      PROVE  x = s
  BY <1>0, <1>6 DEF Lock
<1>7. ASSUME NEW x \in Spaces, Release(x) \/ Recover(x) \/ Finalize(x)
      PROVE  FALSE
  <2>1. spaces[x] \in SpaceRecords
    BY <1>0
  <2>2. PICK status \in {"released", "finalized"}, held \in {{}, spaces[x].held} :
           spaces' = [spaces EXCEPT ![x] = [spaces[x] EXCEPT !.status = status, !.held = held]]
    <3>1. CASE Finalize(x)
      <4>1. [spaces[x] EXCEPT !.status = "finalized"]
              = [spaces[x] EXCEPT !.status = "finalized", !.held = spaces[x].held]
        BY <2>1 DEF SpaceRecords
      <4> QED
        BY <3>1, <4>1 DEF Finalize
    <3>2. CASE Release(x) \/ Recover(x)
      BY <3>2 DEF Release, Recover, Freed
    <3> QED
      BY <1>7, <3>1, <3>2
  <2>3. [spaces[x] EXCEPT !.status = status, !.held = held].status = status
    BY <2>1 DEF SpaceRecords
  <2> QED
    BY <1>3, <2>2, <2>3
<1>8. ASSUME NEW x \in Spaces, NEW d, SetHandoffDisposition(x, d)
      PROVE  FALSE
  <2>1. spaces[x].status \in {"released", "finalized"}
    BY <1>8 DEF SetHandoffDisposition
  <2> QED
    BY <1>3, <1>8, <2>1 DEF SetHandoffDisposition
<1>9. Leases => Lock(s)
  BY <1>6, <1>7, <1>8 DEF Leases, AbandonMember, CleanupWorktree
<1> QED
  BY <1>2, <1>4, <1>5, <1>9 DEF Next, vars

(* When callers leave an unpublished preparation alone, a deferred space   *)
(* that becomes locked holds exactly the plan it was reserved with, and    *)
(* each of its blockers has its handoff, whatever grew, was released or    *)
(* died in between.                                                        *)
THEOREM PromotionIsFaithful ==
    ASSUME PreparationsLeftAlone
    PROVE  Spec => PromotionKeepsPlan
<1>1. Init => PlansAreReserved
  BY DEF Init, NoSpace, PlansAreReserved, PlanIsReserved
<1>2. ASSUME Standing, PlansAreReserved, [Next]_vars, NEW s \in Spaces,
             spaces[s].status = "deferred", spaces'[s].status = "locked"
      PROVE  /\ spaces'[s].held = reservedPlan[s]
             /\ \A b \in spaces[s].blockers : spaces[b].disposition \in Dispositions
  <2>1. Lock(s) /\ Promotable(s) /\ PlanIsReserved(s)
    BY <1>2, PromotionIsLock DEF Lock, PlansAreReserved
  <2>2. spaces'[s].held = Plan(s)
    BY <1>2, <2>1 DEF Lock, Standing, Safe, TypeInv, TypeOK, SpaceRecords
  <2>3. Plan(s) = reservedPlan[s]
    BY <1>2, <2>1 DEF Promotable, PlanIsReserved
  <2> QED
    BY <1>2, <2>1, <2>2, <2>3 DEF Promotable
<1>3. Standing /\ PlansAreReserved /\ [Next]_vars =>
        [\A s \in Spaces :
            spaces[s].status = "deferred" /\ spaces'[s].status = "locked" =>
                /\ spaces'[s].held = reservedPlan[s]
                /\ \A b \in spaces[s].blockers : spaces[b].disposition \in Dispositions]_vars
  BY <1>2
<1>4. Standing /\ PlansAreReserved /\ [Next]_vars => PlansAreReserved'
  BY StepReserves
<1> QED
  BY <1>1, <1>3, <1>4, StandsAlways, PTL DEF Spec, PromotionKeepsPlan

-----------------------------------------------------------------------------
(* Debt only advances.                                                     *)

\* Only a released or finalized space has records of debt.
DebtFollowsRelease ==
    \A s \in Spaces : spaces[s].status \notin {"released", "finalized"} =>
        \A r \in Repositories : debts[s][r] = "none"

\* The step keeps the records of s, resolves some or adds some.
DebtAdvances(s) ==
    \A r \in Repositories :
        /\ debts[s][r] # "none" => debts'[s][r] # "none"
        /\ debts[s][r] \in Resolved => debts'[s][r] \in Resolved

\* A space whose records are not about a release has none and gets none.
DebtWaits(s) ==
    spaces'[s].status \notin {"released", "finalized"} =>
        /\ spaces[s].status \notin {"released", "finalized"}
        /\ \A r \in Repositories : debts[s][r] = "none" => debts'[s][r] = "none"

Advances == \A s \in Spaces : DebtAdvances(s) /\ DebtWaits(s)

LEMMA DebtsUnchanged ==
    ASSUME TypeOK, debts' = debts, NEW s \in Spaces, NEW record,
           spaces' = [spaces EXCEPT ![s] = record],
           record.status \in {"released", "finalized"} \/
              spaces[s].status \notin {"released", "finalized"}
    PROVE  Advances
BY DEF TypeOK, Advances, DebtAdvances, DebtWaits

LEMMA LedgerUnchanged ==
    ASSUME debts' = debts, \A s \in Spaces : spaces'[s].status = spaces[s].status
    PROVE  Advances
BY DEF Advances, DebtAdvances, DebtWaits

LEMMA ShapeAdvances == TypeInv /\ Shape => Advances
<1> SUFFICES ASSUME TypeOK, NEW s \in Spaces,
                    \/ CreateSpace(s)
                    \/ \E r \in AssociationInputs : Associate(s, r)
                    \/ \E claim \in ClaimInputs :
                          \/ SetAffected(s, claim)
                          \/ \E c \in Clients :
                                BeginAffectAdd(c, s, claim) \/ BeginAffectRemove(c, s, claim)
             PROVE  Advances
  BY DEF Shape, TypeInv
<1>1. CASE CreateSpace(s)
  BY <1>1, DebtsUnchanged DEF CreateSpace, Exists
<1>2. ASSUME NEW r, Associate(s, r)
      PROVE  Advances
  <2>1. spaces[s].status = "draft"
    BY <1>2 DEF Associate, Editable
  <2> QED
    BY <1>2, <2>1, DebtsUnchanged DEF Associate
<1>3. ASSUME NEW claim, SetAffected(s, claim)
      PROVE  Advances
  <2>1. spaces[s].status = "draft"
    BY <1>3 DEF SetAffected, Declare, Editable
  <2> QED
    BY <1>3, <2>1, DebtsUnchanged DEF SetAffected, Declare
<1>4. ASSUME NEW claim, NEW c, BeginAffectAdd(c, s, claim) \/ BeginAffectRemove(c, s, claim)
      PROVE  Advances
  BY <1>4, LedgerUnchanged DEF BeginAffectAdd, BeginAffectRemove
<1> QED
  BY <1>1, <1>2, <1>3, <1>4

LEMMA LeasesAdvance ==
    ASSUME PreparationsLeftAlone, ReleasesOnce
    PROVE  TypeInv /\ DebtFollowsRelease /\ Leases => Advances
<1> SUFFICES ASSUME TypeOK, DebtFollowsRelease, NEW s \in Spaces,
                    \/ Lock(s)
                    \/ Release(s)
                    \/ Recover(s)
                    \/ Finalize(s)
                    \/ \E d \in DispositionInputs : SetHandoffDisposition(s, d)
                    \/ \E r \in Repositories : AbandonMember(s, r) \/ CleanupWorktree(s, r)
             PROVE  Advances
  BY DEF Leases, TypeInv
<1>0. /\ spaces[s] \in SpaceRecords
      /\ spaces \in [Spaces -> SpaceRecords]
      /\ debts \in [Spaces -> [Repositories -> DebtStatuses]]
  BY DEF TypeOK
<1>1. CASE Lock(s)
  <2>1. spaces[s].status \notin {"released", "finalized"}
    BY <1>1 DEF Lock, Callable, ReleasesOnce
  <2> QED
    BY <1>1, <2>1, DebtsUnchanged DEF Lock
<1>2. CASE Release(s) \/ Recover(s)
  <2>1. spaces'[s].status = "released" /\ \A x \in Spaces \ {s} : spaces'[x] = spaces[x]
    <3>1. Freed(s)
      BY <1>2 DEF Release, Recover
    <3> QED
      BY <1>0, <3>1 DEF Freed, SpaceRecords
  <2>2. PICK owed : debts' = [debts EXCEPT ![s] = owed]
    BY <1>2 DEF Release, Recover
  <2>3. \A x \in Spaces \ {s} : DebtAdvances(x) /\ DebtWaits(x)
    BY <1>0, <2>1, <2>2 DEF DebtAdvances, DebtWaits
  <2>4. DebtWaits(s)
    BY <2>1 DEF DebtWaits
  <2>5. CASE Release(s)
    <3>1. spaces[s].status = "locked"
      BY <2>5 DEF Release, Callable, ReleasesOnce
    <3>2. DebtAdvances(s)
      BY <3>1 DEF DebtFollowsRelease, DebtAdvances, Resolved
    <3> QED
      BY <2>3, <2>4, <3>2 DEF Advances
  <2>6. CASE Recover(s)
    <3>1. debts'[s] = RecoveredDebt(s)
      BY <1>0, <2>6 DEF Recover
    <3>2. DebtAdvances(s)
      BY <3>1 DEF RecoveredDebt, DebtAdvances, Resolved
    <3> QED
      BY <2>3, <2>4, <3>2 DEF Advances
  <2> QED
    BY <1>2, <2>5, <2>6
<1>3. CASE Finalize(s)
  <2> DEFINE record == [spaces[s] EXCEPT !.status = "finalized"]
  <2>1. record.status = "finalized"
    BY <1>0 DEF SpaceRecords
  <2> QED
    BY <1>3, <2>1, DebtsUnchanged DEF Finalize
<1>4. ASSUME NEW d, SetHandoffDisposition(s, d)
      PROVE  Advances
  <2>1. \A x \in Spaces : spaces'[x].status = spaces[x].status
    BY <1>0, <1>4 DEF SetHandoffDisposition, SpaceRecords
  <2> QED
    BY <1>4, <2>1, LedgerUnchanged DEF SetHandoffDisposition
<1>5. ASSUME NEW r \in Repositories, AbandonMember(s, r)
      PROVE  Advances
  <2>1. \A x \in Spaces, q \in Repositories :
           debts'[x][q] = IF x = s /\ q = r THEN "abandoned" ELSE debts[x][q]
    BY <1>0, <1>5 DEF AbandonMember
  <2>2. debts[s][r] # "none" /\ spaces' = spaces
    BY <1>5 DEF AbandonMember
  <2> QED
    BY <2>1, <2>2 DEF DebtFollowsRelease, Advances, DebtAdvances, DebtWaits, Resolved
<1>6. ASSUME NEW r, CleanupWorktree(s, r)
      PROVE  Advances
  BY <1>6, LedgerUnchanged DEF CleanupWorktree
<1> QED
  BY <1>1, <1>2, <1>3, <1>4, <1>5, <1>6

LEMMA CallsAdvance ==
    ASSUME Standing, DebtFollowsRelease, NEW c \in Clients, Start(c) \/ Continue(c) \/ Abort(c)
    PROVE  Advances
<1>0. /\ TypeOK
      /\ CallsStand
      /\ spaces \in [Spaces -> SpaceRecords]
      /\ debts \in [Spaces -> [Repositories -> DebtStatuses]]
  BY DEF Standing, Safe, TypeInv, TypeOK
<1>1. CASE spaces' = spaces /\ debts' = debts
  BY <1>1, LedgerUnchanged
<1>2. ASSUME NEW op, NEW s \in Spaces, NEW successor \in Spaces, Reserve(c, op, s, successor)
      PROVE  Advances
  <2>1. spaces[successor].status = "absent"
    BY <1>2 DEF Reserve, Available, Exists
  <2> QED
    BY <1>0, <1>2, <2>1, DebtsUnchanged DEF Reserve
<1>3. CASE FinishAffect(c)
  <2>1. calls[c].space \in Spaces /\ spaces[calls[c].space].status = "draft"
    BY <1>3 DEF FinishAffect, AffectCalls, Declare, Editable
  <2> QED
    BY <1>0, <1>3, <2>1, DebtsUnchanged DEF FinishAffect, Declare
<1>4. CASE Publish(c) \/ RecordFailure(c)
  <2>1. calls[c].space \in Spaces /\ spaces[calls[c].space].status = "preparing"
    BY <1>0, <1>4, PrepareCallType DEF Publish, RecordFailure, Preparing, CallsStand
  <2> QED
    BY <1>0, <1>4, <2>1, DebtsUnchanged DEF Publish, RecordFailure
<1>5. CASE CommitRollback(c)
  <2>1. /\ calls[c].space \in Spaces
        /\ spaces[calls[c].space].status \in {"preparation_failed", "rolled_back"}
    BY <1>0, <1>5, CallKinds DEF CommitRollback, CallsStand
  <2> QED
    BY <1>0, <1>5, <2>1, DebtsUnchanged DEF CommitRollback
<1>6. ASSUME NEW r \in Repositories, IntegrateMember(c, r)
      PROVE  Advances
  <2> DEFINE s == calls[c].space
  <2>1. s \in Spaces /\ spaces' = spaces
    BY <1>6 DEF IntegrateMember, ReconcileCalls
  <2>2. debts' = [debts EXCEPT ![s][r] = IF @ = "none" THEN "none" ELSE "reconciled"]
    BY <1>6 DEF IntegrateMember
  <2> HIDE DEF s
  <2>3. \A x \in Spaces, q \in Repositories :
           debts'[x][q] = IF x = s /\ q = r
                            THEN IF debts[x][q] = "none" THEN "none" ELSE "reconciled"
                            ELSE debts[x][q]
    BY <1>0, <2>1, <2>2
  <2> QED
    BY <2>1, <2>3 DEF Advances, DebtAdvances, DebtWaits, Resolved
<1>7. CASE Start(c)
  BY <1>1, <1>2, <1>7 DEF Start, RemoveArtifacts, BeginReconcile
<1>8. CASE Continue(c)
  BY <1>1, <1>3, <1>4, <1>5, <1>6, <1>8
  DEF Continue, CreateWorktree, CreateWorkset, MaterializationFails, PublicationFails
<1>9. CASE Abort(c)
  BY <1>1, <1>9 DEF Abort
<1> QED
  BY <1>7, <1>8, <1>9

(* When callers leave an unpublished preparation alone, and neither lock   *)
(* nor release again what was released, no record of debt is ever dropped  *)
(* and no resolved member is pending again, in whichever order recoveries, *)
(* reconciliations and dispositions of overlapping callers arrive.         *)
THEOREM DebtAdvancesOnly ==
    ASSUME PreparationsLeftAlone, ReleasesOnce
    PROVE  Spec => DebtOnlyAdvances
<1>1. Init => DebtFollowsRelease
  BY DEF Init, DebtFollowsRelease
<1>2. Standing /\ DebtFollowsRelease /\ [Next]_vars => Advances
  <2> SUFFICES ASSUME Standing, DebtFollowsRelease, [Next]_vars PROVE Advances
    OBVIOUS
  <2>0. TypeInv /\ TypeOK
    BY DEF Standing, Safe, TypeInv
  <2>1. ASSUME NEW candidate, Extend(candidate)
        PROVE  Advances
    <3>1. \A s \in Spaces : Rebased(candidate, s).status = spaces[s].status
      BY <2>0, RebasedIsSpace DEF TypeOK
    <3> QED
      BY <2>1, <3>1, LedgerUnchanged DEF Extend
  <2>2. CASE Topology
    BY <2>1, <2>2 DEF Topology, RegisterRepository, RegisterAuthority, RelateParent, RelateDependency
  <2>3. CASE UNCHANGED vars
    BY <2>3, LedgerUnchanged DEF vars
  <2> QED
    BY <2>0, <2>2, <2>3, ShapeAdvances, LeasesAdvance, CallsAdvance DEF Next
<1>3. DebtFollowsRelease /\ Advances => DebtFollowsRelease'
  BY DEF DebtFollowsRelease, Advances, DebtWaits
<1>4. Standing /\ DebtFollowsRelease /\ [Next]_vars =>
        [\A s \in Spaces, r \in Repositories :
            /\ debts[s][r] # "none" => debts'[s][r] # "none"
            /\ debts[s][r] \in {"reconciled", "abandoned"} =>
                  debts'[s][r] \in {"reconciled", "abandoned"}]_vars
  BY <1>2 DEF Advances, DebtAdvances, Resolved
<1>5. Standing /\ DebtFollowsRelease /\ [Next]_vars => DebtFollowsRelease'
  BY <1>2, <1>3
<1> QED
  BY <1>1, <1>4, <1>5, StandsAlways, PTL DEF Spec, DebtOnlyAdvances
=============================================================================
