------------------------------ MODULE Leasing -------------------------------
(***************************************************************************)
(* The lifecycle of spaces and authority leases: lifecycle.py, the class   *)
(* OpenLease.                                                              *)
(*                                                                         *)
(* The durable state is one document.  An operation that reads it, decides *)
(* and commits with nothing but reads in between is one action: the commit *)
(* compares the generation the operation observed, so either the document  *)
(* is the one it read or it raises and changes nothing (module             *)
(* StateRepository shows this of the commit).  An operation that acts      *)
(* between two commits, or commits what it read before an unprotected      *)
(* second read, is in several actions and its progress is in `calls`:      *)
(* affect_add and affect_remove, isolate and defer, rollback_preparation,   *)
(* reconcile_apply.                                                        *)
(*                                                                         *)
(* Git, the OpenSpec projection and the file system can refuse: an         *)
(* operation they refuse takes no step.  Worktrees that the lifecycle      *)
(* generates are kept in `worktrees`.                                      *)
(***************************************************************************)
EXTENDS RegisteredGraph

CONSTANTS
    Spaces,             \* identifiers of spaces
    Clients,            \* callers that can have an operation in flight
    AuthorityInputs,    \* what callers register and relate
    ParentInputs,
    DependencyInputs,
    AssociationInputs,  \* repositories that callers associate
    ClaimInputs,        \* claims that callers declare
    DispositionInputs,  \* handoff dispositions that callers set
    CallableFrom        \* for an operation without a status check in the
                        \* code, the statuses from which callers invoke it

Statuses == {"draft", "locked", "released", "finalized", "preparing",
             "preparation_failed", "rolled_back", "deferred"}

Dispositions == {"integrated", "abandoned", "superseded"}

UncheckedOperations == {"lock", "release", "recover", "finalize", "prepare"}

ASSUME InputsAssumption ==
    /\ AuthorityInputs \subseteq AuthorityRecords
    /\ ParentInputs \subseteq ParentRelations
    /\ DependencyInputs \subseteq DependencyRelations
    /\ AssociationInputs \subseteq Repositories
    /\ ClaimInputs \subseteq Claims
    /\ DispositionInputs \subseteq Dispositions
    /\ CallableFrom \in [UncheckedOperations -> SUBSET Statuses]

VARIABLES
    graphGeneration,  \* state.graph_generation
    spaces,           \* the space records
    leases,           \* the lease records
    debts,            \* the reconciliation records, by space and repository
    worktrees,        \* generated worktrees on disk, by space and repository
    calls,            \* the operations in flight, by client
    reservedPlan      \* history: what a successor's plan was to hold when it
                      \* was reserved; no action reads it

vars == <<graph, graphGeneration, spaces, leases, debts, worktrees, calls, reservedPlan>>

SpaceRecords ==
    [status          : Statuses \cup {"absent"},
     associated      : SUBSET Repositories,
     claim           : Claims,
     held            : SUBSET Authorities,
     generated       : SUBSET Repositories,   \* members with a worktree of their own
     pinned          : SUBSET Repositories,   \* members at their registered checkout
     artifacts       : SUBSET Repositories,
     blockers        : SUBSET Spaces,
     disposition     : Dispositions \cup {"none"},
     graphGeneration : Nat]

NoSpace ==
    [status |-> "absent", associated |-> {}, claim |-> EmptyClaim, held |-> {},
     generated |-> {}, pinned |-> {}, artifacts |-> {}, blockers |-> {},
     disposition |-> "none", graphGeneration |-> 0]

LeaseRecords == [authority : Authorities, owner : Spaces]

DebtStatuses == {"none", "pending", "reconciled", "abandoned"}

Idle == [op |-> "idle"]

AffectCalls ==
    [op : {"affect_add", "affect_remove"}, space : Spaces, claim : Claims]

\* A preparation: the successor, what its plan holds and works in, and the
\* artifacts made so far.
PrepareCalls ==
    [op : {"isolate", "defer"}, step : {"materialize", "publish", "fail"},
     space : Spaces, held : SUBSET Authorities, work : SUBSET Repositories,
     artifacts : SUBSET Repositories]

RollbackCalls == [op : {"rollback"}, space : Spaces]

\* A reconciliation: the members still to be integrated, and the pairs of a
\* consumer and a provider that must come before it.
ReconcileCalls ==
    [op : {"reconcile"}, space : Spaces, remaining : SUBSET Repositories,
     order : SUBSET (Repositories \X Repositories)]

Calls == {Idle} \cup AffectCalls \cup PrepareCalls \cup RollbackCalls \cup ReconcileCalls

TypeOK ==
    /\ graph \in Graphs
    /\ graphGeneration \in Nat
    /\ spaces \in [Spaces -> SpaceRecords]
    /\ leases \in SUBSET LeaseRecords
    /\ debts \in [Spaces -> [Repositories -> DebtStatuses]]
    /\ worktrees \in SUBSET (Spaces \X Repositories)
    /\ calls \in [Clients -> Calls]
    /\ reservedPlan \in [Spaces -> SUBSET Authorities]

Init ==
    /\ graph = EmptyGraph
    /\ graphGeneration = 0
    /\ spaces = [s \in Spaces |-> NoSpace]
    /\ leases = {}
    /\ debts = [s \in Spaces |-> [r \in Repositories |-> "none"]]
    /\ worktrees = {}
    /\ calls = [c \in Clients |-> Idle]
    /\ reservedPlan = [s \in Spaces |-> {}]

-----------------------------------------------------------------------------
(* What the operations read.                                               *)

Exists(s) == spaces[s].status # "absent"

Callable(op, s) == spaces[s].status \in CallableFrom[op]

Owners == {l.owner : l \in leases}

LeasesOf(s) == {l.authority : l \in {k \in leases : k.owner = s}}

Others(s) == {l \in leases : l.owner # s}

\* _affected_plan: an authority graph and an affected claim are required.
Plannable(s) ==
    /\ Exists(s)
    /\ graph.authorities # {}
    /\ spaces[s].claim # EmptyClaim

Plan(s) == HeldAuthorities(graph, spaces[s].claim)

\* _conflicts: the leases of other spaces that holding `held` conflicts with.
Conflicts(s, held) ==
    {l \in Others(s) : \E a \in held : Conflicting(graph, l.authority, a)}

\* The worktrees of the generated members can be inspected.
MembersPresent(s) == \A r \in spaces[s].generated : <<s, r>> \in worktrees

\* Mutant: the graph generation is not compared.
Promotable_AnyGraph(s) ==
    spaces[s].status = "deferred" =>
        /\ \A b \in spaces[s].blockers : spaces[b].disposition \in Dispositions
        /\ MembersPresent(s)

\* _promotion_issues finds none.  What it reads from Git, it may refuse on.
Promotable(s) ==
    spaces[s].status = "deferred" =>
        /\ spaces[s].graphGeneration = graphGeneration
        /\ \A b \in spaces[s].blockers : spaces[b].disposition \in Dispositions
        /\ MembersPresent(s)

Snapshot(g, s) == SpaceSnapshot(g, spaces[s].associated, spaces[s].claim)

-----------------------------------------------------------------------------
(* Topology: register_repository, register_authority, relate_parent and    *)
(* relate_dependency all end in _validate_graph_candidate.                 *)

\* Mutant: held authorities are compared with the plan, the rest is not.
PreservesOwner_PlanOnly(candidate, owner) ==
    spaces[owner].held = HeldAuthorities(candidate, spaces[owner].claim)

\* The candidate leaves a lease owner as it is.
PreservesOwner(candidate, owner) ==
    LET after == Snapshot(candidate, owner)
    IN  /\ Snapshot(graph, owner) = after
        /\ spaces[owner].held = after.held
        /\ \A l \in Others(owner) :
              \A a \in after.held : ~Conflicting(candidate, l.authority, a)

\* A deferred space that the candidate does not touch follows the graph.
Rebased(candidate, s) ==
    IF /\ spaces[s].status = "deferred"
       /\ spaces[s].graphGeneration = graphGeneration
       /\ Snapshot(graph, s) = Snapshot(candidate, s)
      THEN [spaces[s] EXCEPT !.graphGeneration = graphGeneration + 1]
      ELSE spaces[s]

Extend(candidate) ==
    /\ ValidGraph(candidate)
    /\ \A owner \in Owners : PreservesOwner(candidate, owner)
    /\ graph' = candidate
    /\ graphGeneration' = graphGeneration + 1
    /\ spaces' = [s \in Spaces |-> Rebased(candidate, s)]
    /\ UNCHANGED <<leases, debts, worktrees, calls, reservedPlan>>

RegisterRepository(r) ==
    /\ r \notin graph.repositories
    /\ Extend([graph EXCEPT !.repositories = @ \cup {r}])

RegisterAuthority(record) ==
    /\ record.repository \in graph.repositories
    /\ record.identifier \notin Identifiers(graph)
    /\ Extend([graph EXCEPT !.authorities = @ \cup {record}])

RelateParent(relation) ==
    /\ relation \notin graph.parents
    /\ Extend([graph EXCEPT !.parents = @ \cup {relation}])

RelateDependency(relation) ==
    /\ relation \notin graph.dependencies
    /\ Extend([graph EXCEPT !.dependencies = @ \cup {relation}])

-----------------------------------------------------------------------------
(* The shape of a space.                                                   *)

CreateSpace(s) ==
    /\ ~Exists(s)
    /\ spaces' = [spaces EXCEPT ![s] = [NoSpace EXCEPT !.status = "draft"]]
    /\ UNCHANGED <<graph, graphGeneration, leases, debts, worktrees, calls, reservedPlan>>

\* _editable_space: only a draft can be reshaped.
Editable(s) == spaces[s].status = "draft"

Associate(s, r) ==
    /\ Editable(s)
    /\ r \in graph.repositories
    /\ spaces' = [spaces EXCEPT ![s].associated = @ \cup {r}]
    /\ UNCHANGED <<graph, graphGeneration, leases, debts, worktrees, calls, reservedPlan>>

\* The commit that set_affected, affect_add and affect_remove share.
Declare(s, claim) ==
    /\ Editable(s)
    /\ KnownClaim(graph, claim)
    /\ spaces' = [spaces EXCEPT ![s].claim = claim]

SetAffected(s, claim) ==
    /\ Declare(s, claim)
    /\ UNCHANGED <<graph, graphGeneration, leases, debts, worktrees, calls, reservedPlan>>

\* affect_add and affect_remove read the claim, and only then call
\* set_affected, which compares generations with a snapshot of its own.
BeginAffectAdd(c, s, claim) ==
    /\ calls[c] = Idle
    /\ Exists(s)
    /\ calls' = [calls EXCEPT ![c] =
          [op |-> "affect_add", space |-> s,
           claim |-> [repositories |-> spaces[s].claim.repositories \cup claim.repositories,
                      authorities  |-> spaces[s].claim.authorities \cup claim.authorities]]]
    /\ UNCHANGED <<graph, graphGeneration, spaces, leases, debts, worktrees, reservedPlan>>

BeginAffectRemove(c, s, claim) ==
    /\ calls[c] = Idle
    /\ Exists(s)
    /\ calls' = [calls EXCEPT ![c] =
          [op |-> "affect_remove", space |-> s,
           claim |-> [repositories |-> spaces[s].claim.repositories \ claim.repositories,
                      authorities  |-> spaces[s].claim.authorities \ claim.authorities]]]
    /\ UNCHANGED <<graph, graphGeneration, spaces, leases, debts, worktrees, reservedPlan>>

FinishAffect(c) ==
    /\ calls[c] \in AffectCalls
    /\ Declare(calls[c].space, calls[c].claim)
    /\ calls' = [calls EXCEPT ![c] = Idle]
    /\ UNCHANGED <<graph, graphGeneration, leases, debts, worktrees, reservedPlan>>

-----------------------------------------------------------------------------
(* Leases.                                                                 *)

\* The canonical members of a space that has none: no worktree is generated.
PinnedAtLock(s) ==
    IF spaces[s].generated \cup spaces[s].pinned # {}
      THEN spaces[s].pinned
      ELSE spaces[s].associated \cup WorkRepositories(graph, spaces[s].claim)

\* The lease table after s exchanges what it holds for `held`.
Acquired(s, held) == Others(s) \cup {[authority |-> a, owner |-> s] : a \in held}

\* A locked space that holds its plan is left alone ("compatible_noop").
Lock(s) ==
    /\ Plannable(s)
    /\ Callable("lock", s)
    /\ ~(spaces[s].status = "locked" /\ spaces[s].held = Plan(s))
    /\ Conflicts(s, Plan(s)) = {}
    /\ Promotable(s)
    /\ leases' = Acquired(s, Plan(s))
    /\ spaces' = [spaces EXCEPT ![s] =
          [@ EXCEPT !.status = "locked",
                    !.held = Plan(s),
                    !.pinned = PinnedAtLock(s),
                    !.graphGeneration = graphGeneration]]
    /\ UNCHANGED <<graph, graphGeneration, debts, worktrees, calls, reservedPlan>>

\* Mutant: the leases outlive the space's release.
Freed_KeepsLeases(s) ==
    /\ spaces' = [spaces EXCEPT ![s] = [@ EXCEPT !.status = "released", !.held = {}]]
    /\ leases' = leases

\* Mutant: a status that the codec does not know is written.
Freed_UnknownStatus(s) ==
    /\ spaces' = [spaces EXCEPT ![s] = [@ EXCEPT !.status = "closed", !.held = {}]]
    /\ leases' = Others(s)

\* What release and recover do to the space and to its leases.
Freed(s) ==
    /\ spaces' = [spaces EXCEPT ![s] = [@ EXCEPT !.status = "released", !.held = {}]]
    /\ leases' = Others(s)

Release(s) ==
    /\ Plannable(s)
    /\ Callable("release", s)
    /\ MembersPresent(s)
    /\ Freed(s)
    /\ debts' = [debts EXCEPT ![s] =
          [r \in Repositories |-> IF r \in spaces[s].generated THEN "pending" ELSE "none"]]
    /\ UNCHANGED <<graph, graphGeneration, worktrees, calls, reservedPlan>>

\* Mutant: recovery records no debt.
RecoveredDebt_None(s) == debts[s]

\* recover adds the debt that no record covers yet.
RecoveredDebt(s) ==
    [r \in Repositories |-> IF r \in spaces[s].generated /\ debts[s][r] = "none"
                              THEN "pending" ELSE debts[s][r]]

Recover(s) ==
    /\ Exists(s)
    /\ Callable("recover", s)
    /\ Freed(s)
    /\ debts' = [debts EXCEPT ![s] = RecoveredDebt(s)]
    /\ UNCHANGED <<graph, graphGeneration, worktrees, calls, reservedPlan>>

-----------------------------------------------------------------------------
(* isolate and defer: _prepare_successor.  The successor is reserved, its  *)
(* worktrees and its workset are created, and it is published; a failure   *)
(* of either part is recorded by a commit of its own.                      *)

\* isolate wants a lockable space, defer one that is not.
Preparable(s, op) ==
    /\ Plannable(s)
    /\ Callable("prepare", s)
    /\ op = "isolate" <=> Conflicts(s, Plan(s)) = {}

\* Mutant: a successor that was not published yet can be reserved again.
Available_Unpublished(successor) == spaces[successor].status \in {"absent", "preparing"}

Available(successor) == ~Exists(successor)

\* Mutant: the members are recorded only when they have been created.
Reserved_MembersLater(s) ==
    LET work == WorkRepositories(graph, spaces[s].claim)
    IN  [NoSpace EXCEPT !.status = "preparing",
                        !.associated = spaces[s].associated,
                        !.claim = spaces[s].claim,
                        !.blockers = {l.owner : l \in Conflicts(s, Plan(s))},
                        !.generated = {},
                        !.pinned = spaces[s].associated \ work,
                        !.graphGeneration = graphGeneration]

\* Mutant: the source's claim is not copied.
Reserved_ClaimForgotten(s) ==
    LET work == WorkRepositories(graph, spaces[s].claim)
    IN  [NoSpace EXCEPT !.status = "preparing",
                        !.associated = spaces[s].associated,
                        !.claim = EmptyClaim,
                        !.blockers = {l.owner : l \in Conflicts(s, Plan(s))},
                        !.generated = work,
                        !.pinned = spaces[s].associated \ work,
                        !.graphGeneration = graphGeneration]

\* The record that reserves a successor of s.
Reserved(s) ==
    LET work == WorkRepositories(graph, spaces[s].claim)
    IN  [NoSpace EXCEPT !.status = "preparing",
                        !.associated = spaces[s].associated,
                        !.claim = spaces[s].claim,
                        !.blockers = {l.owner : l \in Conflicts(s, Plan(s))},
                        !.generated = work,
                        !.pinned = spaces[s].associated \ work,
                        !.graphGeneration = graphGeneration]

Reserve(c, op, s, successor) ==
    /\ calls[c] = Idle
    /\ Available(successor)
    /\ Preparable(s, op)
    /\ spaces' = [spaces EXCEPT ![successor] = Reserved(s)]
    /\ calls' = [calls EXCEPT ![c] =
          [op |-> op, step |-> "materialize", space |-> successor, held |-> Plan(s),
           work |-> WorkRepositories(graph, spaces[s].claim), artifacts |-> {}]]
    /\ reservedPlan' = [reservedPlan EXCEPT ![successor] = Plan(s)]
    /\ UNCHANGED <<graph, graphGeneration, leases, debts, worktrees>>

Preparing(c, step) == calls[c] \in PrepareCalls /\ calls[c].step = step

CreateWorktree(c, r) ==
    /\ Preparing(c, "materialize")
    /\ r \in calls[c].work \ calls[c].artifacts
    /\ worktrees' = worktrees \cup {<<calls[c].space, r>>}
    /\ calls' = [calls EXCEPT ![c].artifacts = @ \cup {r}]
    /\ UNCHANGED <<graph, graphGeneration, spaces, leases, debts, reservedPlan>>

CreateWorkset(c) ==
    /\ Preparing(c, "materialize")
    /\ calls[c].artifacts = calls[c].work
    /\ calls' = [calls EXCEPT ![c].step = "publish"]
    /\ UNCHANGED <<graph, graphGeneration, spaces, leases, debts, worktrees, reservedPlan>>

\* A worktree cannot be created, or the workset cannot.
MaterializationFails(c) ==
    /\ Preparing(c, "materialize")
    /\ calls' = [calls EXCEPT ![c].step = "fail"]
    /\ UNCHANGED <<graph, graphGeneration, spaces, leases, debts, worktrees, reservedPlan>>

\* Mutant: publication trusts the conflicts found at reservation.
Grantable_Trusting(s, held) == TRUE

\* The conflicts are looked for again at publication, with the held set of
\* the reservation; validate_state refuses a second lease on an authority.
Grantable(s, held) ==
    /\ Conflicts(s, held) = {}
    /\ LeasesOf(s) \cap held = {}

\* Mutant: the held set is resolved anew, the leases are not.
Published_Reresolved(c) ==
    [spaces[calls[c].space] EXCEPT
        !.status = IF calls[c].op = "isolate" THEN "locked" ELSE "deferred",
        !.held = IF calls[c].op = "isolate" THEN Plan(calls[c].space) ELSE {},
        !.artifacts = calls[c].artifacts]

\* The published record of the successor that c prepares.
Published(c) ==
    [spaces[calls[c].space] EXCEPT
        !.status = IF calls[c].op = "isolate" THEN "locked" ELSE "deferred",
        !.held = IF calls[c].op = "isolate" THEN calls[c].held ELSE {},
        !.artifacts = calls[c].artifacts]

Publish(c) ==
    LET s == calls[c].space
    IN  /\ Preparing(c, "publish")
        /\ spaces' = [spaces EXCEPT ![s] = Published(c)]
        /\ \/ /\ calls[c].op = "isolate"
              /\ Grantable(s, calls[c].held)
              /\ leases' = leases \cup {[authority |-> a, owner |-> s] : a \in calls[c].held}
           \/ /\ calls[c].op = "defer"
              /\ leases' = leases
        /\ calls' = [calls EXCEPT ![c] = Idle]
        /\ UNCHANGED <<graph, graphGeneration, debts, worktrees, reservedPlan>>

\* Mutant: a publication that fails leaves the record as it was reserved.
PublicationFails_Unrecorded(c) ==
    /\ Preparing(c, "publish")
    /\ calls' = [calls EXCEPT ![c] = Idle]
    /\ UNCHANGED <<graph, graphGeneration, spaces, leases, debts, worktrees, reservedPlan>>

\* The authorities are not grantable, or another commit came between.
PublicationFails(c) ==
    /\ Preparing(c, "publish")
    /\ calls' = [calls EXCEPT ![c].step = "fail"]
    /\ UNCHANGED <<graph, graphGeneration, spaces, leases, debts, worktrees, reservedPlan>>

RecordFailure(c) ==
    /\ Preparing(c, "fail")
    /\ spaces' = [spaces EXCEPT ![calls[c].space] =
          [@ EXCEPT !.status = "preparation_failed", !.artifacts = calls[c].artifacts]]
    /\ calls' = [calls EXCEPT ![c] = Idle]
    /\ UNCHANGED <<graph, graphGeneration, leases, debts, worktrees, reservedPlan>>

\* rollback_preparation removes the clean artifacts and, when it retained
\* none, commits the new status.  An artifact that is not there is retained.
RemoveArtifacts(c, s, removed) ==
    /\ calls[c] = Idle
    /\ spaces[s].status = "preparation_failed"
    /\ removed \subseteq {r \in spaces[s].artifacts : <<s, r>> \in worktrees}
    /\ worktrees' = worktrees \ ({s} \X removed)
    /\ calls' = [calls EXCEPT ![c] = IF removed = spaces[s].artifacts
                                       THEN [op |-> "rollback", space |-> s]
                                       ELSE Idle]
    /\ UNCHANGED <<graph, graphGeneration, spaces, leases, debts, reservedPlan>>

CommitRollback(c) ==
    /\ calls[c] \in RollbackCalls
    /\ spaces' = [spaces EXCEPT ![calls[c].space].status = "rolled_back"]
    /\ calls' = [calls EXCEPT ![c] = Idle]
    /\ UNCHANGED <<graph, graphGeneration, leases, debts, worktrees, reservedPlan>>

-----------------------------------------------------------------------------
(* Handoff, reconciliation debt and finalization.                          *)

SetHandoffDisposition(s, disposition) ==
    /\ spaces[s].status \in {"released", "finalized"}
    /\ spaces' = [spaces EXCEPT ![s].disposition = disposition]
    /\ UNCHANGED <<graph, graphGeneration, leases, debts, worktrees, calls, reservedPlan>>

\* Dependencies whose consumer is a repository order the reconciliation.
RepositoryDependencies ==
    {<<d.consumer, Host(graph, d.authority)>> :
        d \in {x \in graph.dependencies : x.consumer \in graph.repositories}}

\* dependency_order: the members all of whose providers are done.
Ready(remaining, order) ==
    {r \in remaining : \A provider \in remaining : <<r, provider>> \notin order}

\* No cycle keeps a member from ever being ready.
Orderable(members, order) ==
    \A remaining \in SUBSET members \ {{}} : Ready(remaining, order) # {}

\* reconcile_plan, whose order and members reconcile_apply then follows.  It
\* wants a merge path for every generated member, and no other.
BeginReconcile(c, s) ==
    /\ calls[c] = Idle
    /\ Plannable(s)
    /\ MembersPresent(s)
    /\ spaces[s].generated # {}
    /\ Orderable(spaces[s].generated, RepositoryDependencies)
    /\ calls' = [calls EXCEPT ![c] =
          [op |-> "reconcile", space |-> s, remaining |-> spaces[s].generated,
           order |-> RepositoryDependencies]]
    /\ UNCHANGED <<graph, graphGeneration, spaces, leases, debts, worktrees, reservedPlan>>

\* The branch of a member is merged, and that is committed.  A member without
\* a record gets none.
IntegrateMember(c, r) ==
    LET s == calls[c].space
        left == calls[c].remaining \ {r}
    IN  /\ calls[c] \in ReconcileCalls
        /\ r \in Ready(calls[c].remaining, calls[c].order)
        /\ <<s, r>> \in worktrees
        /\ debts' = [debts EXCEPT ![s][r] = IF @ = "none" THEN "none" ELSE "reconciled"]
        /\ calls' = [calls EXCEPT ![c] = IF left = {} THEN Idle ELSE [@ EXCEPT !.remaining = left]]
        /\ UNCHANGED <<graph, graphGeneration, spaces, leases, worktrees, reservedPlan>>

\* Mutant: the record is dropped.
AbandonMember_DropsRecord(s, r) ==
    /\ debts[s][r] # "none"
    /\ debts' = [debts EXCEPT ![s][r] = "none"]
    /\ UNCHANGED <<graph, graphGeneration, spaces, leases, worktrees, calls, reservedPlan>>

AbandonMember(s, r) ==
    /\ debts[s][r] # "none"
    /\ debts' = [debts EXCEPT ![s][r] = "abandoned"]
    /\ UNCHANGED <<graph, graphGeneration, spaces, leases, worktrees, calls, reservedPlan>>

CleanupWorktree(s, r) ==
    /\ r \in spaces[s].generated
    /\ <<s, r>> \in worktrees
    /\ worktrees' = worktrees \ {<<s, r>>}
    /\ UNCHANGED <<graph, graphGeneration, spaces, leases, debts, calls, reservedPlan>>

\* Mutant: a worktree that is still there does not hold finalization up.
Disposed_WorktreesIgnored(s) == \A r \in Repositories : debts[s][r] # "pending"

\* Nothing is pending and every generated worktree is gone.
Disposed(s) ==
    /\ \A r \in Repositories : debts[s][r] # "pending"
    /\ \A r \in spaces[s].generated : <<s, r>> \notin worktrees

Finalize(s) ==
    /\ Exists(s)
    /\ Callable("finalize", s)
    /\ Disposed(s)
    /\ spaces' = [spaces EXCEPT ![s].status = "finalized"]
    /\ UNCHANGED <<graph, graphGeneration, leases, debts, worktrees, calls, reservedPlan>>

-----------------------------------------------------------------------------
\* A call ends without its next commit: the process dies, the commit is
\* stale or times out on the file lock, or the transform refuses.
Abort(c) ==
    /\ calls[c] # Idle
    /\ calls' = [calls EXCEPT ![c] = Idle]
    /\ UNCHANGED <<graph, graphGeneration, spaces, leases, debts, worktrees, reservedPlan>>

Topology ==
    \/ \E r \in Repositories : RegisterRepository(r)
    \/ \E x \in AuthorityInputs : RegisterAuthority(x)
    \/ \E p \in ParentInputs : RelateParent(p)
    \/ \E d \in DependencyInputs : RelateDependency(d)

Shape ==
    \E s \in Spaces :
        \/ CreateSpace(s)
        \/ \E r \in AssociationInputs : Associate(s, r)
        \/ \E claim \in ClaimInputs :
              \/ SetAffected(s, claim)
              \/ \E c \in Clients : BeginAffectAdd(c, s, claim) \/ BeginAffectRemove(c, s, claim)

Leases ==
    \E s \in Spaces :
        \/ Lock(s)
        \/ Release(s)
        \/ Recover(s)
        \/ Finalize(s)
        \/ \E d \in DispositionInputs : SetHandoffDisposition(s, d)
        \/ \E r \in Repositories :
              AbandonMember(s, r) \/ CleanupWorktree(s, r)

Start(c) ==
    \E s \in Spaces :
        \/ \E op \in {"isolate", "defer"}, successor \in Spaces : Reserve(c, op, s, successor)
        \/ \E removed \in SUBSET spaces[s].artifacts : RemoveArtifacts(c, s, removed)
        \/ BeginReconcile(c, s)

\* The next step of a call in flight.
Continue(c) ==
    \/ FinishAffect(c)
    \/ \E r \in Repositories : CreateWorktree(c, r)
    \/ CreateWorkset(c)
    \/ MaterializationFails(c)
    \/ Publish(c)
    \/ PublicationFails(c)
    \/ RecordFailure(c)
    \/ CommitRollback(c)
    \/ \E r \in Repositories : IntegrateMember(c, r)

Next ==
    \/ Topology
    \/ Shape
    \/ Leases
    \/ \E c \in Clients : Start(c) \/ Continue(c) \/ Abort(c)

Spec == Init /\ [][Next]_vars
=============================================================================
