# OpenLease: models, checks and proofs

OpenLease coordinates work that spans several Git repositories. Repositories host *authorities*
(documents that may have one writer at a time), authorities contain and depend on each other, and a
*space* declares the authorities it is going to change and leases their writable closure. This
directory models the implementation in `src/src/openlease/`; paths below are relative to it.

- [The system](#the-system)
- [Modules](#modules)
- [Runs](#runs)
- [Where the code departs from its specifications](#where-the-code-departs-from-its-specifications)
- [Proofs](#proofs)
- [What is not modelled](#what-is-not-modelled)
- [Plan](#plan)

## The system

| Component | Source | State | Operations | Hard behaviour | What makes it correct |
| --- | --- | --- | --- | --- | --- |
| Authority graph | `core/graph.py` | none (pure) | validate, resolve a claim, find conflicts, snapshot a space's part, audit changed paths | fixpoints over relations registered in any order | closures are least, no cycle passes, conflict is symmetric sharing, a snapshot is exactly what a space depends on |
| Space and lease lifecycle | `lifecycle.py` | the state document: graph, spaces, leases, debts, generations | register, relate, associate, affect, lock, isolate, defer, release, recover, reconcile, abandon, cleanup, rollback, finalize | every operation of several processes interleaves; preparation acts between two commits; a process can die anywhere | one writer per authority, growth never alters an owner, nothing generated is lost, deferred work is promoted to what was planned |
| State repository | `utils/state_repository.py` | `state.json`, `state.lock` | load, mutate, atomic write | two writers, stale plans, crash between write and rename | a commit applies to the document its caller planned with |
| State codec | `core/state_codec.py` | none | decode, validate, encode | — | a document with a duplicate lease is refused |
| Preparation planning | `core/preparation.py` | none | deterministic destinations | collisions with other spaces and leftovers | two successors never share a destination |
| Reconciliation planning | `core/reconciliation.py` | none | match members and legs, order by dependency | cycles | providers before consumers |
| Workset projection | `utils/openspec_adapter.py`, `utils/ownership.py` | worksets of the OpenSpec tool | list, create, remove, open | changed outside, changed before the commit that records it | only an owned, unmodified workset is removed |
| Git adapter | `utils/git_adapter.py` | repositories, branches, worktrees | inspect, worktrees, preview, integrate | a ref moves between preview and merge | a merge starts from the commit that was previewed |
| Temporary session spaces | `core/temporary_spaces.py`, `lifecycle.py` 961–1147 | temporary spaces | resolve, close, reclaim, promote | sessions race for one worktree | work is promoted, never discarded |
| Extension runtime | `extension_runtime.py` | configuration files, managed records, journals, outcomes | bind, set, delete, batch, invoke | concurrent writers, half-done batches | no lost update of a key; outcome and journal name what was written |
| Configuration resolution | `core/configuration.py`, `configuration_codec.py`, `utils/configuration_source.py` | records in the state document | bind sources, overlay | — | documented precedence |
| Command line | `cli.py` | none | one lifecycle call each | — | — |

The components meet in the state document. Every lifecycle operation loads it, decides, and calls
`StateRepository.mutate` with the generation it saw. `_prepare_successor`, `rollback_preparation`
and `reconcile_apply` act on Git between loads and commits; `release`, `recover`, `open` and the
preparation also change the workset projection there. Nothing runs in the background and no lock is
held between two commits: all coordination is the generation comparison.

## Modules

| Module | Models | Extends |
| --- | --- | --- |
| `AuthorityGraph` | the functions of `core/graph.py` that validate, resolve, compare and snapshot | |
| `BoundaryAudit` | `audit_authority_boundaries` over changed paths | `AuthorityGraph` |
| `Preparation` | the destinations of a successor's worktrees | `AuthorityGraph` |
| `RegisteredGraph` | the graph as a variable, and what the functions mean for it by definitions of their own | `AuthorityGraph` |
| `GraphGrowth` | every graph that registrations build, and what its growth, the audit and the destinations promise | `RegisteredGraph`, `BoundaryAudit`, `Preparation` |
| `MCAuthorityGraph` | instance: a monorepo and a second repository | `GraphGrowth` |
| `AuthorityGraph_proofs` | proofs about the loops of `graph.py`, the audit and the destinations | `GraphGrowth` |
| `Leasing` | the lifecycle of spaces, leases, worktrees and debts | `RegisteredGraph` |
| `LeasingProperties` | its properties | `Leasing` |
| `MCLeasing` | instances: inputs, initial topologies, callers | `LeasingProperties` |
| `Leasing_proofs` | proofs of the safety of `Leasing` | `LeasingProperties`, `AuthorityGraph_proofs` |
| `WorkingSpaces` | temporary spaces of host sessions, and the worksets of spaces | |
| `MCWorkingSpaces` | instance | `WorkingSpaces` |
| `WorkingSpaces_proofs` | proofs about its temporary spaces and its worksets | `WorkingSpaces` |
| `Cohort` | abstract: a released cohort is integrated, providers first, and recorded | |
| `Reconciliation` | `reconcile_apply` on Git histories, with interference; implements `Cohort` | instantiates `Cohort` |
| `MCReconciliation` | instance | `Reconciliation` |
| `Reconciliation_proofs` | proof of the refinement and of its safety | `Reconciliation` |
| `ConfigurationRegistry` | packs, sources, roots, bound extensions and the precedence of sources | |
| `MCConfigurationRegistry` | instance | `ConfigurationRegistry` |
| `ConfigurationRegistry_proofs` | proofs of its safety | `ConfigurationRegistry` |
| `ConfigurationPublisher` | handles on managed configuration and their writes | |
| `MCConfigurationPublisher` | instance | `ConfigurationPublisher` |
| `ConfigurationPublisher_proofs` | proofs of its safety | `ConfigurationPublisher` |
| `Invocations` | handlers, batches, journals and the retention of outcomes | |
| `MCInvocations` | instance | `Invocations` |
| `Invocations_proofs` | proofs of its safety | `Invocations` |
| `StateRegister` | abstract: a document that is observed and replaced atomically | |
| `StateRepository` | the file, the lock and the rename; implements `StateRegister` | instantiates `StateRegister` |
| `MCStateRepository` | instance | `StateRepository` |
| `StateRepository_proofs` | proof of the refinement | `StateRepository` |

How they fit together: `StateRepository` shows that a commit applies to the document its caller
loaded, and every other module relies on it. `Leasing` treats a worktree as a pair of a space and a
repository, which `Preparation` justifies; it treats a merge as one step that may conflict, which
`Reconciliation` refines; and it has no worksets, which `WorkingSpaces` adds. `ConfigurationRegistry`
says which documents an extension reads and `ConfigurationPublisher` how it writes one; `Invocations`
sits above both.

Operators whose comment begins with "Mutant:" are wrong versions of the definition below them; they
are used only to confirm that a property notices the difference.

### AuthorityGraph

A graph is four sets of records. The `while changed` loops of `graph.py` are `Reach`: as many passes
of `Successors` as there are edges. Every result of the code is sorted, so sets lose nothing.
`Conflicting` is the three-way test of `conflicting_leases`, `SpaceSnapshot` the record of
`snapshot_space_graph`. `Relevant` is one set of nodes where the code keeps relevant repositories and
relevant authorities apart, which is the same unless one identifier is used for both; the code does not
forbid that, and `KindsAreApart` says where it matters.

### RegisteredGraph and GraphGrowth

The meaning of the functions is stated a second time without their loops: a closure is the least set
that no writable dependency leaves, a graph without cycles can be ranked, and a lease covers the subtree
of its authority. `GraphGrowth` builds graphs by accepted registrations alone (`AddRepository`,
`AddAuthority`, `AddParent`, `AddDependency`; no space exists, so `Accept` is `validate_graph`) and
adds what concerns pairs of spaces. Its other constants are inputs: what is registered, the `Shapes` of
spaces, the `Bases` that callers configure, paths that are taken without OpenLease and what Git lists.

`BoundaryAudit` adds what reads paths. A directory is a sequence of segments; `Exceeds` asks for the
innermost authority around a changed path. The root of a repository, written `"."`, is accepted by
`register_authority` but no listed path starts with it, so such an authority is never asked for
(`Matches`). Two authorities may have the same directory; then the first registered one answers, and
the choice is left open.

### Preparation

`Occupied` is what `_prepare_successor` collects before it calls `plan_preparation`: the paths named
by records of any space, those listed in the base directories, and those Git lists for the
repositories at work. `Generated` assigns the least free suffix to one repository after the other, in an order that is left
open: the code's is that of identifiers.
The reservation is committed against the generation the records were read at, so of two concurrent
preparations one sees the other's records; `DestinationsAreApart` is about that second one.

### Leasing

| Variable | Code |
| --- | --- |
| `graph`, `graphGeneration` | repositories, authorities, parents, dependencies and `graph_generation` of the document |
| `spaces` | the `SpaceRecord`s; members with a worktree are `generated`, the others `pinned` |
| `leases` | the `LeaseRecord`s |
| `debts` | the `ReconciliationRecord`s by space and repository, `"none"` where there is no record |
| `worktrees` | the generated worktrees that exist on disk |
| `calls` | the operations in flight: local variables of a call between two of its commits |
| `reservedPlan` | history variable: what a successor was planned to hold; read by properties only |

An operation that loads, decides and commits with nothing but reads in between is one action. That
is justified by `StateRepository`: a commit that succeeds applies to the very document the operation
loaded. A commit that fails for staleness changes nothing, so the call has no step (`lock` then
retries, which is a later step). Operations that act in between are split where they act:

- `affect_add` and `affect_remove` compute the claim from one load and commit it against another
  (`BeginAffectAdd`, `BeginAffectRemove`, `FinishAffect`);
- `_prepare_successor` reserves (`Reserve`), makes worktrees one by one (`CreateWorktree`), the
  workset (`CreateWorkset`), and publishes against a generation it reads anew (`Publish`); either
  part can fail (`MaterializationFails`, `PublicationFails`), and the failure has its own commit
  (`RecordFailure`);
- `rollback_preparation` removes what it can (`RemoveArtifacts`) and commits only if it retained
  nothing (`CommitRollback`);
- `reconcile_apply` plans (`BeginReconcile`) and then merges and records one member after the other
  in dependency order (`IntegrateMember`).

`Abort` ends a call anywhere: the process dies, its commit is stale or the lock times out. What Git
and the file system decide (is a worktree clean, does a merge succeed) is a free choice: the action
may be taken or not. The lifecycle never removes a named space, so records are never taken away.
`lock`, `release`, `recover`, `finalize`, `isolate` and `defer` do not check the status of their
space in the code; the constant `CallableFrom` says from which statuses the callers of an instance
invoke them. `AnyStatus` is the code as it is, `Documented` the caller the specifications describe.
`AnyUntilFinalized`, which keeps an instance with two callers small, finalizes released spaces only. The
theorems hold for every value, but for the promises to documented callers, each of which names the part
of the protocol it needs (`PreparationsLeftAlone`, `FinalizesReleased`, `ReleasesOnce`).

### WorkingSpaces

| Variable | Code |
| --- | --- |
| `spaces` | the `SpaceRecord`s: status, descriptor of a temporary space, shape, whether members are recorded, whether it is configured, fingerprint of the projection |
| `worksets` | the worksets of the OpenSpec tool, by the space they are named after |
| `calls` | `open`, `release`, `recover` and preparations in flight |
| `outdated` | calls whose observed generation another commit has passed |
| `disturbed` | history variable: spaces whose workset and record were separated by an event outside the protocol; read by properties only |

State document and worksets are two stores. `Load` is what `open`, `release` and `recover` read;
`Inspect` and `Refuse` compare the workset with the record, `ChangeWorkset` creates or removes it, and
`CommitChange` records that unless the generation has passed. `Resolve` and `Close` are
`resolve_session_space` and `close_temporary_session`, whose commits have nothing but reads before
them: the four attempts of the former add nothing to one that succeeds. A fingerprint is modelled as
what it is a fingerprint of. `create_space` and the finalization of a temporary space are left out: named
spaces without a workset have no part here, and `Leasing` has both operations. A shape stands for what a space associates and claims; `Folders` is what
`_projection_members` shows for it. `Edit` is the user of the OpenSpec tool.

What the model shows beside its properties: resolving reclaims the clean draft of another session that
is still active, and the draft keeps what that session claimed; `release`, `recover` and
`set_handoff_disposition` promote nothing, so a temporary space that was released stays temporary
until its session ends; a call that dies after it created a workset leaves one that no record owns, and
every later `open` refuses; and opening a space again whose shape or members changed records the
fingerprint of what it shows *now* for the workset made of what it showed *then*, after which every
`open`, `release` and `recover` refuses.

### Cohort and Reconciliation

| Variable | Code |
| --- | --- |
| `source`, `refs` | the generated branch and the branches of each repository; a commit is the set of changes it contains |
| `checkout` | the branch checked out where the destination is |
| `merging`, `rebasing` | a conflicted merge or rebase that the user has still to resolve |
| `present` | generated worktrees that exist |
| `records` | the `ReconciliationRecord`s |
| `calls` | `reconcile_apply` by caller: the next member, the strategy, the previewed commit, the result; the step `inspect` is between the merge and the reading of its result |

A call takes the members one by one in dependency order (`Upcoming`): `Preview`, `Check`, then `Merge`
or `Rebase` and `FastForward`, then `Inspect`, which reads the commit of whatever is checked out by then,
each a Git command of its own, and `Record`. `MergeConflict` and
`RebaseConflict` leave the repository in the state Git leaves it in. `Stop` is every way out: a refusal
of Git, a failed gate callback, a stale commit, a death. Between two commands the users commit
(`Drift`), switch branches (`Switch`) and resolve conflicts (`ResolveMerge`, `ResolveRebase`), and a
second call runs over the same members. `Cohort` is the promise: `Integrate` a member whose providers
are integrated, `Record` it only then, `Abandon`, and `Owe` everything again at a release. The
refinement maps `integrated` to the members whose work is in a branch of their repository. Work on the
generated branch ends with the release. The dependencies are fixed and every member is planned into the
branch `main`: a graph that grows between two reconciliations, and a second one planned into another
branch, are left out.

What is recorded as the result is in some branch always, and has the work and is in the planned
destination where nobody switches the checkout (`ResultIsThere`). Where somebody does, the code promises
neither: see [below](#where-the-code-departs-from-its-specifications).

What the model shows beside its properties: an abandoned member is merged all the same by the next reconciliation, and is reconciled then, because
every generated member needs a selection; cleaning up the worktree of a pending member makes the whole
cohort impossible to reconcile; and a rebase rewrites the generated branch, so that a death leaves it rebased and unmerged.

### ConfigurationRegistry

| Variable | Code |
| --- | --- |
| `registered`, `parent`, `generated` | registered repositories; the parent of each authority; the repositories with a generated member in a space |
| `temporary` | spaces that still are temporary |
| `packs`, `attachments`, `sources`, `roots`, `generation` | the configuration records and `configuration_generation` |
| `binding` | `bind_configuration_source` in flight: its request and where its document was located, or that its generation has passed |
| `bound` | what `bind_extension` handed to each client: plan, root directory, generation; and the checkouts and the chain of authorities that the plan was made with |

`bind_configuration_source` locates, reads and validates a document before it commits (`BeginBind`,
`CommitBind`, `RefuseBind`); every other operation is one commit, that of the topology included
(`RegisterRepository`, `RelateParent`; authorities are registered from the start). `Plan` is
`plan_configuration_sources`: machine, packs in their order, space, repository, authorities from the
outermost in; `Checkout` says whether a source is read in the space's generated worktree or in the
source checkout. `Count` is the configuration generation, which only changes of a record advance.
`Admissible` is the part of `validate_state` that concerns sources: their scopes exist, and sources of
one document are shared and have one codec.

The configuration generation counts commits of configuration records and nothing else. `relate_parent`
changes the chain of authorities that a plan follows and `_prepare_successor` the checkouts it reads, and
neither advances it: relate two authorities after an extension was bound to the inner one, and the
handle keeps its number while a new one would also read the sources of the outer. The specifications
promise the advance for persisted bindings only, so this contradicts no line of them; what the number
does tell is `GenerationTellsPlan`: one plan for one generation, one chain and the same checkouts.

What the model shows beside its properties: a source that was removed and bound again starts at
revision 0, so identifier and revision can mean two bindings; operations that repeat what is recorded
still advance the *state* generation and so outdate a binding in flight; the key of a document is its
kind, repository and path, so a repository registered around a document gives it a second key, which is
why `DocumentsAgree` speaks of sources recorded where their document is; and an extension bound
before a preparation keeps the paths of the source checkout.

### Invocations

| Variable | Code |
| --- | --- |
| `calls` | one invocation of each client: what its handler has still to write, what was written, what the mappings noted; of the last batch, what it wrote, what it collected, whether it needed a journal and what that names |
| `created`, `mtime` | the files in the `outcomes` directory: how many were made, and when each that is still there was last written |
| `clock` | the time of the last write |
| `since` | history variable: files written since a file was begun; read by properties only |

A handler writes configuration, data and cache in batches, in that order of stores; a write made at once
is a batch of one. `LeaveBlock` is the entry of `ManagedBatch.__exit__`; each write succeeds (`Write`),
fails (`WriteFails`), or is published and raises all the same because the reading after it fails
(`RefreshFails`): such a write is in the outcome and not in the journal, as `JournalTellsWrites` says. A
batch that fails journals what it collected (`Journal`), unless that cannot be created (`JournalFails`);
one whose last write is done returns (`BatchReturns`), and no later failure of the handler journals it.
Either way the handler has control again: it may catch what was raised and start another batch, return
or raise (`HandlerEnds`). The code's outcome lists the noted writes by store, the model's in the order
they were made; which writes are named is the same.

`_record_outcome` creates a file, fills it, lists the directory, looks at the time of each file and
removes the oldest, each a step of its own (`Stat` is one `stat`, in no particular order). A file that
cannot be filled is taken back by its own call (`FillFails`). No two times are the same; the code would
leave equal ones in the order they were listed. Two clients that prune at once fail over each other's
files, report that the outcome was not recorded although it was, and leave one too many. A client that
dies in a batch leaves no journal, and one that dies between `CreateOutcome` and `FillOutcome` an empty
outcome, which
`outcomes` cannot decode. What managed records hold is left out: they are read and replaced without a
lock, and the last writer wins.

### StateRepository and StateRegister

`StateRepository` has one action for each step of `mutate` and `atomic_write`: take the lock, read
and compare, transform, write the temporary file, rename, unlock; and for each way out: stale,
refused, failed write, time-out, death. Edits are toggles, so contents return to earlier values while
generations do not. `StateRegister` is the promise: `Observe`, `Commit` if the document is still the
observed one, `Forget`. The refinement maps `document` to `index` and a caller's snapshot to what it
observed until its rename; the rename is the commit.

### ConfigurationPublisher

| Variable | Code |
| --- | --- |
| `documents` | the configuration files: one mapping for each extension, as codec and layout project it |
| `lock` | the `FileLock` of each document's canonical path |
| `baseline` | `_baseline_selected` of a handle; `None` until it is bound |
| `calls` | the call in flight on each handle |

A handle is a `_ManagedConfiguration` with its bindings (`Sources`, `Writable`) and its validator
(`Accepted`). It has one call at a time, as an extension's code has; handles belong to different
threads or processes. Reading takes no lock, so a resolution reads its sources one by one
(`ReadSource`) and other handles publish in between. `set` and `delete` reach `_mutate`; under the lock
the document is read and compared (`Compare`, `Conflict`), all sources are read again for the validator
(`Validate`, `Invalid`), the file is replaced (`Publish`) or not (`PublicationFails`), and after the lock
is left the handle refreshes its baseline (`Unlock`, then a resolution). A rename makes the replacement
one step, as in `StateRepository`. A value is a member of a small set: types, nesting and Python's equality of `1` and `True` are not told
apart. Files change only through handles; a human edit while a write holds the lock is overwritten by
the code, and no promise covers it. The theorems put no bound on handles, documents or calls.

The validator guards one document at a time. Two handles of one extension that write different
documents hold different locks, and each is validated against what the other is about to replace:
both commit, and the effective configuration is one the validator never saw. `SoleSourceStaysAccepted`
is therefore stated for a mapping that is the only source of those who write it. The comparison uses
what the *handle* read last, and any lookup reads the whole mapping: a caller that reads `a`, later
reads `b`, and then sets `a` from the first reading replaces a competing value of `a` without a
conflict. `ReplacesWhatWasRead` states what the code compares.

## Runs

Bounds are the constants of the configurations; the state spaces are finite without a state
constraint, because topologies, successor names and debts can only grow to what the inputs offer.
`StateRepository` and `ConfigurationRegistry` bound their generations by `MaxGeneration`,
`Invocations` its outcomes by `MaxOutcomes`; `WorkingSpaces` lets the user edit a workset once and handle
the spaces of `Handled`, and `Reconciliation` confines drift and switching to `Drifting` and `Switched`.

| Run | Question | Bounds |
| --- | --- | --- |
| `graph_functions` | do the functions of `graph.py` compute what they mean, on every graph reached by accepted registrations? does the audit, or a destination, ever let two spaces meet? | 2 repositories, 3 authorities, every parent relation, 5 dependencies with chains, a cycle to refuse and both access roles; nested directories; checkouts of one name and a shared base, taken paths |
| `bootstrap` | does growth from an empty topology, mixed with every shaping call, lock, release and preparation, ever make two owners meet? does a reservation come to an end? | 1 repository, 2 nested authorities, 2 spaces, 1 call in flight; lock and prepare from every status, release what is locked; without `Abort` |
| `documented_lifecycle` | does the documented protocol keep its promises from draft to finalized? | 2 repositories, 3 authorities, 2 claims and a successor name; a parent and a dependency can arrive at any time |
| `any_status` | is one writer per authority kept, and generated work never lost, when operations are called from any status? does the inductive invariant of the proofs hold in every reachable state? | the same with the parent in place, so that the two claims conflict; lock, prepare, release and recover from every status, finalize from released; 2 calls in flight, symmetric |
| `working_spaces` | do sessions ever share, lose or discard what is durable? do workset and record ever part unnoticed? | 1 worktree, 2 sessions, 2 temporary names one of which a successor can take, 2 calls in flight, one shape that shows another folder once locked, one edit by the user for each space |
| `reconciliation` | is the order of a cohort kept, and is every result there, under overlap, conflict, drift and retry? | a consumer and its provider, both strategies, 2 overlapping calls; others commit to the provider's destination and switch branches in the consumer's |
| `configuration_registry` | do sources apply in the documented order, does a generation mean one plan, is a document recorded where it is and read with one codec? | 2 extensions, 2 packs, 2 spaces one of which associates both repositories, nested repositories, 2 authorities that are related at any time and either way, 6 bindings that share documents, differ in codec and move between scopes, 3 changes |
| `configuration_writes` | is an update ever lost, a sole source ever unacceptable, a lock ever kept? | 2 handles of one extension and 1 of another on a shared document, the latter with a second source below it; 2 keys, 1 value and its absence; validators that refuse some mappings |
| `invocations` | do outcome and journal tell what was written, whichever write or journal fails and whatever the handler does next? are recent outcomes kept? | 2 clients, plans of two batches: a single write and a batch over all stores, a batch that writes the configuration twice and a single write; 1 outcome retained, 3 invocations |
| `stale_isolation` | violated: does a locked space hold its closure? | as `documented_lifecycle` |
| `switched_checkout` | violated: is the work of a reconciled member in its destination? | as `reconciliation`, 1 call, switching in the consumer's repository |
| `state_repository` | is the file an atomic register, and is the lock always freed? | 3 callers, 1 edit, 4 generations: enough for a value to return while a caller still holds the first snapshot of it |

The bounds reach what matters: a claim whose closure crosses repositories (`a2` depends on `a3` in
another repository), a parent that makes two claims conflict after they were made, a topology that
grows before, during and after a preparation, a successor that is deferred behind a blocker, and a
second caller in the middle of all of that. In `working_spaces` one worktree suffices for a race, and
a second name for a successor that takes what looks like the next temporary one. In `reconciliation`
one dependency makes an order, and two calls make an overlap; a third member adds chains, which the
proof covers. In `configuration_registry` three changes are enough to record two sources and move one.
Two claims and one relation of each kind suffice for a
conflict; a third party adds interleavings, not a new kind of conflict, and the proofs cover any
number.

Deadlock checking is off where a system may stop: one whose spaces are finalized and whose inputs are
registered has nothing left to do, and the bounded ones stop at their bounds.

**Fairness.** `bootstrap` assumes weak fairness of the next step of a call in flight: a call is
a sequence of statements in one thread, so it keeps going. It also assumes that no call dies and that
the commit of a failure record is not itself stale; without either the promise is false, as
the next section says. `configuration_writes` assumes weak fairness of the steps a call takes
while it has its document's lock, for the same reason; it may also die there. `state_repository` assumes weak fairness of the steps of the caller
that holds the lock, or its death; no fairness is assumed for getting the lock.

## Where the code departs from its specifications

Two runs each violate one statement of `openspec/specs`, and TLC prints a shortest history:

- `stale_isolation` (`LockedHoldsPlan`): the topology grows during an isolation, and the successor is
  published `locked` with the closure of the old graph.
- `switched_checkout` (`ReconciledAtDestination`): `apply_integration` checks, merges and reads the result
  in three commands (`git_adapter.py` 271, 275 or 291, 294), and compares commits, not branches. A switch
  to another branch at the same commit between the first two has the work merged there, which is the
  history TLC prints; one between the last two has another branch's head recorded as the result, which is
  the exception that `ResultIsThere` makes. "Applying the accepted plan SHALL use only the recorded
  integration path".

Others are behaviours of the same actions and have no run of their own. Each can be seen by checking
the formula in brackets on the instance named:

- An unrelated growth *during* a deferral leaves the successor at an old graph generation;
  `_validate_graph_candidate` rebases only what is `deferred` already, so it can never be promoted
  (`documented_lifecycle`: a deferred space whose `Plan(s)` is `reservedPlan[s]` has `graphGeneration`).
- A process that dies in a preparation leaves `preparing` behind, which neither resumption nor rollback
  accepts (`any_status`: a space that is `preparing` is the space of a call).
- Of two concurrent `affect_add` calls that both succeed, one is lost (`bootstrap` with two clients: a
  step that ends an `affect_add` call removes no authority from a claim).
- `release` checks no status and rebuilds every debt record as pending (`lifecycle.py` 1397), so a second
  release of a released space undoes what was reconciled or abandoned (`documented_lifecycle` with
  `CallableFrom["release"]` `{"locked", "released"}`: `DebtOnlyAdvances`, after `Reserve`, `Publish`,
  `Release`, `AbandonMember`, `Release`).
- A repository that depends on an authority it hosts itself is its own provider in `dependency_order`,
  so its cohort can never be reconciled, although the graph is accepted (`Ready`, `Orderable`).

More can be read off the definitions: `lock` checks no status, so a
`preparation_failed` space can acquire (`Lock`, `CallableFrom`); a space that was never released has no
debt records and is finalized without a disposition once its worktrees are absent (`Disposed`); and
after a rollback that removed one artifact and retained another, the removed one counts as retained for
ever (`RemoveArtifacts`). The promotion checks of `lock` apply to status `deferred` only, so a successor
locked while it is still `preparing`, or again after a release, acquires without the handoff of its
blockers (`Promotable`, `Lock`). The sections of `WorkingSpaces`, `Reconciliation`,
`ConfigurationRegistry` and `Invocations` above name theirs.

## Proofs

`tlapm` checks everything below, in the eight modules named `*_proofs`. The theorems put no bound on
their constants beyond the assumption that each module states: any sets of repositories, authorities,
spaces, members, sessions and clients, and any inputs. They hold for every `CallableFrom`, except the
promises to documented callers: a hypothesis left of `⊢` names what those callers keep to. Of all
properties that the runs find to hold, only the three about liveness are not theorems.

| Theorem | Statement |
| --- | --- |
| *`AuthorityGraph_proofs`* | |
| `ClosuresAreLeast` | `FiniteGraph(graph) ⊢ HeldIsLeastClosure` |
| `AcceptedIsRanked` | `graph \in Graphs`, `FiniteGraph(graph)`, `ValidGraph(graph) ⊢ AcceptedGraphIsRanked` |
| `ConflictsAreShared` | the same `⊢ ConflictIsSharedSubtree` |
| `GrowthIsSound` | `GrowthSpec => [](HeldIsLeastClosure /\ AcceptedGraphIsRanked /\ ConflictIsSharedSubtree)` |
| `UnchangedSnapshot_ProtectsPair` | `GrowthSpec => UnchangedSnapshotProtectsPair` |
| `IndependentGrowth_KeepsSnapshot` | `KindsAreApart ⊢ GrowthSpec => IndependentGrowthKeepsSnapshot` |
| `AuditedChanges_AreDisjoint` | `GrowthSpec => []AuditedChangesAreDisjoint` |
| `Destinations_AreApart` | `GrowthSpec => []DestinationsAreApart` |
| *`Leasing_proofs`* | |
| `TypeCorrect` | `Spec => [](TypeOK /\ KnownEndpoints)` |
| `RegisteredGraphIsSound` | `Spec => [](HeldIsLeastClosure /\ AcceptedGraphIsRanked /\ ConflictIsSharedSubtree)` |
| `Exclusive` | `Spec => []ExclusiveAuthority` |
| `Accounted` | `Spec => []AccountedOrFrozen` |
| `LeasesStayWithinPlan` | `Spec => []LeasesWithinPlan` |
| `OnePreparer` | `Spec => []OnePreparerPerSuccessor` |
| `WorktreesRecorded` | `Spec => []WorktreesAreRecorded` |
| `InductiveAlways` | `Spec => []Inductive` |
| `ReleaseLeavesDebt` | `Spec => []ReleasedWorkIsOwed` |
| `LockedOwns` | `PreparationsLeftAlone`, `FinalizesReleased ⊢ Spec => []OnlyLockedOwns` |
| `FinalizationDisposes` | `PreparationsLeftAlone`, `FinalizesReleased ⊢ Spec => []FinalizedIsDisposed` |
| `PromotionIsFaithful` | `PreparationsLeftAlone ⊢ Spec => PromotionKeepsPlan` |
| `DebtAdvancesOnly` | `PreparationsLeftAlone`, `ReleasesOnce ⊢ Spec => DebtOnlyAdvances` |
| *`ConfigurationPublisher_proofs`* | |
| `PublisherTypes` | `Spec => []TypeOK` |
| `NoUpdateIsLost` | `Spec => ReplacesWhatWasRead` |
| `SoleSourceAccepted` | `Spec => SoleSourceStaysAccepted` |
| *`StateRepository_proofs`* | |
| `RepositoryTypes` | `Spec => []TypeOK` |
| `CommitsAreCurrent` | `Spec => []CommitSeesItsSnapshot` |
| `Refinement` | `Spec => ImplementsRegister` |
| *`WorkingSpaces_proofs`* | |
| `Typed` | `Spec => []TypeOK` |
| `Durable_IsKept` | `Spec => DurableIsKept` |
| `OneDraft_PerSession` | `Spec => []OneDraftPerSession` |
| `Temporary_CarriesNoEvidence` | `Spec => []TemporaryCarriesNoEvidence` |
| `Projection_MatchesRecord` | `Spec => []ProjectionMatchesRecord` |
| *`Reconciliation_proofs`* | |
| `ReconciliationTypes` | `Spec => []TypeOK` |
| `Result_IsThere` | `Spec => []ResultIsThere` |
| `Implements_Cohort` | `Spec => ImplementsCohort` |
| `Providers_AreThere` | `Spec => []Promise!ProvidersAreThere` |
| *`ConfigurationRegistry_proofs`* | |
| `RegistryTypes` | `Spec => []TypeOK` |
| `Recorded_WhereItIs` | `Spec => RecordedWhereItIs` |
| `Documents_Agree` | `Spec => []DocumentsAgree` |
| `Temporary_IsUnconfigured` | `Spec => []TemporaryIsUnconfigured` |
| `Generation_TellsPlan` | `Spec => []GenerationTellsPlan` |
| `Plan_FollowsScopes` | `Spec => []PlanFollowsScopes` |
| *`Invocations_proofs`* | |
| `InvocationTypes` | `Spec => []TypeOK` |
| `Outcome_TellsWrites` | `Spec => []OutcomeTellsWrites` |
| `Journal_TellsWrites` | `Spec => []JournalTellsWrites` |
| `RecentOutcomes_Survive` | `Spec => RecentOutcomesSurvive` |

*Why an induction needs more than exclusion.* `Publish` grants the held set that was resolved when the
successor was reserved, and looks for conflicts again in the present graph: that alone keeps exclusion
at that step. The delicate step is a growth of the topology. It compares, for each owner, the snapshot
before and after, and looks for conflicts of the owner's *plan*, whereas exclusion speaks about the
owner's *leases*. They agree only if a lease owner's leases are its recorded held set and that is its
plan: `PreservesOwner` checks the second, so the invariant must carry the first whenever the second
holds, which is `AccountedOrFrozen`. An isolated successor whose plan went stale violates the second
and so freezes the topology until it lets go. `AccountedOrFrozen` in turn needs that an owner's shape
does not change (`UnshapedOwnsNothing`: owners are past draft), that a call in flight prepares a space
of fixed shape that holds nothing or its whole plan (`PreparationsAccounted`), and that no second call
prepares the same one (`OnePreparerPerSuccessor`). `Inductive` is their conjunction, with the facts
about calls that the other theorems need; TLC checks it in `any_status`. This part of the proofs needs
only that snapshots are equal, not how they are computed.

*Leases within plans.* An owner may lease less than its plan, and a plan may change under it when the
topology grows. Claims change only where nothing is held, and a plan only grows, because closures grow
with their edges (`ReachGrows`): that is `LeasesStayWithinPlan`. `PreparationsWithinPlan` says the same
of the set that a preparation resolved at its reservation and grants at the end.

*Promises to documented callers.* While callers leave an unpublished preparation alone, its space stays
`preparing` until its own call ends (`CallsStand`): nobody else locks, releases or finalizes it, so
what the call publishes or gives up is all that happens to it (`LockedOwns`, `FinalizationDisposes`).
`PlansAreReserved` says that a successor at the present graph generation has the plan it was reserved
with; a growth either leaves that plan alone and takes the successor along, or leaves its generation
behind, and `lock` compares generations before it promotes. `DebtFollowsRelease` says that records of
debt are about a release; if nothing is released twice, no second release makes resolved ones pending.
`Documented` satisfies all of these hypotheses; the section on departures says what callers meet who do
not.

`KnownEndpoints` goes with type correctness because the repositories of a plan are known to be
repositories only if every dependency names a registered authority.

*The graph functions.* A loop of `graph.py` is a recursive function of the number of passes; that such a
function exists at all is the first thing to prove (`PassesExist`), by describing its values as what a
walk of so many edges reaches. A walk that visits as many nodes as there are targets of edges adds
nothing, so the last pass is closed, and it is the least closed set (`ReachIsLeast`, `ReachIsClosed`).
The library states induction for an operator parameter, which the provers cannot instantiate;
`NaturalInduction` states it for a set of numbers, and every induction here is over such a set. With
that, closures are least, a cycle is what cannot be ranked, and two claims conflict exactly when their
coverage shares an authority. The assumption is that the graph is finite, which every graph is that
registrations build (`SoundAlways`, and `RegisteredGraphIsSound` for the lifecycle).

`IndependentGrowth_KeepsSnapshot` argues that the relevant part of a graph is closed, and that a new
relation which starts outside it leads nowhere new from inside. It needs `KindsAreApart`, for the reason
given with `AuthorityGraph`. For destinations, `IterationExists` shows that the assignment over any order
is defined, a free suffix exists because finitely many are taken, and whatever the first successor got
is recorded when the second one looks (`PairIsApart`).

For managed configuration, `PublisherInv` adds to the types that a call past the lock has it
(`HoldersOwnLocks`), that from the comparison to the replacement the document is as it was read and the
key is as the handle last saw it (`ComparedIsPresent`), and that what is about to be published was
accepted (`CandidateIsAccepted`). Most steps leave their call without the lock and disturb no other
(`AwayInv`), or keep lock and documents (`HeldInv`); a publication changes one document, which no other
call past the lock can have (`PublishInv`). With one source the effective configuration is that source
(`SoleEffective`), so what was validated is what is published.

For the repository, `RepositoryInv` adds to the types that the holder of the lock is the caller between
taking and leaving it, that a snapshot is an earlier document or the present one (generations only grow,
so equal generations mean equal documents), and that from the check to the rename the index stands
still. The rename then refines `Commit`, a load `Observe`, every way out `Forget`, and the rest is a
stutter.

For temporary spaces the types carry most of it: a step makes a space temporary only where it is
absent, or has a descriptor already. `TemporaryCarriesNoEvidence` needs in addition that the successor
of a preparation in flight exists and is durable (`ReservedIsDurable`), for otherwise the end of that
preparation would lock a temporary space; that in turn follows from `DurableIsKept`.

For worksets nothing can be said of one call by itself: two removals that both found the workset may
take away the one that a preparation made in between. `WorksetInv` speaks of calls that are *alone*: a
call that changed a workset, whose generation has not passed, while no other call has an uncommitted
change of it. Of two such calls one commit makes the other's generation pass, and its end then disturbs
the space. If a call is alone the workset is what it is going to record; if there is none, the workset
is what is recorded (`AccountedPlain`); and while a preparation has made a workset that it has not
recorded, the workset is that one, and what is or will be recorded meanwhile is nothing
(`AccountedMade`). It rests on three facts: a call whose generation has not passed knows what is
recorded (`CallsKnowRecords`), an absent space has no projection (`AbsentIsBlank`), and no two calls
prepare one successor (`OnePreparation`).

For reconciliation the fact that carries everything is that branches only grow: whoever interferes,
changes are added to a branch and never taken away. `CallsAreSound` says of a call at each of its steps
what is in which branch: that every member it has done is integrated, and that a result it is going to
record is in a branch, and has the work where nobody switches. A member is merged when every member it depends on is done, or
is not of the cohort (`Ready`), so an integration maps to `Integrate`. `MergesAreUnblocked` carries the
same across a conflict that the user resolves after the call is over, and `SourcesHaveWork` across the
rewriting of the generated branch by a rebase. Between a merge and `Inspect` only the work is known to be in
a branch (`Arrived`); where nobody switches, the destination is what is checked out (`UnswitchedStay`), so
what is read is its head (`Held`).

For configuration records, `PendingIsLocated` says that a binding whose generation has not passed has
located its document among the repositories that are registered now, from which `RecordedWhereItIs`
follows; `LocationsAreShared` is the check of `validate_state` as an invariant, and two sources recorded
where their common document is have one location. `GenerationTellsPlan` needs that an attachment and a
source are recorded once (`AttachedOnce`), that bound generations have been reached (`BoundIsPast`), and
that a step that does not count changes no record that a plan or a root is made of. A chain can change
and change back, so the invariant (`BoundKeepsPlan`) says what the plan *would* be along the chain the
handle was bound with, whatever the present one is; `PlanIsAlong` leads back to the plan when the two are
the same.

`Plan_FollowsScopes` is about a list that is put together in four steps: packs in their order, the
lineage of an authority, the sources of each scope in theirs, and the whole flattened. `RecordsPlain`
says of the records that they are finite, typed and of one identifier each. That a finite set can be
listed in order at all is proved by counting predecessors (`PlacesExist`, `SortedLists`); the
flattening of a list of lists keeps the order between and within the lists (`FlattenKeepsOrder`); and
an authority's lineage has exactly those that contain it, outermost first (`LineagesAre`). Each of these is
defined recursively, and exists by induction; the lineage because containment has no cycle, which is an
invariant (`Contained`): a relationship that is accepted leaves every authority a depth
(`RelateContained`). `Sorted` picks one of the listings of a set where a library would call a sorting
procedure, of which the provers know nothing.

For invocations, `HandlersTell` says of a call in every step what was written and noted so far, and what
its last batch wrote, collected and journalled, from which `Outcome_TellsWrites` and `Journal_TellsWrites` follow. That recent
outcomes survive is a matter of clients who list, look and remove at their own pace. `NewerIsSince`
ties times to the order of writes. `ListingsInOrder` says it of what a call has *seen*, by the times it
saw, by the present ones, and of one against the other, for a file may be rewritten between two looks.
When the listing is complete, whatever exceeds the retention has that many newer files, and they were
written since it was begun (`ExcessIsOld`); time only adds to that, so it still holds when the file is
removed.

For cohorts, `Providers_AreThere` is a fact about the abstract specification, and reaches
`reconcile_apply` through the refinement: that is what the refinement is for.

*Only model-checked:* liveness, which is beyond the proof system: `PreparationEnds`, `LocksAreLeft` and
`LockIsReleased`. The counterexamples to `LockedHoldsPlan` and
`ReconciledAtDestination` are TLC's as well.

## What is not modelled

- What changes are: files, conflicts and their resolution. A commit is a set of changes, and Git may
  refuse whatever it is asked. How `git worktree add` chooses between a new, a local and a remote
  branch is left to it (`_worktree_request`).
- `plan_rollback`, which is a predicate on one artifact, and `resume_preparation`, which only reports:
  `Leasing` lets a rollback retain any artifact.
- The dispatch of reconciliation callbacks, except that a gate can stop a call (`Stop`).
- Direct bindings of a document (`bind_extension_document`, `initialize_extension_document`) and the
  creation of a new document (`ConfigurationPublisher.initialize`): they keep no state of their own and
  bypass the registry.
- The contents of managed records, and the codecs for TOML, YAML and JSON.
- The registration checks of extensions (`extension.py`, `_validate_extensions`), the JSON format of the
  state file, the command line, wording of results and errors: conversions and checks without state.
- Power failures that lose a synced rename.

## Plan

What would add most, in this order:

1. Properties for what can go wrong and has none yet: a second writer of another document of the same
   extension, a lost `affect_add`, a rollback that fails half way, a process that dies in a preparation.
   For each the promise that callers may rely on has to be found first; the section on departures says
   what does not hold.
2. Initialization of a document next to `ConfigurationPublisher`, with the crash that leaves half of it.
3. Reconciliation callbacks and their outcomes, composed of `Reconciliation` and `Invocations`.
