--------------------------- MODULE WorkingSpaces ----------------------------
(***************************************************************************)
(* Temporary spaces of host sessions, and the OpenSpec worksets that show  *)
(* spaces: lifecycle.py (resolve_session_space, close_temporary_session,   *)
(* open, release, recover, the workset of _prepare_successor),             *)
(* core/temporary_spaces.py and utils/ownership.py.                        *)
(*                                                                         *)
(* The state document and the worksets of the OpenSpec tool are two        *)
(* stores.  open, release, recover and a preparation change a workset      *)
(* first and commit the record of it afterwards, against the generation    *)
(* they loaded: every commit in between makes theirs fail, and `outdated`  *)
(* holds the calls to which that has happened.  Which authorities a space  *)
(* can lease is the matter of Leasing; here a lock is granted or not.      *)
(***************************************************************************)
EXTENDS Integers, FiniteSets

CONSTANTS
    Repositories,
    Worktrees,      \* of registered repositories
    RepositoryOf,   \* the repository of a worktree
    Sessions,       \* fingerprints of host-session tokens
    Successors,     \* names for prepared successors
    MaxTemporary,   \* bound: temporary names of one repository
    Handled,        \* bound: spaces the user shapes, configures, edits the workset of
    Clients,        \* callers that can have an operation in flight
    Shapes,         \* what a space associates and claims
    Bare,           \* the shape of a new space, which claims nothing
    Views,          \* ordered folders of a workset
    Folders,        \* what a shape shows without and with recorded members
    Foreign,        \* contents that OpenLease did not write
    None

TemporaryNames == Repositories \X (1 .. MaxTemporary)

Spaces == TemporaryNames \cup Successors

ASSUME WorkingAssumption ==
    /\ RepositoryOf \in [Worktrees -> Repositories]
    /\ MaxTemporary \in Nat
    /\ Bare \notin Shapes
    /\ Folders \in [Shapes \X BOOLEAN -> Views]
    /\ Foreign \notin Views
    /\ None \notin Views \cup {Foreign} \cup [worktree : Worktrees, session : Sessions]

VARIABLES
    spaces,     \* the space records
    worksets,   \* the workset named after each space
    calls,      \* the operation in flight of each client
    outdated,   \* clients whose observed generation has passed
    disturbed   \* history: spaces whose workset and record were separated by
                \* an edit, an interruption or a reopening; nothing reads it

vars == <<spaces, worksets, calls, outdated, disturbed>>

Statuses == {"draft", "locked", "released", "preparing", "preparation_failed", "deferred"}

Descriptors == [worktree : Worktrees, session : Sessions]

SpaceRecords ==
    [status     : Statuses \cup {"absent"},
     temporary  : Descriptors \cup {None},
     shape      : Shapes \cup {Bare},
     members    : BOOLEAN,              \* members are recorded
     configured : BOOLEAN,              \* has a source or a pack of its own
     projection : Views \cup {None}]    \* the fingerprint, as what it is of

NoSpace ==
    [status |-> "absent", temporary |-> None, shape |-> Bare, members |-> FALSE,
     configured |-> FALSE, projection |-> None]

Idle == [op |-> "idle"]

\* open, and what release and recover have in common after loading: what was
\* loaded, and where the call is.
ProjectionCalls ==
    [op : {"open", "remove"}, step : {"inspect", "change", "commit"},
     space : Spaces, recorded : Views \cup {None}, view : Views \cup {None}]

\* A preparation: the successor and the workset that was made for it.
PrepareCalls ==
    [op : {"prepare"}, step : {"create", "publish", "fail"}, space : Spaces,
     view : Views, created : BOOLEAN]

TypeOK ==
    /\ spaces \in [Spaces -> SpaceRecords]
    /\ worksets \in [Spaces -> Views \cup {Foreign, None}]
    /\ calls \in [Clients -> {Idle} \cup ProjectionCalls \cup PrepareCalls]
    /\ outdated \in SUBSET Clients
    /\ disturbed \in SUBSET Spaces

Init ==
    /\ spaces = [s \in Spaces |-> NoSpace]
    /\ worksets = [s \in Spaces |-> None]
    /\ calls = [c \in Clients |-> Idle]
    /\ outdated = {}
    /\ disturbed = {}

-----------------------------------------------------------------------------
Exists(s) == spaces[s].status # "absent"

\* The calls whose commit will compare generations.
Observers == {c \in Clients : calls[c] \in ProjectionCalls}

\* _projection_members; a space that claims nothing has no plan to show.
View(s) == Folders[<<spaces[s].shape, spaces[s].members>>]

Plannable(s) == Exists(s) /\ spaces[s].shape # Bare

\* A commit of an operation that is one step here.
Commit(s, record) ==
    /\ spaces' = [spaces EXCEPT ![s] = record]
    /\ outdated' = Observers
    /\ UNCHANGED <<worksets, calls, disturbed>>

-----------------------------------------------------------------------------
(* Host sessions.                                                          *)

Matches(s, w) == spaces[s].temporary # None /\ spaces[s].temporary.worktree = w

Owns(session, s) == spaces[s].temporary # None /\ spaces[s].temporary.session = session

\* is_disposable_temporary_space: a temporary draft that nothing is kept for.
\* (A draft that was never locked or prepared has no lease, no generated
\* member, no artifact, no blocker, no disposition and no debt.)
Disposable(s) ==
    /\ spaces[s].temporary # None
    /\ spaces[s].status = "draft"
    /\ spaces[s].projection = None
    /\ ~spaces[s].configured

\* Mutant: only the names of temporary spaces are taken.
NextName_Temporary(r) ==
    {<<r, i>> : i \in {j \in 1 .. MaxTemporary :
        /\ spaces[<<r, j>>].temporary = None
        /\ \A k \in 1 .. j - 1 : spaces[<<r, k>>].temporary # None}}

\* next_temporary_space_identifier: the least free number.
NextName(r) ==
    {<<r, i>> : i \in {j \in 1 .. MaxTemporary :
        ~Exists(<<r, j>>) /\ \A k \in 1 .. j - 1 : Exists(<<r, k>>)}}

Descriptor(session, w) == [worktree |-> w, session |-> session]

\* Mutant: the session's own space is not looked for.
Known_Never(session, w) == FALSE

\* The session has its space already.
Known(session, w) == \E s \in Spaces : Matches(s, w) /\ Owns(session, s)

\* resolve_session_space where it changes something: a disposable space of
\* the worktree, whoever's it is, changes hands, or a new one is made.
Resolve(session, w) ==
    LET reclaimable == {s \in Spaces : Matches(s, w) /\ Disposable(s)}
    IN  /\ ~Known(session, w)
        /\ \/ \E s \in reclaimable :
                 Commit(s, [spaces[s] EXCEPT !.temporary = Descriptor(session, w)])
           \/ /\ reclaimable = {}
              /\ \E s \in NextName(RepositoryOf[w]) :
                    Commit(s, [NoSpace EXCEPT !.status = "draft",
                                              !.temporary = Descriptor(session, w)])

\* close_temporary_session: what is disposable goes, the rest is promoted.
Close(session) ==
    /\ \E s \in Spaces : Owns(session, s)
    /\ spaces' = [s \in Spaces |->
          CASE ~Owns(session, s) -> spaces[s]
            [] Owns(session, s) /\ Disposable(s)  -> NoSpace
            [] Owns(session, s) /\ ~Disposable(s) -> [spaces[s] EXCEPT !.temporary = None]]
    /\ outdated' = Observers
    /\ UNCHANGED <<worksets, calls, disturbed>>

-----------------------------------------------------------------------------
(* Operations that prepare, load and commit in one step.                   *)

\* associate, set_affected, affect_add, affect_remove.
Reshape(s, shape) ==
    /\ spaces[s].status = "draft" /\ s \in Handled
    /\ Commit(s, [spaces[s] EXCEPT !.shape = shape])

\* attach_configuration_pack, and bind_configuration_source for a space.
Configure(s) ==
    /\ Exists(s) /\ s \in Handled
    /\ Commit(s, [spaces[s] EXCEPT !.configured = TRUE, !.temporary = None])

\* detach_configuration_pack and remove_configuration_source, the last one.
Unconfigure(s) ==
    /\ spaces[s].configured
    /\ Commit(s, [spaces[s] EXCEPT !.configured = FALSE])

Locked(s) == [spaces[s] EXCEPT !.status = "locked", !.members = TRUE, !.temporary = None]

\* lock, when no other space is in the way.
Lock(s) == Plannable(s) /\ Commit(s, Locked(s))

-----------------------------------------------------------------------------
(* open, release and recover.                                              *)

\* release audits the plan, and so does whoever compares a recorded workset.
Loadable(op, s) ==
    /\ Exists(s)
    /\ (op # "recover" \/ spaces[s].projection # None) => Plannable(s)

Load(c, op, s) ==
    /\ calls[c] = Idle
    /\ Loadable(op, s)
    /\ calls' = [calls EXCEPT ![c] =
          [op |-> IF op = "open" THEN op ELSE "remove", step |-> "inspect", space |-> s,
           recorded |-> spaces[s].projection,
           view |-> IF op = "open" THEN View(s) ELSE None]]
    /\ UNCHANGED <<spaces, worksets, outdated, disturbed>>

InStep(c, step) == calls[c] \in ProjectionCalls /\ calls[c].step = step

Advance(c, step) == calls' = [calls EXCEPT ![c].step = step]

\* The call ends, and changes nothing more.
End(c) == calls' = [calls EXCEPT ![c] = Idle] /\ outdated' = outdated \ {c}

\* inspect_projection: the workset is the recorded one.
Current(c) == calls[c].recorded # None /\ worksets[calls[c].space] = calls[c].recorded

\* Neither a record nor a workset.
Absent(c) == calls[c].recorded = None /\ worksets[calls[c].space] = None

\* A recorded workset is to be removed, a missing one to be made.
Inspect(c) ==
    /\ InStep(c, "inspect")
    /\ \/ /\ IF calls[c].op = "open" THEN Absent(c) ELSE Current(c)
          /\ Advance(c, "change")
       \/ /\ IF calls[c].op = "open" THEN Current(c) ELSE calls[c].recorded = None
          /\ Advance(c, "commit")
    /\ UNCHANGED <<spaces, worksets, outdated, disturbed>>

\* OwnershipConflict: it is modified, gone, or someone else's.
Refuse(c) ==
    /\ InStep(c, "inspect")
    /\ ~Current(c)
    /\ calls[c].recorded = None => calls[c].op = "open" /\ ~Absent(c)
    /\ End(c)
    /\ UNCHANGED <<spaces, worksets, disturbed>>

\* The tool makes a workset of a free name, and removes one that is there.
ChangeWorkset(c) ==
    LET s == calls[c].space
    IN  /\ InStep(c, "change")
        /\ \/ /\ calls[c].op = "open" /\ worksets[s] = None
              /\ worksets' = [worksets EXCEPT ![s] = calls[c].view]
           \/ /\ calls[c].op # "open" /\ worksets[s] # None
              /\ worksets' = [worksets EXCEPT ![s] = None]
        /\ Advance(c, "commit")
        /\ UNCHANGED <<spaces, outdated, disturbed>>

ToolFails(c) ==
    /\ InStep(c, "change")
    /\ End(c)
    /\ UNCHANGED <<spaces, worksets, disturbed>>

\* The call has made or removed the workset of its space.
Changed(c) ==
    /\ InStep(c, "commit")
    /\ calls[c].op = "open" <=> calls[c].recorded = None

\* Mutant: opening leaves the space to its session.
Outcome_Temporary(c) ==
    LET space == spaces[calls[c].space]
    IN  IF calls[c].op = "open"
          THEN [space EXCEPT !.projection = calls[c].view]
          ELSE [space EXCEPT !.status = "released", !.projection = None]

\* What the call commits.  An opened space is promoted; a released one is not.
Outcome(c) ==
    LET space == spaces[calls[c].space]
    IN  IF calls[c].op = "open"
          THEN [space EXCEPT !.projection = calls[c].view, !.temporary = None]
          ELSE [space EXCEPT !.status = "released", !.projection = None]

\* Mutant: the generation is not compared.
UpToDate_Always(c) == TRUE

UpToDate(c) == c \notin outdated

\* open records what the space shows now, also when it found a workset that
\* was made of what the space showed before.
CommitChange(c) ==
    /\ InStep(c, "commit")
    /\ UpToDate(c)
    /\ spaces' = [spaces EXCEPT ![calls[c].space] = Outcome(c)]
    /\ calls' = [calls EXCEPT ![c] = Idle]
    /\ outdated' = Observers \ {c}
    /\ disturbed' = IF ~Changed(c) /\ calls[c].recorded # Outcome(c).projection
                      THEN disturbed \cup {calls[c].space} ELSE disturbed
    /\ UNCHANGED worksets

-----------------------------------------------------------------------------
(* The workset of a prepared successor.                                    *)

Reserve(c, s, successor) ==
    /\ calls[c] = Idle
    /\ Plannable(s)
    /\ ~Exists(successor)
    /\ spaces' = [spaces EXCEPT ![successor] =
          [NoSpace EXCEPT !.status = "preparing", !.shape = spaces[s].shape, !.members = TRUE]]
    /\ calls' = [calls EXCEPT ![c] =
          [op |-> "prepare", step |-> "create", space |-> successor,
           view |-> Folders[<<spaces[s].shape, TRUE>>], created |-> FALSE]]
    /\ outdated' = Observers
    /\ UNCHANGED <<worksets, disturbed>>

Preparing(c, step) == calls[c] \in PrepareCalls /\ calls[c].step = step

CreateWorkset(c) ==
    /\ Preparing(c, "create")
    /\ worksets[calls[c].space] = None
    /\ worksets' = [worksets EXCEPT ![calls[c].space] = calls[c].view]
    /\ calls' = [calls EXCEPT ![c].step = "publish", ![c].created = TRUE]
    /\ UNCHANGED <<spaces, outdated, disturbed>>

\* A worktree or the workset cannot be made, or publication is refused.
PreparationFails(c) ==
    /\ Preparing(c, "create") \/ Preparing(c, "publish")
    /\ Advance(c, "fail")
    /\ UNCHANGED <<spaces, worksets, outdated, disturbed>>

\* The record after publication or failure; both load it anew.
Prepared(c, status) ==
    [spaces[calls[c].space] EXCEPT
        !.status = status,
        !.projection = IF calls[c].created THEN calls[c].view ELSE @]

\* How the preparation can end from here.
Ends(c) ==
    CASE Preparing(c, "publish") -> {"locked", "deferred"}
      [] Preparing(c, "fail")    -> {"preparation_failed"}
      [] OTHER                   -> {}

EndPreparation(c) ==
    /\ \E status \in Ends(c) : spaces' = [spaces EXCEPT ![calls[c].space] = Prepared(c, status)]
    /\ calls' = [calls EXCEPT ![c] = Idle]
    /\ outdated' = Observers \ {c}
    /\ UNCHANGED <<worksets, disturbed>>

-----------------------------------------------------------------------------
\* The call has changed a workset and not committed that.
Unrecorded(c) == Changed(c) \/ (calls[c] \in PrepareCalls /\ calls[c].created)

\* The process dies, its commit is stale, or the file lock times out.
Abort(c) ==
    /\ calls[c] # Idle
    /\ End(c)
    /\ disturbed' = IF Unrecorded(c) THEN disturbed \cup {calls[c].space} ELSE disturbed
    /\ UNCHANGED <<spaces, worksets>>

\* The user removes or changes a workset with the OpenSpec tool.
Edit(s) ==
    /\ s \in Handled \ disturbed    \* bound: once
    /\ \E content \in {Foreign, None} :
          /\ worksets[s] # content
          /\ worksets' = [worksets EXCEPT ![s] = content]
    /\ disturbed' = disturbed \cup {s}
    /\ UNCHANGED <<spaces, calls, outdated>>

Continue(c) ==
    \/ Inspect(c)
    \/ Refuse(c)
    \/ ChangeWorkset(c)
    \/ ToolFails(c)
    \/ CommitChange(c)
    \/ CreateWorkset(c)
    \/ PreparationFails(c)
    \/ EndPreparation(c)
    \/ Abort(c)

Next ==
    \/ \E session \in Sessions :
          \/ Close(session)
          \/ \E w \in Worktrees : Resolve(session, w)
    \/ \E s \in Spaces :
          \/ \E shape \in Shapes \cup {Bare} : Reshape(s, shape)
          \/ Configure(s) \/ Unconfigure(s) \/ Lock(s) \/ Edit(s)
          \/ \E c \in Clients :
                \/ \E op \in {"open", "release", "recover"} : Load(c, op, s)
                \/ \E successor \in Successors : Reserve(c, s, successor)
    \/ \E c \in Clients : Continue(c)

Spec == Init /\ [][Next]_vars

-----------------------------------------------------------------------------
(* However sessions race for a worktree, reclaim, close and promote, one   *)
(* session never has two temporary spaces for the same worktree            *)
(* (resolve_session_space would select either).                            *)
OneDraftPerSession ==
    \A s, t \in Spaces :
        spaces[s].temporary # None /\ spaces[s].temporary = spaces[t].temporary => s = t

(* A space that a session can still lose to another session or to its own  *)
(* end has no lease, no recorded workset and no configuration: whichever   *)
(* operation gave it one promoted it in the same commit.                   *)
TemporaryCarriesNoEvidence ==
    \A s \in Spaces :
        spaces[s].temporary # None =>
            /\ spaces[s].status \in {"draft", "released"}
            /\ spaces[s].projection = None
            /\ ~spaces[s].configured

(* A durable space is never taken over by a session and never removed, by  *)
(* reclamation, by the end of a session or by a call that loaded it        *)
(* while it was temporary.                                                 *)
DurableIsKept ==
    [][\A s \in Spaces :
          Exists(s) /\ spaces[s].temporary = None
            => Exists(s)' /\ spaces'[s].temporary = None]_vars

Unsettled(s) == \E c \in Clients : calls[c] # Idle /\ calls[c].space = s /\ Unrecorded(c)

(* Between operations the record of a space and its workset agree, also    *)
(* that there is none: no interleaving of opening, releasing, recovering   *)
(* and preparing separates them, except by the events that `disturbed`     *)
(* names - an edit by the user, an end between the change of a workset and *)
(* its commit, and a reopening after the space changed shape.              *)
ProjectionMatchesRecord ==
    \A s \in Spaces :
        s \notin disturbed /\ ~Unsettled(s) => worksets[s] = spaces[s].projection
=============================================================================
