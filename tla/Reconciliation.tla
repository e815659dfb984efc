--------------------------- MODULE Reconciliation ---------------------------
(***************************************************************************)
(* The reconciliation of one released space, with the Git history it works *)
(* on: lifecycle.py (reconcile_plan, reconcile_apply, abandon_member,      *)
(* cleanup_worktree, release), core/reconciliation.py and                  *)
(* utils/git_adapter.py (preview_integration, apply_integration).          *)
(*                                                                         *)
(* A commit is the set of changes it contains.  Git, an extension's        *)
(* callback or the state file can refuse whenever a call asks them, and a  *)
(* process can die: Stop.  Between any two commands of a call its user,    *)
(* other people and a second call act on the same repositories.            *)
(***************************************************************************)
EXTENDS Naturals

CONSTANTS
    Members,        \* repositories of the generated members
    Dependencies,   \* pairs of a consumer and its provider: state.dependencies
    Callers,
    Strategies,     \* that callers select, of "merge" and "rebase"
    Drifting,       \* bound: members whose destination others commit to
    Switched,       \* bound: members whose destination checkout is switched
    None

Changes == {"work", "upstream"}

Commits == SUBSET Changes

ASSUME ReconciliationAssumption ==
    /\ Dependencies \subseteq Members \X Members
    /\ Strategies \subseteq {"merge", "rebase"}
    /\ Drifting \cup Switched \subseteq Members
    /\ \A commit \in Commits : commit # None

\* The branches of a repository: the destination that callers name, and
\* another one.
Branches == {"main", "side"}

VARIABLES
    source,     \* the branch of each generated member
    refs,       \* the branches of each repository
    checkout,   \* the branch in the destination checkout
    merging,    \* what a conflicted merge there is merging
    rebasing,   \* what a conflicted rebase of the source is going onto
    present,    \* members whose generated worktree exists
    records,    \* the reconciliation records
    calls       \* reconcile_apply, by caller

git == <<source, refs, checkout, merging, rebasing, present>>

vars == <<git, records, calls>>

Records ==
    [status : {"none", "pending", "reconciled", "abandoned"}, result : {None} \cup Commits]

NoRecord == [status |-> "none", result |-> None]

Idle == [step |-> "idle"]

Calls ==
    [step : {"preview", "check", "merge", "rebase", "forward", "inspect", "record"},
     remaining : SUBSET Members, member : Members \cup {None}, strategy : {None} \cup Strategies,
     destination : {None} \cup Commits, result : {None} \cup Commits]

TypeOK ==
    /\ source \in [Members -> Commits]
    /\ refs \in [Members -> [Branches -> Commits]]
    /\ checkout \in [Members -> Branches]
    /\ merging \in [Members -> {None} \cup Commits]
    /\ rebasing \in [Members -> {None} \cup Commits]
    /\ present \in SUBSET Members
    /\ records \in [Members -> Records]
    /\ calls \in [Callers -> {Idle} \cup Calls]

Init ==
    /\ source = [r \in Members |-> {"work"}]
    /\ refs = [r \in Members |-> [b \in Branches |-> {}]]
    /\ checkout = [r \in Members |-> "main"]
    /\ merging = [r \in Members |-> None]
    /\ rebasing = [r \in Members |-> None]
    /\ present = Members
    /\ records = [r \in Members |-> NoRecord]
    /\ calls = [c \in Callers |-> Idle]

-----------------------------------------------------------------------------
(* reconcile_apply.                                                        *)

\* The commit of the destination checkout.
Head(r) == refs[r][checkout[r]]

\* Mutant: the order is that of the names.
Ready_Unordered(remaining) == remaining

\* dependency_order: the members none of whose providers remain.
Ready(remaining) ==
    {r \in remaining : \A provider \in remaining : <<r, provider>> \notin Dependencies}

\* A call with members to integrate.
Upcoming(remaining) ==
    [step |-> "preview", remaining |-> remaining, member |-> None,
     strategy |-> None, destination |-> None, result |-> None]

\* reconcile_plan, which wants every worktree for its audit of boundaries and
\* an order of all the members.
Begin(c) ==
    /\ calls[c] = Idle
    /\ present = Members
    /\ \A remaining \in SUBSET Members \ {{}} : Ready(remaining) # {}
    /\ calls' = [calls EXCEPT ![c] = Upcoming(Members)]
    /\ UNCHANGED <<git, records>>

At(c, step) == calls[c] # Idle /\ calls[c].step = step

\* preview_integration of the next member, with the strategy selected for it;
\* its callbacks then run.
Preview(c) ==
    /\ At(c, "preview")
    /\ \E r \in Ready(calls[c].remaining), strategy \in Strategies :
          calls' = [calls EXCEPT ![c].step = "check", ![c].member = r,
                                 ![c].strategy = strategy,
                                 ![c].destination = refs[r]["main"]]
    /\ UNCHANGED <<git, records>>

\* apply_integration: the checkout is clean, the destination is where it was
\* previewed, and so is the checkout - by commit, whatever its branch.  The
\* checkout is inspected a command before the destination, which at that
\* moment was where it is now and at the preview, for it only gains changes.
Check(c) ==
    LET r == calls[c].member
    IN  /\ At(c, "check")
        /\ merging[r] = None
        /\ refs[r]["main"] = calls[c].destination
        /\ Head(r) = calls[c].destination
        /\ calls[c].strategy = "rebase" => rebasing[r] = None /\ r \in present
        /\ calls' = [calls EXCEPT ![c].step = calls[c].strategy]
        /\ UNCHANGED <<git, records>>

Diverged(a, b) == ~(a \subseteq b) /\ ~(b \subseteq a)

\* git merge, in the checkout as it is now.
Merge(c) ==
    LET r == calls[c].member
        merged == Head(r) \cup source[r]
    IN  /\ At(c, "merge")
        /\ merging[r] = None
        /\ refs' = [refs EXCEPT ![r][checkout[r]] = merged]
        /\ calls' = [calls EXCEPT ![c].step = "inspect", ![c].destination = None]
        /\ UNCHANGED <<source, checkout, merging, rebasing, present, records>>

\* Mutant: the exit code is not looked at.
MergeConflict_Ignored(c) ==
    LET r == calls[c].member
    IN  /\ At(c, "merge")
        /\ merging[r] = None
        /\ Diverged(Head(r), source[r])
        /\ merging' = [merging EXCEPT ![r] = source[r]]
        /\ calls' = [calls EXCEPT ![c].step = "inspect", ![c].destination = None]
        /\ UNCHANGED <<source, refs, checkout, rebasing, present, records>>

MergeConflict(c) ==
    LET r == calls[c].member
    IN  /\ At(c, "merge")
        /\ merging[r] = None
        /\ Diverged(Head(r), source[r])
        /\ merging' = [merging EXCEPT ![r] = source[r]]
        /\ calls' = [calls EXCEPT ![c] = Idle]
        /\ UNCHANGED <<source, refs, checkout, rebasing, present, records>>

\* git rebase of the source onto the destination that was checked.
Rebase(c) ==
    LET r == calls[c].member
    IN  /\ At(c, "rebase")
        /\ rebasing[r] = None /\ r \in present
        /\ source' = [source EXCEPT ![r] = @ \cup calls[c].destination]
        /\ calls' = [calls EXCEPT ![c].step = "forward"]
        /\ UNCHANGED <<refs, checkout, merging, rebasing, present, records>>

RebaseConflict(c) ==
    LET r == calls[c].member
    IN  /\ At(c, "rebase")
        /\ rebasing[r] = None /\ r \in present
        /\ Diverged(calls[c].destination, source[r])
        /\ rebasing' = [rebasing EXCEPT ![r] = calls[c].destination]
        /\ calls' = [calls EXCEPT ![c] = Idle]
        /\ UNCHANGED <<source, refs, checkout, merging, present, records>>

\* git merge --ff-only: nothing to do, or the checkout is behind the source.
FastForward(c) ==
    LET r == calls[c].member
        merged == Head(r) \cup source[r]
    IN  /\ At(c, "forward")
        /\ merging[r] = None
        /\ ~Diverged(Head(r), source[r])
        /\ refs' = [refs EXCEPT ![r][checkout[r]] = merged]
        /\ calls' = [calls EXCEPT ![c].step = "inspect", ![c].destination = None]
        /\ UNCHANGED <<source, checkout, merging, rebasing, present, records>>

\* The result is the commit that the checkout is at by then.
Inspect(c) ==
    /\ At(c, "inspect")
    /\ calls' = [calls EXCEPT ![c].step = "record", ![c].result = Head(calls[c].member)]
    /\ UNCHANGED <<git, records>>

\* The commit of a member's result.  A member without a record gets none, and
\* an abandoned one is taken up again.
Record(c) ==
    LET r == calls[c].member
        left == calls[c].remaining \ {r}
    IN  /\ At(c, "record")
        /\ records' = [records EXCEPT ![r] =
              IF @.status = "none" THEN @
              ELSE [status |-> "reconciled", result |-> calls[c].result]]
        /\ calls' = [calls EXCEPT ![c] = IF left = {} THEN Idle ELSE Upcoming(left)]
        /\ UNCHANGED git

\* A gate, a check or a command fails, the commit is stale, or the process
\* dies.  The callbacks after a member and after the cohort stop nothing.
Stop(c) ==
    /\ calls[c] # Idle
    /\ calls' = [calls EXCEPT ![c] = Idle]
    /\ UNCHANGED <<git, records>>

-----------------------------------------------------------------------------
(* Other operations on the cohort.                                         *)

\* release, also of a space that is released already.
Release ==
    /\ records' = [r \in Members |-> [NoRecord EXCEPT !.status = "pending"]]
    /\ UNCHANGED <<git, calls>>

AbandonMember(r) ==
    /\ records[r].status # "none"
    /\ records' = [records EXCEPT ![r].status = "abandoned"]
    /\ UNCHANGED <<git, calls>>

\* The worktree goes and the branch stays.
CleanupWorktree(r) ==
    /\ r \in present /\ rebasing[r] = None
    /\ present' = present \ {r}
    /\ UNCHANGED <<source, refs, checkout, merging, rebasing, records, calls>>

-----------------------------------------------------------------------------
(* The user and other people.                                              *)

Drift(r) ==
    /\ r \in Drifting /\ merging[r] = None
    /\ refs' = [refs EXCEPT ![r]["main"] = @ \cup {"upstream"}]
    /\ UNCHANGED <<source, checkout, merging, rebasing, present, records, calls>>

Switch(r) ==
    /\ r \in Switched /\ merging[r] = None
    /\ \E b \in Branches \ {checkout[r]} : checkout' = [checkout EXCEPT ![r] = b]
    /\ UNCHANGED <<source, refs, merging, rebasing, present, records, calls>>

\* A conflict is resolved, or the attempt is given up.
ResolveMerge(r) ==
    /\ merging[r] # None
    /\ refs' \in {refs, [refs EXCEPT ![r][checkout[r]] = @ \cup merging[r]]}
    /\ merging' = [merging EXCEPT ![r] = None]
    /\ UNCHANGED <<source, checkout, rebasing, present, records, calls>>

ResolveRebase(r) ==
    /\ rebasing[r] # None
    /\ source' \in {source, [source EXCEPT ![r] = @ \cup rebasing[r]]}
    /\ rebasing' = [rebasing EXCEPT ![r] = None]
    /\ UNCHANGED <<refs, checkout, merging, present, records, calls>>

Apply(c) ==
    \/ Begin(c)
    \/ Preview(c)
    \/ Check(c)
    \/ Merge(c)
    \/ MergeConflict(c)
    \/ Rebase(c)
    \/ RebaseConflict(c)
    \/ FastForward(c)
    \/ Inspect(c)
    \/ Record(c)
    \/ Stop(c)

Next ==
    \/ \E c \in Callers : Apply(c)
    \/ Release
    \/ \E r \in Members :
          \/ AbandonMember(r)
          \/ CleanupWorktree(r)
          \/ Drift(r)
          \/ Switch(r)
          \/ ResolveMerge(r)
          \/ ResolveRebase(r)

Spec == Init /\ [][Next]_vars

-----------------------------------------------------------------------------
\* Members whose released work is in a branch of their repository.
Integrated == {r \in Members : \E b \in Branches : "work" \in refs[r][b]}

Promise == INSTANCE Cohort WITH
    integrated <- Integrated,
    status <- [r \in Members |-> records[r].status]

(* Whatever stops a call, whoever interferes, and whichever calls overlap, *)
(* the work of a consumer reaches its repository after that of its         *)
(* providers - also through a conflict the user resolves - and a record    *)
(* says reconciled only of work that is there.                             *)
ImplementsCohort == Promise!Spec

(* Some branch of the repository contains the result of a reconciled       *)
(* record.  Where nobody switches the destination checkout the selected    *)
(* destination does, and the result contains the released work: no         *)
(* conflict, retry, drift or second call leaves a record of less.          *)
ResultIsThere ==
    \A r \in Members :
        records[r].status = "reconciled" =>
            /\ \E b \in Branches : records[r].result \subseteq refs[r][b]
            /\ r \notin Switched =>
                  /\ "work" \in records[r].result
                  /\ records[r].result \subseteq refs[r]["main"]

-----------------------------------------------------------------------------
(* A statement of the specifications that the code does not keep.          *)

(* "Applying the accepted plan SHALL use only the recorded integration     *)
(* path": the work of a member recorded as reconciled is in the            *)
(* destination that its record names.                                      *)
ReconciledAtDestination ==
    \A r \in Members : records[r].status = "reconciled" => "work" \in refs[r]["main"]
=============================================================================
