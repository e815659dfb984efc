----------------------------- MODULE MCLeasing ------------------------------
EXTENDS LeasingProperties, TLC

CONSTANTS r1, r2, a1, a2, a3, s1, s2, t, c1, c2

MCRepositories == {r1, r2}
MCAuthorities  == {a1, a2, a3}
MCSpaces       == {s1, s2, t}
MCClients      == {c1}

MCAuthorityInputs ==
    {[identifier |-> a1, repository |-> r1],
     [identifier |-> a2, repository |-> r1],
     [identifier |-> a3, repository |-> r2]}

MCParentInputs == {[child |-> a2, parent |-> a1]}

MCDependencyInputs == {[consumer |-> a2, authority |-> a3, access |-> "writable"]}

\* One repository that hosts a root authority and a nested one.
MonorepoInputs ==
    {[identifier |-> a1, repository |-> r1], [identifier |-> a2, repository |-> r1]}

MonorepoDependencies == {[consumer |-> r1, authority |-> a2, access |-> "writable"]}

MCClaimInputs == {[repositories |-> {}, authorities |-> {a}] : a \in {a1, a2}}

\* The code as it is.
AnyStatus == [op \in UncheckedOperations |-> Statuses]

\* A call that finalizes comes last.
AnyUntilFinalized == [AnyStatus EXCEPT !["finalize"] = {"released"}]

Documented ==
    [op \in UncheckedOperations |->
        CASE op = "lock"     -> {"draft", "deferred"}
          [] op = "release"  -> {"locked"}
          [] op = "recover"  -> {"locked"}
          [] op = "finalize" -> {"released"}
          [] op = "prepare"  -> {"draft"}]

\* Callers that lock and prepare from any status and release what is locked.
Contending ==
    [op \in UncheckedOperations |->
        CASE op \in {"lock", "prepare"} -> Statuses
          [] op = "release" -> {"locked"}
          [] OTHER -> {}]

\* The topology is partly registered, and the spaces have declared claims.
SeedGraph ==
    [repositories |-> {r1, r2},
     authorities  |-> MCAuthorityInputs,
     parents      |-> {},
     dependencies |-> {}]

Draft(claimed) ==
    [NoSpace EXCEPT !.status = "draft", !.associated = {r1},
                    !.claim = [repositories |-> {}, authorities |-> claimed]]

SeededInit ==
    /\ graph = SeedGraph
    /\ graphGeneration = 5
    /\ spaces = [s \in Spaces |-> CASE s = s1 -> Draft({a1}) [] s = s2 -> Draft({a2}) [] OTHER -> NoSpace]
    /\ leases = {}
    /\ debts = [s \in Spaces |-> [r \in Repositories |-> "none"]]
    /\ worktrees = {}
    /\ calls = [c \in Clients |-> Idle]
    /\ reservedPlan = [s \in Spaces |-> {}]

\* The two claimed authorities conflict from the start.
NestedInit ==
    /\ graph = [SeedGraph EXCEPT !.parents = MCParentInputs]
    /\ graphGeneration = 6
    /\ spaces = [s \in Spaces |-> CASE s = s1 -> Draft({a1}) [] s = s2 -> Draft({a2}) [] OTHER -> NoSpace]
    /\ leases = {}
    /\ debts = [s \in Spaces |-> [r \in Repositories |-> "none"]]
    /\ worktrees = {}
    /\ calls = [c \in Clients |-> Idle]
    /\ reservedPlan = [s \in Spaces |-> {}]

NestedSpec == NestedInit /\ [][Next]_vars

SeededSpec == SeededInit /\ [][Next]_vars

\* No call dies: every client keeps taking the steps of its call.
LiveNext == Topology \/ Shape \/ Leases \/ \E c \in Clients : Start(c) \/ Continue(c)

LiveSpec == Init /\ [][LiveNext]_vars /\ \A c \in Clients : WF_vars(Continue(c))

Interchangeable == Permutations(Clients)
=============================================================================
