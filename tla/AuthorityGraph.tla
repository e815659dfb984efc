--------------------------- MODULE AuthorityGraph ---------------------------
(***************************************************************************)
(* The pure functions of core/graph.py: the structural validation of an    *)
(* authority graph, the writable closure of an affected claim, hierarchical*)
(* lease conflicts, and the snapshot of the part of the graph that a space *)
(* depends on.                                                             *)
(*                                                                         *)
(* A graph is a record of four sets.  The code keeps tuples of frozen      *)
(* records; their order never reaches a result, because every result is    *)
(* sorted.  Paths are left to BoundaryAudit and Preparation; common        *)
(* directories and store identifiers decide nothing here.                  *)
(***************************************************************************)
EXTENDS Naturals, FiniteSets

CONSTANTS
    Repositories,   \* identifiers a repository can be registered under
    Authorities     \* identifiers an authority can be registered under

Access == {"read_only", "writable"}

AuthorityRecords   == [identifier : Authorities, repository : Repositories]
ParentRelations    == [child : Authorities, parent : Authorities]
DependencyRelations ==
    [consumer : Repositories \cup Authorities,
     authority : Authorities, access : Access]

Graphs == [repositories : SUBSET Repositories,
           authorities  : SUBSET AuthorityRecords,
           parents      : SUBSET ParentRelations,
           dependencies : SUBSET DependencyRelations]

EmptyGraph ==
    [repositories |-> {}, authorities |-> {}, parents |-> {}, dependencies |-> {}]

Claims == [repositories : SUBSET Repositories, authorities : SUBSET Authorities]

EmptyClaim == [repositories |-> {}, authorities |-> {}]

Identifiers(g) == {x.identifier : x \in g.authorities}

\* The repository that hosts a registered authority.
Host(g, a) == (CHOOSE x \in g.authorities : x.identifier = a).repository

-----------------------------------------------------------------------------
(* Reachability: every `while changed` loop of graph.py is one.            *)

\* One pass of such a loop: the nodes that an edge adds.
Successors(edges, nodes) == {e[2] : e \in {x \in edges : x[1] \in nodes}}

\* The nodes reached from roots, roots included.  Every pass but the last
\* adds a node, so as many passes as there are edges reach the fixpoint.
Reach(edges, roots) ==
    LET grown[k \in Nat] ==
          IF k = 0 THEN roots
          ELSE LET before == grown[k - 1] IN before \cup Successors(edges, before)
    IN  grown[Cardinality(edges)]

ContainmentEdges(g) == {<<p.child, p.parent>> : p \in g.parents}

\* Mutant: the depth-first search follows containment instead of dependencies.
DependencyEdges_Containment(g) == ContainmentEdges(g)

\* A repository is never the target of a dependency, so only the edges
\* between authorities can close a cycle.
DependencyEdges(g) ==
    {<<d.consumer, d.authority>> : d \in {x \in g.dependencies : x.consumer \in Identifiers(g)}}

\* The authorities that contain a, nearest or not.
Ancestors(g, a) ==
    LET up == ContainmentEdges(g) IN Reach(up, Successors(up, {a}))

-----------------------------------------------------------------------------
(* validate_graph.                                                         *)

UniqueAuthorities(g) ==
    \A x, y \in g.authorities : x.identifier = y.identifier => x = y

ContainmentIsForest(g) ==
    /\ \A p \in g.parents : {p.child, p.parent} \subseteq Identifiers(g)
    /\ \A p, q \in g.parents : p.child = q.child => p = q
    /\ \A p \in g.parents : p.child \notin Ancestors(g, p.child)

DependenciesAreAcyclic(g) ==
    LET edges == DependencyEdges(g)
    IN  /\ \A d \in g.dependencies :
              /\ d.consumer \in g.repositories \cup Identifiers(g)
              /\ d.authority \in Identifiers(g)
        /\ \A a \in Identifiers(g) : a \notin Reach(edges, Successors(edges, {a}))

ValidGraph(g) ==
    /\ UniqueAuthorities(g)
    /\ ContainmentIsForest(g)
    /\ DependenciesAreAcyclic(g)

-----------------------------------------------------------------------------
(* resolve_affected_claim.                                                 *)

WritableEdges(g) ==
    {<<d.consumer, d.authority>> : d \in {x \in g.dependencies : x.access = "writable"}}

KnownClaim(g, claim) ==
    /\ claim.repositories \subseteq g.repositories
    /\ claim.authorities \subseteq Identifiers(g)

\* Mutant: only the dependencies of the claimed targets are followed.
HeldAuthorities_OneHop(g, claim) ==
    claim.authorities
      \cup Successors(WritableEdges(g), claim.repositories \cup claim.authorities)

\* The authorities an accepted claim must hold.
HeldAuthorities(g, claim) ==
    LET nodes == Reach(WritableEdges(g), claim.repositories \cup claim.authorities)
    IN  claim.authorities \cup Successors(WritableEdges(g), nodes)

\* The repositories in which the claimed work happens.
WorkRepositories(g, claim) ==
    claim.repositories \cup {Host(g, a) : a \in HeldAuthorities(g, claim)}

-----------------------------------------------------------------------------
(* conflicting_leases.                                                     *)

\* Mutant: only a request below a leased ancestor conflicts.
Conflicting_Downwards(g, leased, requested) ==
    \/ leased = requested
    \/ leased \in Ancestors(g, requested)

Conflicting(g, leased, requested) ==
    \/ leased = requested
    \/ leased \in Ancestors(g, requested)
    \/ requested \in Ancestors(g, leased)

\* Every authority whose lease would conflict with holding `held`.
Coverage(g, held) ==
    {a \in Identifiers(g) : \E h \in held : Conflicting(g, a, h)}

-----------------------------------------------------------------------------
(* snapshot_space_graph: the plan, the relevant part of the graph and the  *)
(* conflict coverage of one space.                                         *)

\* Relevance spreads both ways along containment, from a consumer to what it
\* depends on, and from an authority to its host.
RelevanceEdges(g) ==
    ContainmentEdges(g)
      \cup {<<p.parent, p.child>> : p \in g.parents}
      \cup {<<d.consumer, d.authority>> : d \in g.dependencies}
      \cup {<<x.identifier, x.repository>> : x \in g.authorities}

Relevant(g, associated, claim) ==
    Reach(RelevanceEdges(g),
          associated \cup WorkRepositories(g, claim) \cup HeldAuthorities(g, claim)
            \cup {x.identifier : x \in {y \in g.authorities : y.repository \in associated}})

\* Mutant: only the resolved plan is compared.
SpaceSnapshot_PlanOnly(g, associated, claim) == HeldAuthorities(g, claim)

\* Mutant: the whole graph is compared.
SpaceSnapshot_WholeGraph(g, associated, claim) == g

SpaceSnapshot(g, associated, claim) ==
    LET nodes == Relevant(g, associated, claim)
    IN  [held         |-> HeldAuthorities(g, claim),
         work         |-> WorkRepositories(g, claim),
         repositories |-> g.repositories \cap nodes,
         authorities  |-> {x \in g.authorities : x.identifier \in nodes},
         parents      |-> {p \in g.parents : p.child \in nodes \/ p.parent \in nodes},
         dependencies |-> {d \in g.dependencies : d.consumer \in nodes},
         coverage     |-> Coverage(g, HeldAuthorities(g, claim))]
=============================================================================
