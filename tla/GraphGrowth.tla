---------------------------- MODULE GraphGrowth -----------------------------
(***************************************************************************)
(* Every graph that registrations can build, one accepted registration at  *)
(* a time, and what its growth and the audit of changed paths promise to   *)
(* the spaces that work in it.                                             *)
(***************************************************************************)
EXTENDS RegisteredGraph, BoundaryAudit, Preparation

CONSTANTS
    Hosted,     \* the authority records that callers register
    Related,    \* the dependencies that callers relate
    Shapes,     \* what the spaces of the properties associate and claim
    Bases,      \* None and the worktree bases that callers configure
    Strange,    \* paths that are taken without OpenLease
    Listings    \* what Git can list as worktrees, by repository

ASSUME GrowthAssumption ==
    /\ Hosted \subseteq AuthorityRecords
    /\ Related \subseteq DependencyRelations
    /\ Shapes \subseteq [associated : SUBSET Repositories, claim : Claims]
    /\ IsFiniteSet(Strange)
    /\ Listings \subseteq [Repositories -> SUBSET Strange]

Accept(candidate) == candidate # graph /\ ValidGraph(candidate) /\ graph' = candidate

AddRepository ==
    \E r \in Repositories : Accept([graph EXCEPT !.repositories = @ \cup {r}])

AddAuthority ==
    \E x \in Hosted :
        /\ x.repository \in graph.repositories
        /\ Accept([graph EXCEPT !.authorities = @ \cup {x}])

AddParent ==
    \E p \in ParentRelations : Accept([graph EXCEPT !.parents = @ \cup {p}])

AddDependency ==
    \E d \in Related : Accept([graph EXCEPT !.dependencies = @ \cup {d}])

Growth == AddRepository \/ AddAuthority \/ AddParent \/ AddDependency

GrowthSpec == graph = EmptyGraph /\ [][Growth]_graph

-----------------------------------------------------------------------------
\* Everything that the space associates or claims is registered.
Known(shape) ==
    shape.associated \subseteq graph.repositories /\ KnownClaim(graph, shape.claim)

SnapshotOf(g, shape) == SpaceSnapshot(g, shape.associated, shape.claim)

\* Two spaces can hold their closures side by side.
Compatible(g, one, other) ==
    \A a \in HeldAuthorities(g, one.claim), b \in HeldAuthorities(g, other.claim) :
        ~Conflicting(g, a, b)

(* Of two spaces that hold authorities without a conflict, at most one can *)
(* have changed a path inside an authority's directory and pass the audit, *)
(* also where directories are nested and their authorities are unrelated.  *)
AuditedChangesAreDisjoint ==
    \A one, other \in {s \in Shapes : Known(s)} :
        Compatible(graph, one, other) =>
            \A x \in Changes :
                /\ BoundarySafe(graph, HeldAuthorities(graph, one.claim), {x})
                /\ BoundarySafe(graph, HeldAuthorities(graph, other.claim), {x})
                => \A a \in Identifiers(graph) : Host(graph, a) = x.repository => ~Matches(a, x.path)

(* When a growth of the graph leaves one space's snapshot as it was, that  *)
(* space still conflicts with no space it was compatible with, provided    *)
(* that space's closure is also as it was: the snapshot comparison of      *)
(* _validate_graph_candidate alone already protects every pair of lease    *)
(* owners.                                                                 *)
UnchangedSnapshotProtectsPair ==
    [][\A one, other \in {s \in Shapes : Known(s)} :
          /\ SnapshotOf(graph, one) = SnapshotOf(graph', one)
          /\ HeldAuthorities(graph, other.claim) = HeldAuthorities(graph', other.claim)
          /\ Compatible(graph, one, other)
          => Compatible(graph', one, other)]_graph

\* What a step adds to: the ends of its parents, the consumers of its
\* dependencies and the hosts of its authorities.
Touched ==
    UNION ({{p.child, p.parent} : p \in graph'.parents \ graph.parents}
             \cup {{d.consumer} : d \in graph'.dependencies \ graph.dependencies}
             \cup {{x.repository} : x \in graph'.authorities \ graph.authorities})

\* No identifier is both a repository's and an authority's, which the code
\* does not demand: snapshot_space_graph keeps the two kinds apart, and the one
\* set Relevant stands for both only where they cannot be confused.
KindsAreApart == Repositories \cap Authorities = {}

(* A growth that touches nothing in the relevant part of a space's graph   *)
(* leaves the space's snapshot as it was ("accept an independent authority *)
(* component").                                                            *)
IndependentGrowthKeepsSnapshot ==
    [][\A s \in {x \in Shapes : Known(x)} :
          Touched \cap Relevant(graph, s.associated, s.claim) = {} =>
              SnapshotOf(graph, s) = SnapshotOf(graph', s)]_graph

\* The orders in which plan_preparation can come to the repositories that a
\* space works in: it sorts them by their identifiers.
Orders == UNION {SetToSeqs(WorkRepositories(graph, s.claim)) : s \in {x \in Shapes : Known(x)}}

(* A successor's worktrees and those of any later successor, which may     *)
(* work in the same repositories, have destinations of their own that      *)
(* nothing lies at and that Git does not list for their repository: also   *)
(* when checkouts have one name and one base, when the two callers have    *)
(* configured different bases, and when the first worktrees are gone and   *)
(* only named by a record.                                                 *)
DestinationsAreApart ==
    \A order, after \in Orders, base, later \in Bases :
        \A disk \in SUBSET Strange, listed \in Listings, gone \in BOOLEAN :
            LET first   == Generated(order, base, Occupied(ToSet(order), base, {}, disk, listed))
                named   == DestinationsOf(first)
                present == IF gone THEN disk ELSE disk \cup named
                second  == Generated(after, later,
                               Occupied(ToSet(after), later, named, present, listed))
            IN  /\ IsInjective(Placement(first))
                /\ IsInjective(Placement(second))
                /\ DestinationsOf(second) \cap named = {}
                /\ \A k \in DOMAIN first :
                      first[k].destination \notin disk \cup listed[first[k].repository]
                /\ \A k \in DOMAIN second :
                      second[k].destination \notin present \cup listed[second[k].repository]
=============================================================================
