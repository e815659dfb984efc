-------------------------- MODULE RegisteredGraph ---------------------------
(***************************************************************************)
(* The registered graph, and what the functions of AuthorityGraph mean for *)
(* it, by definitions that share nothing with the loops of the code.       *)
(***************************************************************************)
EXTENDS AuthorityGraph

VARIABLE
    graph       \* repositories, authorities, parents, dependencies

\* A claim's closure by definition: the smallest set of authorities that
\* contains the claim and that no writable dependency leaves.
ClosedHold(claim, held) ==
    /\ claim.authorities \subseteq held
    /\ \A d \in graph.dependencies :
          d.access = "writable" /\ d.consumer \in claim.repositories \cup held
            => d.authority \in held

(* The loop of resolve_affected_claim computes the least closed set for    *)
(* every claim on every accepted graph: neither an authority too few nor   *)
(* one too many is ever leased.                                            *)
HeldIsLeastClosure ==
    \A claim \in {c \in Claims : KnownClaim(graph, c)} :
        LET held == HeldAuthorities(graph, claim)
        IN  /\ ClosedHold(claim, held)
            /\ \A other \in SUBSET Authorities : ClosedHold(claim, other) => held \subseteq other

\* A relation between registered authorities has no cycle when they can be
\* ranked along it.
Ranked(edges) ==
    \E rank \in [Identifiers(graph) -> 0 .. Cardinality(Identifiers(graph)) - 1] :
        \A e \in edges : rank[e[1]] < rank[e[2]]

(* validate_graph lets no cycle of containment and none of authority       *)
(* dependencies through, whatever the order of registration.               *)
AcceptedGraphIsRanked ==
    /\ Ranked({<<p.child, p.parent>> : p \in graph.parents})
    /\ Ranked({<<d.consumer, d.authority>> :
                  d \in {x \in graph.dependencies : x.consumer \in Identifiers(graph)}})

\* The authorities that a lease on a covers: the least set with a that is
\* closed under children.
CoveredBy(a) ==
    {b \in Authorities :
        \A S \in SUBSET Authorities :
            a \in S /\ (\A p \in graph.parents : p.parent \in S => p.child \in S) => b \in S}

(* Two leases conflict exactly when the subtrees they cover share an       *)
(* authority (hierarchical authority exclusion): parents block children    *)
(* both ways and siblings never block each other.                          *)
ConflictIsSharedSubtree ==
    \A a, b \in Identifiers(graph) :
        Conflicting(graph, a, b) <=> CoveredBy(a) \cap CoveredBy(b) # {}
=============================================================================
