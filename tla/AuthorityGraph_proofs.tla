----------------------- MODULE AuthorityGraph_proofs ------------------------
(***************************************************************************)
(* Proofs that the loops of core/graph.py compute what they mean: least    *)
(* closures, on every finite graph, for any repositories and authorities.  *)
(*                                                                         *)
(* Reach is a recursive function.  That there is one is shown by the walks *)
(* along the edges, and what its passes preserve by induction over a set   *)
(* of naturals, which needs no operator as a parameter.                    *)
(***************************************************************************)
EXTENDS GraphGrowth, FiniteSetTheorems, WellFoundedInduction, TLAPS

(* A set of naturals that is not empty has a least element.                *)
LEMMA LeastNatural ==
    ASSUME NEW S \in SUBSET Nat, S # {}
    PROVE  \E m \in S : \A n \in S : m <= n
<1> DEFINE less == OpToRel(<, Nat)
<1>1. IsWellFoundedOn(less, Nat)
  BY NatLessThanWellFounded
<1>2. PICK m \in S : \A n \in S : ~ (<<n, m>> \in less)
  <2> HIDE DEF less
  <2> QED
    BY <1>1, WFMin
<1>3. less = {ss \in Nat \X Nat : ss[1] < ss[2]}
  BY DEF OpToRel
<1>4. \A n \in S : n < m => <<n, m>> \in less
  BY <1>3
<1>5. \A n \in S : ~ (n < m)
  <2> HIDE DEF less
  <2> QED
    BY <1>2, <1>4
<1> QED
  BY <1>5

(* Induction over the members of a set.                                    *)
LEMMA NaturalInduction ==
    ASSUME NEW S, 0 \in S, \A n \in Nat : n \in S => n + 1 \in S
    PROVE  \A n \in Nat : n \in S
<1> SUFFICES ASSUME NEW x \in Nat, x \notin S
             PROVE  FALSE
  OBVIOUS
<1> DEFINE missing == {n \in Nat : n \notin S}
<1>1. PICK m \in missing : \A n \in missing : m <= n
  <2>1. missing \in SUBSET Nat /\ missing # {}
    OBVIOUS
  <2> HIDE DEF missing
  <2> QED
    BY <2>1, LeastNatural
<1>2. m # 0 /\ m - 1 \in Nat
  OBVIOUS
<1>3. m - 1 \in S
  BY <1>1, <1>2
<1> QED
  BY <1>2, <1>3

-----------------------------------------------------------------------------
(* The loop of the closures.                                               *)

\* g[k] are the nodes after k passes.
Passes(edges, roots, g) ==
    g = [k \in Nat |-> IF k = 0 THEN roots
                       ELSE LET before == g[k - 1] IN before \cup Successors(edges, before)]

LEMMA ReachIsPass ==
    ASSUME NEW edges, NEW roots
    PROVE  Reach(edges, roots) = (CHOOSE g : Passes(edges, roots, g))[Cardinality(edges)]
  BY DEF Reach, Passes

(* The successors of a set are those of its members.                       *)
LEMMA SuccessorsOfMembers ==
    ASSUME NEW edges, NEW nodes
    PROVE  /\ \A x : x \in Successors(edges, nodes) <=>
                        \E n \in nodes : x \in Successors(edges, {n})
           /\ \A n, x : x \in Successors(edges, {n}) <=>
                        \E e \in edges : e[1] = n /\ e[2] = x
           /\ Successors(edges, nodes) \subseteq {e[2] : e \in edges}
  BY DEF Successors

\* A walk of k steps from a root, which may stand still.
Walks(edges, roots, k) ==
    {p \in [0 .. k -> roots \cup {e[2] : e \in edges}] :
        /\ p[0] \in roots
        /\ \A i \in 1 .. k : p[i] = p[i - 1] \/ p[i] \in Successors(edges, {p[i - 1]})}

Walked(edges, roots) == [k \in Nat |-> {p[k] : p \in Walks(edges, roots, k)}]

(* The ends of the walks are what the passes of the loop collect: so there *)
(* is a function that satisfies the recursive definition.                  *)
LEMMA WalkedPasses ==
    ASSUME NEW edges, NEW roots
    PROVE  Passes(edges, roots, Walked(edges, roots))
<1> DEFINE nodes == roots \cup {e[2] : e \in edges}
           W(k) == Walks(edges, roots, k)
           g == Walked(edges, roots)
<1>1. g = [k \in Nat |-> g[k]] /\ \A k \in Nat : g[k] = {p[k] : p \in W(k)}
  BY DEF Walked
<1>2. g[0] = roots
  <2>1. ASSUME NEW x \in roots
        PROVE  x \in g[0]
    <3> DEFINE p == [i \in 0 .. 0 |-> x]
    <3>1. p \in W(0) /\ p[0] = x
      BY DEF Walks
    <3> QED
      BY <1>1, <3>1
  <2>2. ASSUME NEW x \in g[0]
        PROVE  x \in roots
    BY <1>1 DEF Walks
  <2> QED
    BY <2>1, <2>2
<1>3. ASSUME NEW k \in Nat, k # 0
      PROVE  g[k] = g[k - 1] \cup Successors(edges, g[k - 1])
  <2>0. k - 1 \in Nat
    BY <1>3
  <2>1. ASSUME NEW x \in g[k]
        PROVE  x \in g[k - 1] \cup Successors(edges, g[k - 1])
    <3>1. PICK p \in W(k) : p[k] = x
      BY <1>1
    <3> DEFINE q == [i \in 0 .. k - 1 |-> p[i]]
    <3>2. q \in [0 .. k - 1 -> nodes]
      BY <1>3, <3>1 DEF Walks
    <3>3. q[0] \in roots
      BY <1>3, <3>1 DEF Walks
    <3>4. \A i \in 1 .. k - 1 : q[i] = q[i - 1] \/ q[i] \in Successors(edges, {q[i - 1]})
      BY <1>3, <3>1 DEF Walks
    <3>5. q \in W(k - 1)
      <4> HIDE DEF q
      <4> QED
        BY <3>2, <3>3, <3>4 DEF Walks
    <3>6. q[k - 1] = p[k - 1]
      BY <1>3
    <3>7. p[k - 1] \in g[k - 1]
      <4> HIDE DEF q, g
      <4> QED
        BY <1>1, <2>0, <3>5, <3>6
    <3>8. x = p[k - 1] \/ x \in Successors(edges, {p[k - 1]})
      BY <1>3, <3>1 DEF Walks
    <3> HIDE DEF g
    <3> QED
      BY <3>7, <3>8, SuccessorsOfMembers
  <2>2. ASSUME NEW n \in g[k - 1], NEW x, x = n \/ x \in Successors(edges, {n})
        PROVE  x \in g[k]
    <3>1. PICK p \in W(k - 1) : p[k - 1] = n
      BY <1>1, <2>0
    <3>2. x \in nodes
      <4>1. n \in nodes
        BY <2>0, <3>1 DEF Walks
      <4> QED
        BY <2>2, <4>1, SuccessorsOfMembers
    <3> DEFINE q == [i \in 0 .. k |-> IF i = k THEN x ELSE p[i]]
    <3>3. q \in [0 .. k -> nodes]
      BY <1>3, <3>1, <3>2 DEF Walks
    <3>4. q[0] \in roots
      BY <1>3, <3>1 DEF Walks
    <3>5. q[k] = x /\ \A i \in 0 .. k - 1 : q[i] = p[i]
      BY <1>3
    <3> HIDE DEF q
    <3>6. ASSUME NEW i \in 1 .. k
          PROVE  q[i] = q[i - 1] \/ q[i] \in Successors(edges, {q[i - 1]})
      <4>1. CASE i = k
        BY <1>3, <2>2, <3>1, <3>5, <4>1
      <4>2. CASE i # k
        <5>1. i \in 1 .. k - 1 /\ i \in 0 .. k - 1 /\ i - 1 \in 0 .. k - 1
          BY <1>3, <4>2
        <5>2. p[i] = p[i - 1] \/ p[i] \in Successors(edges, {p[i - 1]})
          BY <3>1, <5>1 DEF Walks
        <5> QED
          BY <3>5, <5>1, <5>2
      <4> QED
        BY <4>1, <4>2
    <3>7. q \in W(k)
      BY <3>3, <3>4, <3>6 DEF Walks
    <3> QED
      BY <1>1, <3>5, <3>7
  <2> HIDE DEF g
  <2> QED
    BY <2>1, <2>2, SuccessorsOfMembers
<1> SUFFICES Passes(edges, roots, g)
  OBVIOUS
<1> HIDE DEF g
<1>4. \A k \in Nat :
        g[k] = IF k = 0 THEN roots ELSE LET before == g[k - 1] IN before \cup Successors(edges, before)
  BY <1>2, <1>3
<1> QED
  BY <1>1, <1>4 DEF Passes

LEMMA SuccessorsGrow ==
    ASSUME NEW edges, NEW more, edges \subseteq more, NEW nodes, NEW others, nodes \subseteq others
    PROVE  Successors(edges, nodes) \subseteq Successors(more, others)
  BY DEF Successors

Collects(g, edges, roots) ==
    /\ g[0] = roots
    /\ \A k \in Nat : g[k + 1] = g[k] \cup Successors(edges, g[k])

(* There is what the passes of the loop collect, and Reach is what they    *)
(* have collected after as many as there are edges.                        *)
LEMMA PassesExist ==
    ASSUME NEW edges, NEW roots
    PROVE  \E g : Collects(g, edges, roots) /\ Reach(edges, roots) = g[Cardinality(edges)]
<1> DEFINE g == CHOOSE h : Passes(edges, roots, h)
<1>1. Reach(edges, roots) = g[Cardinality(edges)]
  BY ReachIsPass
<1>2. Passes(edges, roots, g)
  BY WalkedPasses
<1> HIDE DEF g
<1>3. \A k \in Nat : g[k] = IF k = 0 THEN roots
                            ELSE LET before == g[k - 1] IN before \cup Successors(edges, before)
  BY <1>2 DEF Passes
<1>4. g[0] = roots
  BY <1>3
<1>5. ASSUME NEW k \in Nat
      PROVE  g[k + 1] = g[k] \cup Successors(edges, g[k])
  <2>1. k + 1 \in Nat /\ k + 1 # 0 /\ (k + 1) - 1 = k
    OBVIOUS
  <2> QED
    BY <1>3, <2>1
<1>6. Collects(g, edges, roots)
  BY <1>4, <1>5 DEF Collects
<1> QED
  BY <1>1, <1>6

\* No edge leaves the nodes.
ClosedUnder(edges, nodes) == Successors(edges, nodes) \subseteq nodes

(* What is reached is in every closed set with the roots.                  *)
LEMMA ReachIsLeast ==
    ASSUME NEW edges, IsFiniteSet(edges), NEW roots, NEW nodes,
           roots \subseteq nodes, ClosedUnder(edges, nodes)
    PROVE  Reach(edges, roots) \subseteq nodes
<1>0. PICK g : Collects(g, edges, roots) /\ Reach(edges, roots) = g[Cardinality(edges)]
  BY PassesExist
<1>1. /\ Reach(edges, roots) = g[Cardinality(edges)]
      /\ g[0] = roots
      /\ \A k \in Nat : g[k + 1] = g[k] \cup Successors(edges, g[k])
  BY <1>0 DEF Collects
<1> DEFINE within == {k \in Nat : g[k] \subseteq nodes}
<1>2. 0 \in within
  BY <1>1
<1>3. ASSUME NEW k \in Nat, k \in within
      PROVE  k + 1 \in within
  BY <1>1, <1>3, SuccessorsGrow DEF ClosedUnder
<1>4. \A k \in Nat : k \in within
  <2> HIDE DEF within
  <2> QED
    BY <1>2, <1>3, NaturalInduction
<1> QED
  BY <1>1, <1>4, FS_CardinalityType

(* The roots are reached.                                                  *)
LEMMA RootsReached ==
    ASSUME NEW edges, IsFiniteSet(edges), NEW roots
    PROVE  roots \subseteq Reach(edges, roots)
<1>0. PICK g : Collects(g, edges, roots) /\ Reach(edges, roots) = g[Cardinality(edges)]
  BY PassesExist
<1>1. /\ Reach(edges, roots) = g[Cardinality(edges)]
      /\ g[0] = roots
      /\ \A k \in Nat : g[k + 1] = g[k] \cup Successors(edges, g[k])
  BY <1>0 DEF Collects
<1> DEFINE within == {k \in Nat : roots \subseteq g[k]}
<1>2. 0 \in within
  BY <1>1
<1>3. ASSUME NEW k \in Nat, k \in within
      PROVE  k + 1 \in within
  BY <1>1, <1>3
<1>4. \A k \in Nat : k \in within
  <2> HIDE DEF within
  <2> QED
    BY <1>2, <1>3, NaturalInduction
<1> QED
  BY <1>1, <1>4, FS_CardinalityType

(* The loop has reached its fixpoint after as many passes as there are     *)
(* edges: every pass before the fixpoint collects the target of another    *)
(* edge.                                                                   *)
LEMMA ReachIsClosed ==
    ASSUME NEW edges, IsFiniteSet(edges), NEW roots
    PROVE  ClosedUnder(edges, Reach(edges, roots))
<1>0. PICK g : Collects(g, edges, roots) /\ Reach(edges, roots) = g[Cardinality(edges)]
  BY PassesExist
<1>1. /\ Reach(edges, roots) = g[Cardinality(edges)]
      /\ g[0] = roots
      /\ \A k \in Nat : g[k + 1] = g[k] \cup Successors(edges, g[k])
  BY <1>0 DEF Collects
<1> DEFINE targets == {e[2] : e \in edges}
           n == Cardinality(edges)
           new(k) == g[k] \ roots
           counted == {k \in Nat : \/ \E j \in 0 .. k : ClosedUnder(edges, g[j]) /\ g[k] = g[j]
                                   \/ /\ IsFiniteSet(new(k)) /\ new(k) \subseteq targets
                                      /\ Cardinality(new(k)) >= k}
<1>2. IsFiniteSet(targets) /\ Cardinality(targets) \in Nat /\ n \in Nat /\ Cardinality(targets) <= n
  <2> DEFINE target == [e \in edges |-> e[2]]
  <2>1. target \in Surjection(edges, targets)
    BY DEF Surjection
  <2> QED
    BY <2>1, FS_Surjection, FS_CardinalityType
<1>3. 0 \in counted
  <2>1. new(0) = {}
    BY <1>1
  <2> QED
    BY <2>1, FS_EmptySet
<1>4. ASSUME NEW k \in Nat, k \in counted
      PROVE  k + 1 \in counted
  <2>1. g[k + 1] = g[k] \cup Successors(edges, g[k])
    BY <1>1
  <2>2. CASE ClosedUnder(edges, g[k])
    <3>1. g[k + 1] = g[k] /\ k \in 0 .. k + 1
      BY <2>1, <2>2 DEF ClosedUnder
    <3> QED
      BY <2>2, <3>1
  <2>3. CASE ~ClosedUnder(edges, g[k])
    <3>1. /\ IsFiniteSet(new(k)) /\ new(k) \subseteq targets
          /\ Cardinality(new(k)) >= k
      BY <1>4, <2>3
    <3>2. PICK x \in Successors(edges, g[k]) : x \notin g[k]
      BY <2>3 DEF ClosedUnder
    <3>3. new(k + 1) \subseteq targets
      BY <2>1, <3>1, SuccessorsOfMembers
    <3>4. CASE x \notin roots
      <4>1. new(k) \cup {x} \subseteq new(k + 1) /\ x \notin new(k)
        BY <2>1, <3>2, <3>4
      <4>2. /\ IsFiniteSet(new(k) \cup {x})
            /\ Cardinality(new(k) \cup {x}) = Cardinality(new(k)) + 1
        BY <3>1, <4>1, FS_AddElement
      <4>3. IsFiniteSet(new(k + 1))
        BY <1>2, <3>3, FS_Subset
      <4>4. Cardinality(new(k) \cup {x}) <= Cardinality(new(k + 1))
        BY <4>1, <4>3, FS_Subset
      <4>5. /\ Cardinality(new(k)) \in Nat /\ Cardinality(new(k + 1)) \in Nat
            /\ k + 1 \in Nat
        BY <3>1, <4>3, FS_CardinalityType
      <4>6. Cardinality(new(k + 1)) >= k + 1
        <5> HIDE DEF new
        <5> QED
          BY <3>1, <4>2, <4>4, <4>5
      <4> QED
        BY <3>3, <4>3, <4>5, <4>6
    <3>5. CASE x \in roots
      <4>1. roots \subseteq g[k]
        <5> DEFINE within == {j \in Nat : roots \subseteq g[j]}
        <5>1. 0 \in within
          BY <1>1
        <5>2. \A j \in Nat : j \in within => j + 1 \in within
          BY <1>1
        <5>3. \A j \in Nat : j \in within
          <6> HIDE DEF within
          <6> QED
            BY <5>1, <5>2, NaturalInduction
        <5> QED
          BY <5>3
      <4> QED
        BY <3>2, <3>5, <4>1
    <3> QED
      BY <3>4, <3>5
  <2> QED
    BY <2>2, <2>3
<1>5. \A k \in Nat : k \in counted
  <2> HIDE DEF counted
  <2> QED
    BY <1>3, <1>4, NaturalInduction
<1>6. CASE \E j \in 0 .. n : ClosedUnder(edges, g[j]) /\ g[n] = g[j]
  BY <1>1, <1>6
<1>7. CASE IsFiniteSet(new(n)) /\ new(n) \subseteq targets /\ Cardinality(new(n)) >= n
  <2>1. Cardinality(new(n)) <= Cardinality(targets) /\ Cardinality(new(n)) \in Nat
    BY <1>2, <1>7, FS_Subset, FS_CardinalityType
  <2>2. Cardinality(new(n)) = Cardinality(targets)
    <3> HIDE DEF new, targets, n
    <3> QED
      BY <1>2, <1>7, <2>1
  <2>3. new(n) = targets
    <3> HIDE DEF new, targets, n
    <3> QED
      BY <1>2, <1>7, <2>2, FS_Subset
  <2>4. Successors(edges, g[n]) \subseteq targets
    BY SuccessorsOfMembers
  <2> QED
    BY <1>1, <2>3, <2>4 DEF ClosedUnder
<1> QED
  BY <1>2, <1>5, <1>6, <1>7

(* More edges and more roots reach no less.                                *)
LEMMA ReachGrows ==
    ASSUME NEW edges, NEW more, edges \subseteq more, IsFiniteSet(more),
           NEW roots, NEW others, roots \subseteq others
    PROVE  Reach(edges, roots) \subseteq Reach(more, others)
<1>1. IsFiniteSet(edges)
  BY FS_Subset
<1>2. roots \subseteq Reach(more, others)
  BY RootsReached
<1>3. Successors(edges, Reach(more, others)) \subseteq Successors(more, Reach(more, others))
  BY SuccessorsGrow
<1>4. ClosedUnder(edges, Reach(more, others))
  BY <1>3, ReachIsClosed DEF ClosedUnder
<1> QED
  BY <1>1, <1>2, <1>4, ReachIsLeast

(* What is reached from what is reached is reached.                        *)
LEMMA ReachOfReached ==
    ASSUME NEW edges, IsFiniteSet(edges), NEW roots, NEW others,
           others \subseteq Reach(edges, roots)
    PROVE  Reach(edges, others) \subseteq Reach(edges, roots)
  BY ReachIsLeast, ReachIsClosed

(* A node reaches itself, and what its successors reach.                   *)
LEMMA ReachOfNode ==
    ASSUME NEW edges, IsFiniteSet(edges), NEW n
    PROVE  Reach(edges, {n}) = {n} \cup Reach(edges, Successors(edges, {n}))
<1> DEFINE above == Reach(edges, Successors(edges, {n}))
<1>1. Successors(edges, {n}) \subseteq above
  BY RootsReached
<1>2. ClosedUnder(edges, above)
  BY ReachIsClosed
<1>3. ClosedUnder(edges, {n} \cup above)
  <2> HIDE DEF above
  <2> QED
    BY <1>1, <1>2 DEF ClosedUnder, Successors
<1>4. Reach(edges, {n}) \subseteq {n} \cup above
  <2> HIDE DEF above
  <2> QED
    BY <1>3, ReachIsLeast
<1>5. n \in Reach(edges, {n})
  BY RootsReached
<1>6. Successors(edges, {n}) \subseteq Reach(edges, {n})
  <2>1. Successors(edges, {n}) \subseteq Successors(edges, Reach(edges, {n}))
    BY <1>5, SuccessorsGrow
  <2> QED
    BY <2>1, ReachIsClosed DEF ClosedUnder
<1>7. above \subseteq Reach(edges, {n})
  BY <1>6, ReachOfReached
<1> QED
  BY <1>4, <1>5, <1>7

(* A finite relation in which no node reaches itself along an edge can be  *)
(* ranked: by the number of nodes from which a node is reached.            *)
LEMMA AcyclicIsRanked ==
    ASSUME NEW edges, IsFiniteSet(edges), NEW nodes, IsFiniteSet(nodes),
           \A e \in edges : e[1] \in nodes /\ e[2] \in nodes,
           \A n \in nodes : n \notin Reach(edges, Successors(edges, {n}))
    PROVE  \E rank \in [nodes -> 0 .. Cardinality(nodes) - 1] :
              \A e \in edges : rank[e[1]] < rank[e[2]]
<1> DEFINE from(n) == {m \in nodes : n \in Reach(edges, Successors(edges, {m}))}
           rank == [n \in nodes |-> Cardinality(from(n))]
<1>1. \A n \in nodes : IsFiniteSet(from(n)) /\ Cardinality(from(n)) \in Nat
  BY FS_Subset, FS_CardinalityType
<1>2. ASSUME NEW n \in nodes
      PROVE  Cardinality(from(n)) \in 0 .. Cardinality(nodes) - 1
  <2>1. from(n) \subseteq nodes \ {n}
    OBVIOUS
  <2>2. /\ IsFiniteSet(nodes \ {n}) /\ Cardinality(nodes \ {n}) = Cardinality(nodes) - 1
        /\ Cardinality(nodes) \in Nat
    BY FS_RemoveElement, FS_CardinalityType
  <2>3. Cardinality(from(n)) <= Cardinality(nodes \ {n})
    <3> HIDE DEF from
    <3> QED
      BY <2>1, <2>2, FS_Subset
  <2> HIDE DEF from
  <2> QED
    BY <1>1, <2>2, <2>3
<1>3. ASSUME NEW e \in edges
      PROVE  Cardinality(from(e[1])) < Cardinality(from(e[2]))
  <2>1. e[1] \in nodes /\ e[2] \in nodes /\ e[2] \in Successors(edges, {e[1]})
    BY SuccessorsOfMembers
  <2>2. from(e[1]) \subseteq from(e[2])
    <3> SUFFICES ASSUME NEW m \in nodes, e[1] \in Reach(edges, Successors(edges, {m}))
                 PROVE  e[2] \in Reach(edges, Successors(edges, {m}))
      OBVIOUS
    <3> QED
      BY <2>1, ReachIsClosed, SuccessorsOfMembers DEF ClosedUnder
  <2>3. e[1] \in from(e[2])
    BY <2>1, RootsReached
  <2>4. e[1] \notin from(e[1])
    BY <2>1
  <2> HIDE DEF from
  <2>5. /\ Cardinality(from(e[1])) <= Cardinality(from(e[2]))
        /\ Cardinality(from(e[1])) # Cardinality(from(e[2]))
    BY <1>1, <2>1, <2>2, <2>3, <2>4, FS_Subset
  <2> QED
    BY <1>1, <2>1, <2>5
<1>4. rank \in [nodes -> 0 .. Cardinality(nodes) - 1]
  BY <1>2
<1>5. \A e \in edges : rank[e[1]] < rank[e[2]]
  BY <1>3
<1> HIDE DEF rank
<1> QED
  BY <1>4, <1>5

(* When every node has at most one successor, two nodes that are reached   *)
(* from a third are reached one from the other.                            *)
LEMMA ReachedIsChain ==
    ASSUME NEW edges, IsFiniteSet(edges),
           \A e, f \in edges : e[1] = f[1] => e[2] = f[2],
           NEW n, NEW a \in Reach(edges, {n}), NEW b \in Reach(edges, {n})
    PROVE  a \in Reach(edges, {b}) \/ b \in Reach(edges, {a})
<1> DEFINE beside == {x \in Reach(edges, {n}) : a \in Reach(edges, {x}) \/ x \in Reach(edges, {a})}
<1>1. {n} \subseteq beside
  BY RootsReached
<1>2. ASSUME NEW x \in beside, NEW y \in Successors(edges, {x})
      PROVE  y \in beside
  <2>1. \A r : x \in Reach(edges, r) => y \in Reach(edges, r)
    BY ReachIsClosed, SuccessorsOfMembers DEF ClosedUnder
  <2>2. Successors(edges, {x}) = {y}
    BY DEF Successors
  <2>3. Reach(edges, {x}) = {x} \cup Reach(edges, {y})
    BY <2>2, ReachOfNode
  <2>4. x \in Reach(edges, {a}) \/ a = x \/ a \in Reach(edges, {y})
    BY <2>3
  <2>5. a \in Reach(edges, {a})
    BY RootsReached
  <2> QED
    BY <2>1, <2>4, <2>5
<1>3. ClosedUnder(edges, beside)
  <2> HIDE DEF beside
  <2>1. \A y \in Successors(edges, beside) : \E x \in beside : y \in Successors(edges, {x})
    BY DEF Successors
  <2> QED
    BY <1>2, <2>1 DEF ClosedUnder
<1>4. Reach(edges, {n}) \subseteq beside
  <2> HIDE DEF beside
  <2> QED
    BY <1>1, <1>3, ReachIsLeast
<1> QED
  BY <1>4

-----------------------------------------------------------------------------
(* The functions of graph.py.                                              *)

(* The writable closure of a claim is a set of authorities.                *)
LEMMA HeldType ==
    ASSUME NEW g \in Graphs, NEW claim \in Claims
    PROVE  HeldAuthorities(g, claim) \in SUBSET Authorities
<1> DEFINE nodes == Reach(WritableEdges(g), claim.repositories \cup claim.authorities)
<1>1. \A e \in WritableEdges(g) : e[2] \in Authorities
  BY DEF WritableEdges, Graphs, DependencyRelations
<1>2. Successors(WritableEdges(g), nodes) \subseteq Authorities
  BY <1>1 DEF Successors
<1> QED
  BY <1>2 DEF HeldAuthorities, Claims

(* When dependencies and the claim name registered authorities, so does    *)
(* the closure.                                                            *)
LEMMA HeldRegistered ==
    ASSUME NEW g \in Graphs, NEW claim \in Claims,
           \A d \in g.dependencies : d.authority \in Identifiers(g),
           KnownClaim(g, claim)
    PROVE  HeldAuthorities(g, claim) \subseteq Identifiers(g)
<1> DEFINE nodes == Reach(WritableEdges(g), claim.repositories \cup claim.authorities)
<1>1. \A e \in WritableEdges(g) : e[2] \in Identifiers(g)
  BY DEF WritableEdges
<1>2. Successors(WritableEdges(g), nodes) \subseteq Identifiers(g)
  BY <1>1 DEF Successors
<1> QED
  BY <1>2 DEF HeldAuthorities, KnownClaim

(* A registered authority is hosted by a repository.                       *)
LEMMA HostType ==
    ASSUME NEW g \in Graphs, NEW a \in Identifiers(g)
    PROVE  Host(g, a) \in Repositories
<1>1. PICK x \in g.authorities : x.identifier = a
  BY DEF Identifiers
<1>2. (CHOOSE y \in g.authorities : y.identifier = a) \in g.authorities
  BY <1>1
<1> QED
  BY <1>2 DEF Host, Graphs, AuthorityRecords

(* So the repositories a known claim works in are repositories.            *)
LEMMA WorkType ==
    ASSUME NEW g \in Graphs, NEW claim \in Claims,
           \A d \in g.dependencies : d.authority \in Identifiers(g),
           KnownClaim(g, claim)
    PROVE  WorkRepositories(g, claim) \in SUBSET Repositories
BY HeldRegistered, HostType DEF WorkRepositories, Claims

(* Conflict does not depend on which of the two authorities is leased.     *)
LEMMA ConflictingSymmetric ==
    ASSUME NEW g, NEW a, NEW b
    PROVE  Conflicting(g, a, b) <=> Conflicting(g, b, a)
BY DEF Conflicting

FiniteGraph(g) ==
    /\ IsFiniteSet(g.authorities)
    /\ IsFiniteSet(g.parents)
    /\ IsFiniteSet(g.dependencies)

(* The values of a function on a finite set are finitely many.             *)
LEMMA FiniteImage ==
    ASSUME NEW S, IsFiniteSet(S), NEW f
    PROVE  IsFiniteSet({f[x] : x \in S})
<1> DEFINE T == {f[x] : x \in S}
           h == [x \in S |-> f[x]]
<1>1. h \in Surjection(S, T)
  BY DEF Surjection
<1> HIDE DEF T, h
<1>2. IsFiniteSet(T)
  BY <1>1, FS_Surjection
<1> QED
  BY <1>2 DEF T

(* A finite graph has finitely many edges of each kind.                    *)
LEMMA FiniteEdges ==
    ASSUME NEW g, FiniteGraph(g)
    PROVE  /\ IsFiniteSet(WritableEdges(g))
           /\ IsFiniteSet(ContainmentEdges(g))
           /\ IsFiniteSet(DependencyEdges(g))
           /\ IsFiniteSet(Identifiers(g))
<1> DEFINE ends == [d \in g.dependencies |-> <<d.consumer, d.authority>>]
           up == [p \in g.parents |-> <<p.child, p.parent>>]
           name == [x \in g.authorities |-> x.identifier]
<1>1. ASSUME NEW D \in SUBSET g.dependencies
      PROVE  IsFiniteSet({<<d.consumer, d.authority>> : d \in D})
  <2>1. IsFiniteSet(D)
    BY FS_Subset DEF FiniteGraph
  <2>2. IsFiniteSet({ends[d] : d \in D})
    <3> HIDE DEF ends
    <3> QED
      BY <2>1, FiniteImage
  <2>3. {ends[d] : d \in D} = {<<d.consumer, d.authority>> : d \in D}
    OBVIOUS
  <2> QED
    BY <2>2, <2>3
<1>2. IsFiniteSet(WritableEdges(g)) /\ IsFiniteSet(DependencyEdges(g))
  BY <1>1 DEF WritableEdges, DependencyEdges
<1>3. IsFiniteSet(ContainmentEdges(g))
  <2>1. IsFiniteSet({up[p] : p \in g.parents})
    <3> HIDE DEF up
    <3> QED
      BY FiniteImage DEF FiniteGraph
  <2>2. {up[p] : p \in g.parents} = ContainmentEdges(g)
    BY DEF ContainmentEdges
  <2> QED
    BY <2>1, <2>2
<1>4. IsFiniteSet(Identifiers(g))
  <2>1. IsFiniteSet({name[x] : x \in g.authorities})
    <3> HIDE DEF name
    <3> QED
      BY FiniteImage DEF FiniteGraph
  <2>2. {name[x] : x \in g.authorities} = Identifiers(g)
    BY DEF Identifiers
  <2> QED
    BY <2>1, <2>2
<1> QED
  BY <1>2, <1>3, <1>4

(* A growth of the graph takes nothing from a closure.                     *)
LEMMA HeldGrows ==
    ASSUME NEW g, NEW h, FiniteGraph(h), g.dependencies \subseteq h.dependencies, NEW claim
    PROVE  HeldAuthorities(g, claim) \subseteq HeldAuthorities(h, claim)
<1> DEFINE roots == claim.repositories \cup claim.authorities
<1>1. WritableEdges(g) \subseteq WritableEdges(h)
  BY DEF WritableEdges
<1>2. IsFiniteSet(WritableEdges(h))
  BY FiniteEdges
<1>3. Reach(WritableEdges(g), roots) \subseteq Reach(WritableEdges(h), roots)
  BY <1>1, <1>2, ReachGrows
<1>4. Successors(WritableEdges(g), Reach(WritableEdges(g), roots))
        \subseteq Successors(WritableEdges(h), Reach(WritableEdges(h), roots))
  BY <1>1, <1>3, SuccessorsGrow
<1>5. /\ HeldAuthorities(g, claim) = claim.authorities
            \cup Successors(WritableEdges(g), Reach(WritableEdges(g), roots))
      /\ HeldAuthorities(h, claim) = claim.authorities
            \cup Successors(WritableEdges(h), Reach(WritableEdges(h), roots))
  BY DEF HeldAuthorities
<1> HIDE DEF roots
<1> QED
  BY <1>4, <1>5

(* The edges that a closure follows.                                       *)
LEMMA WritableSuccessors ==
    ASSUME NEW g, NEW nodes, NEW x
    PROVE  x \in Successors(WritableEdges(g), nodes) <=>
              \E d \in g.dependencies : d.access = "writable" /\ d.consumer \in nodes /\ d.authority = x
<1>1. \A e : e \in WritableEdges(g) <=>
              \E d \in g.dependencies : d.access = "writable" /\ e = <<d.consumer, d.authority>>
  BY DEF WritableEdges
<1>2. x \in Successors(WritableEdges(g), nodes) <=>
              \E e \in WritableEdges(g) : e[1] \in nodes /\ e[2] = x
  BY DEF Successors
<1>3. ASSUME NEW e \in WritableEdges(g), e[1] \in nodes, e[2] = x
      PROVE  \E d \in g.dependencies :
                d.access = "writable" /\ d.consumer \in nodes /\ d.authority = x
  BY <1>1, <1>3
<1>4. ASSUME NEW d \in g.dependencies, d.access = "writable", d.consumer \in nodes, d.authority = x
      PROVE  \E e \in WritableEdges(g) : e[1] \in nodes /\ e[2] = x
  <2>1. <<d.consumer, d.authority>> \in WritableEdges(g)
    BY <1>1, <1>4
  <2>2. <<d.consumer, d.authority>>[1] = d.consumer /\ <<d.consumer, d.authority>>[2] = d.authority
    OBVIOUS
  <2> QED
    BY <1>4, <2>1, <2>2
<1> QED
  BY <1>2, <1>3, <1>4

(* For every claim, what resolve_affected_claim computes on a finite graph *)
(* is the least set that contains the claim and that no writable           *)
(* dependency leaves.                                                      *)
THEOREM ClosuresAreLeast ==
    ASSUME FiniteGraph(graph)
    PROVE  HeldIsLeastClosure
<1> SUFFICES ASSUME NEW claim \in Claims
             PROVE  /\ ClosedHold(claim, HeldAuthorities(graph, claim))
                    /\ \A other \in SUBSET Authorities :
                          ClosedHold(claim, other) => HeldAuthorities(graph, claim) \subseteq other
  BY DEF HeldIsLeastClosure
<1> DEFINE edges == WritableEdges(graph)
           roots == claim.repositories \cup claim.authorities
           nodes == Reach(edges, roots)
           held  == HeldAuthorities(graph, claim)
<1>1. IsFiniteSet(edges)
  BY FiniteEdges
<1>2. roots \subseteq nodes
  BY <1>1, RootsReached
<1>3. Successors(edges, nodes) \subseteq nodes
  BY <1>1, ReachIsClosed DEF ClosedUnder
<1>4. held = claim.authorities \cup Successors(edges, nodes)
  BY DEF HeldAuthorities
<1>5. ClosedHold(claim, held)
  <2> SUFFICES ASSUME NEW d \in graph.dependencies, d.access = "writable",
                      d.consumer \in claim.repositories \cup held
               PROVE  d.authority \in held
    BY <1>4 DEF ClosedHold
  <2>1. d.consumer \in nodes
    <3> HIDE DEF nodes, edges, held
    <3> QED
      BY <1>2, <1>3, <1>4
  <2> QED
    BY <1>4, <2>1, WritableSuccessors
<1>6. ASSUME NEW other \in SUBSET Authorities, ClosedHold(claim, other)
      PROVE  held \subseteq other
  <2> DEFINE all == claim.repositories \cup other
  <2>1. Successors(edges, all) \subseteq other
    BY <1>6, WritableSuccessors DEF ClosedHold
  <2>2. roots \subseteq all /\ claim.authorities \subseteq other
    BY <1>6 DEF ClosedHold
  <2>3. nodes \subseteq all
    <3> HIDE DEF all, edges, roots
    <3> SUFFICES ClosedUnder(edges, all)
      BY <1>1, <2>2, ReachIsLeast DEF roots
    <3> QED
      BY <2>1 DEF ClosedUnder, all
  <2>4. Successors(edges, nodes) \subseteq Successors(edges, all)
    BY <2>3, SuccessorsGrow
  <2> HIDE DEF held, nodes, all, edges
  <2> QED
    BY <1>4, <2>1, <2>2, <2>4
<1> QED
  BY <1>5, <1>6

(* What validate_graph accepts has no cycle of parents and none of         *)
(* dependencies between authorities: each can be ranked.                   *)
THEOREM AcceptedIsRanked ==
    ASSUME graph \in Graphs, FiniteGraph(graph), ValidGraph(graph)
    PROVE  AcceptedGraphIsRanked
<1> DEFINE nodes == Identifiers(graph)
<1>1. /\ IsFiniteSet(nodes)
      /\ IsFiniteSet(ContainmentEdges(graph)) /\ IsFiniteSet(DependencyEdges(graph))
  BY FiniteEdges
<1>2. Ranked(ContainmentEdges(graph))
  <2> DEFINE edges == ContainmentEdges(graph)
  <2>1. \A e \in edges : \E p \in graph.parents : e = <<p.child, p.parent>>
    BY DEF ContainmentEdges
  <2>2. \A e \in edges : e[1] \in nodes /\ e[2] \in nodes
    BY <2>1 DEF ValidGraph, ContainmentIsForest
  <2>3. ASSUME NEW n \in nodes
        PROVE  n \notin Reach(edges, Successors(edges, {n}))
    <3>1. CASE \E p \in graph.parents : p.child = n
      BY <3>1 DEF ValidGraph, ContainmentIsForest, Ancestors
    <3>2. CASE ~ \E p \in graph.parents : p.child = n
      <4>1. \A e \in edges : e[1] # n
        BY <2>1, <3>2
      <4>2. Successors(edges, {n}) = {}
        BY <4>1 DEF Successors
      <4>3. ClosedUnder(edges, {})
        BY DEF ClosedUnder, Successors
      <4>4. Reach(edges, Successors(edges, {n})) \subseteq {}
        <5> HIDE DEF edges
        <5> QED
          BY <1>1, <4>2, <4>3, ReachIsLeast DEF edges
      <4> QED
        BY <4>4
    <3> QED
      BY <3>1, <3>2
  <2> HIDE DEF edges, nodes
  <2>4. \E rank \in [nodes -> 0 .. Cardinality(nodes) - 1] :
           \A e \in edges : rank[e[1]] < rank[e[2]]
    BY <1>1, <2>2, <2>3, AcyclicIsRanked DEF edges
  <2> QED
    BY <2>4 DEF Ranked, edges, nodes
<1>3. Ranked(DependencyEdges(graph))
  <2> DEFINE edges == DependencyEdges(graph)
  <2>1. \A e \in edges : \E d \in graph.dependencies :
           d.consumer \in nodes /\ e = <<d.consumer, d.authority>>
    BY DEF DependencyEdges
  <2>2. \A e \in edges : e[1] \in nodes /\ e[2] \in nodes
    BY <2>1 DEF ValidGraph, DependenciesAreAcyclic
  <2>3. \A n \in nodes : n \notin Reach(edges, Successors(edges, {n}))
    BY DEF ValidGraph, DependenciesAreAcyclic
  <2> HIDE DEF edges, nodes
  <2>4. \E rank \in [nodes -> 0 .. Cardinality(nodes) - 1] :
           \A e \in edges : rank[e[1]] < rank[e[2]]
    BY <1>1, <2>2, <2>3, AcyclicIsRanked DEF edges
  <2> QED
    BY <2>4 DEF Ranked, edges, nodes
<1> QED
  BY <1>2, <1>3 DEF AcceptedGraphIsRanked, ContainmentEdges, DependencyEdges

(* An authority that is above another is one reached from it.              *)
LEMMA ConflictIsReach ==
    ASSUME NEW g, FiniteGraph(g), NEW a, NEW b
    PROVE  Conflicting(g, a, b) <=> \/ a \in Reach(ContainmentEdges(g), {b})
                                    \/ b \in Reach(ContainmentEdges(g), {a})
<1>1. IsFiniteSet(ContainmentEdges(g))
  BY FiniteEdges
<1>2. \A n : Reach(ContainmentEdges(g), {n}) = {n} \cup Ancestors(g, n)
  BY <1>1, ReachOfNode DEF Ancestors
<1> QED
  BY <1>2 DEF Conflicting

(* The successors of a node are the parents declared for it.               *)
LEMMA ContainmentSuccessors ==
    ASSUME NEW g, NEW nodes, NEW x
    PROVE  x \in Successors(ContainmentEdges(g), nodes) <=>
              \E p \in g.parents : p.child \in nodes /\ p.parent = x
<1>1. \A e : e \in ContainmentEdges(g) <=> \E p \in g.parents : e = <<p.child, p.parent>>
  BY DEF ContainmentEdges
<1>2. x \in Successors(ContainmentEdges(g), nodes) <=>
              \E e \in ContainmentEdges(g) : e[1] \in nodes /\ e[2] = x
  BY DEF Successors
<1>3. ASSUME NEW e \in ContainmentEdges(g), e[1] \in nodes, e[2] = x
      PROVE  \E p \in g.parents : p.child \in nodes /\ p.parent = x
  BY <1>1, <1>3
<1>4. ASSUME NEW p \in g.parents, p.child \in nodes, p.parent = x
      PROVE  \E e \in ContainmentEdges(g) : e[1] \in nodes /\ e[2] = x
  <2>1. <<p.child, p.parent>> \in ContainmentEdges(g)
    BY <1>1
  <2>2. <<p.child, p.parent>>[1] = p.child /\ <<p.child, p.parent>>[2] = p.parent
    OBVIOUS
  <2> QED
    BY <1>4, <2>1, <2>2
<1> QED
  BY <1>2, <1>3, <1>4

(* A lease covers the authorities from which its own is reached.           *)
LEMMA CoveredReach ==
    ASSUME graph \in Graphs, FiniteGraph(graph), NEW a \in Authorities, NEW b \in Authorities
    PROVE  b \in CoveredBy(a) <=> a \in Reach(ContainmentEdges(graph), {b})
<1> DEFINE edges == ContainmentEdges(graph)
<1>1. IsFiniteSet(edges)
  BY FiniteEdges
<1>2. \A p \in graph.parents : p.child \in Authorities /\ p.parent \in Authorities
  BY DEF Graphs, ParentRelations
<1>3. \A n, x : x \in Successors(edges, {n}) <=>
                  \E p \in graph.parents : p.child = n /\ p.parent = x
  <2> TAKE n, x
  <2>1. x \in Successors(edges, {n}) <=>
           \E p \in graph.parents : p.child \in {n} /\ p.parent = x
    BY ContainmentSuccessors
  <2> QED
    BY <2>1
<1>4. ASSUME a \in Reach(edges, {b}), NEW S \in SUBSET Authorities, a \in S, b \notin S,
             \A p \in graph.parents : p.parent \in S => p.child \in S
      PROVE  FALSE
  <2> DEFINE rest == Authorities \ S
  <2>1. ASSUME NEW n \in rest, NEW x \in Successors(edges, {n})
        PROVE  x \in rest
    <3>1. PICK p \in graph.parents : p.child = n /\ p.parent = x
      BY <1>3
    <3> QED
      BY <1>2, <1>4, <3>1
  <2>2. ClosedUnder(edges, rest)
    <3> HIDE DEF edges, rest
    <3>1. \A y \in Successors(edges, rest) : \E x \in rest : y \in Successors(edges, {x})
      BY SuccessorsOfMembers
    <3> QED
      BY <2>1, <3>1 DEF ClosedUnder
  <2>3. Reach(edges, {b}) \subseteq rest
    <3> HIDE DEF edges
    <3> QED
      BY <1>1, <1>4, <2>2, ReachIsLeast
  <2> QED
    BY <1>4, <2>3
<1>5. ASSUME b \in CoveredBy(a)
      PROVE  a \in Reach(edges, {b})
  <2> DEFINE S == {x \in Authorities : a \in Reach(edges, {x})}
  <2>1. a \in S
    BY <1>1, RootsReached
  <2>2. ASSUME NEW p \in graph.parents, p.parent \in S
        PROVE  p.child \in S
    <3>1. p.parent \in Successors(edges, {p.child})
      BY <1>3
    <3>2. {p.parent} \subseteq Reach(edges, {p.child})
      <4>1. Successors(edges, {p.child}) \subseteq Reach(edges, Successors(edges, {p.child}))
        BY <1>1, RootsReached
      <4>2. Reach(edges, Successors(edges, {p.child})) \subseteq Reach(edges, {p.child})
        BY <1>1, ReachOfNode
      <4> QED
        BY <3>1, <4>1, <4>2
    <3>3. Reach(edges, {p.parent}) \subseteq Reach(edges, {p.child})
      BY <1>1, <3>2, ReachOfReached
    <3> QED
      BY <1>2, <2>2, <3>3
  <2>3. b \in S
    <3> HIDE DEF S
    <3>1. S \in SUBSET Authorities
      BY DEF S
    <3> QED
      BY <1>5, <2>1, <2>2, <3>1 DEF CoveredBy
  <2> QED
    BY <2>3
<1> QED
  BY <1>4, <1>5 DEF CoveredBy

(* Two leases conflict exactly when the subtrees they cover share an       *)
(* authority: in a forest two authorities above a third are one above the  *)
(* other.                                                                  *)
THEOREM ConflictsAreShared ==
    ASSUME graph \in Graphs, FiniteGraph(graph), ValidGraph(graph)
    PROVE  ConflictIsSharedSubtree
<1> DEFINE edges == ContainmentEdges(graph)
<1>1. IsFiniteSet(edges)
  BY FiniteEdges
<1>2. \A e, f \in edges : e[1] = f[1] => e[2] = f[2]
  BY DEF ContainmentEdges, ValidGraph, ContainmentIsForest
<1>3. Identifiers(graph) \subseteq Authorities
  BY DEF Graphs, AuthorityRecords, Identifiers
<1> SUFFICES ASSUME NEW a \in Identifiers(graph), NEW b \in Identifiers(graph)
             PROVE  Conflicting(graph, a, b) <=> CoveredBy(a) \cap CoveredBy(b) # {}
  BY DEF ConflictIsSharedSubtree
<1>4. a \in Authorities /\ b \in Authorities
  BY <1>3
<1>5. /\ \A x \in Authorities : x \in CoveredBy(a) <=> a \in Reach(edges, {x})
      /\ \A x \in Authorities : x \in CoveredBy(b) <=> b \in Reach(edges, {x})
      /\ CoveredBy(a) \subseteq Authorities
  BY <1>4, CoveredReach DEF CoveredBy
<1>6. a \in Reach(edges, {a}) /\ b \in Reach(edges, {b})
  BY <1>1, RootsReached
<1>7. ASSUME NEW x \in Authorities, a \in Reach(edges, {x}), b \in Reach(edges, {x})
      PROVE  a \in Reach(edges, {b}) \/ b \in Reach(edges, {a})
  <2> HIDE DEF edges
  <2> QED
    BY <1>1, <1>2, <1>7, ReachedIsChain
<1>8. Conflicting(graph, a, b) <=> a \in Reach(edges, {b}) \/ b \in Reach(edges, {a})
  BY ConflictIsReach
<1> HIDE DEF edges
<1> QED
  BY <1>4, <1>5, <1>6, <1>7, <1>8

-----------------------------------------------------------------------------
(* Growth.                                                                 *)

\* What a registration accepts.
Sound(g) ==
    /\ g \in Graphs
    /\ FiniteGraph(g)
    /\ IsFiniteSet(g.repositories)
    /\ ValidGraph(g)
    /\ \A x \in g.authorities : x.repository \in g.repositories

Grown(g, h) ==
    /\ g.repositories \subseteq h.repositories
    /\ g.authorities \subseteq h.authorities
    /\ g.parents \subseteq h.parents
    /\ g.dependencies \subseteq h.dependencies

\* What is new in h starts outside the nodes.
Outside(g, h, nodes) ==
    /\ \A p \in h.parents \ g.parents : p.child \notin nodes /\ p.parent \notin nodes
    /\ \A d \in h.dependencies \ g.dependencies : d.consumer \notin nodes
    /\ \A x \in h.authorities \ g.authorities : x.identifier \notin nodes

LEMMA EdgesStay ==
    ASSUME NEW edges, NEW nodes
    PROVE  ClosedUnder(edges, nodes) <=> \A e \in edges : e[1] \in nodes => e[2] \in nodes
BY DEF ClosedUnder, Successors

(* New edges that start outside a closed set change nothing within it.     *)
LEMMA ReachSame ==
    ASSUME NEW before, IsFiniteSet(before), NEW after, IsFiniteSet(after),
           before \subseteq after, NEW nodes, ClosedUnder(before, nodes),
           \A e \in after \ before : e[1] \notin nodes,
           NEW roots, roots \subseteq nodes
    PROVE  /\ Reach(after, roots) = Reach(before, roots)
           /\ Reach(before, roots) \subseteq nodes
           /\ Successors(after, roots) = Successors(before, roots)
           /\ Successors(before, roots) \subseteq nodes
<1>1. Reach(before, roots) \subseteq nodes
  BY ReachIsLeast
<1>2. Reach(before, roots) \subseteq Reach(after, roots)
  BY ReachGrows
<1>3. ClosedUnder(after, Reach(before, roots))
  <2>1. ClosedUnder(before, Reach(before, roots))
    BY ReachIsClosed
  <2> DEFINE reached == Reach(before, roots)
  <2>2. reached \subseteq nodes /\ ClosedUnder(before, reached)
    BY <1>1, <2>1
  <2> HIDE DEF reached
  <2>3. \A e \in after : e[1] \in reached => e[2] \in reached
    BY <2>2, EdgesStay
  <2>4. ClosedUnder(after, reached)
    BY <2>3, EdgesStay
  <2> QED
    BY <2>4 DEF reached
<1>4. Reach(after, roots) \subseteq Reach(before, roots)
  BY <1>3, RootsReached, ReachIsLeast
<1>5. Successors(after, roots) = Successors(before, roots)
  BY DEF Successors
<1>6. Successors(before, roots) \subseteq nodes
  BY DEF Successors, ClosedUnder
<1> QED
  BY <1>1, <1>2, <1>4, <1>5, <1>6

(* Relevance spreads along parents both ways, to what is depended on and   *)
(* to hosts.                                                               *)
LEMMA RelevanceSpreads ==
    ASSUME NEW g, NEW e
    PROVE  e \in RelevanceEdges(g) <=>
              \/ \E p \in g.parents : e = <<p.child, p.parent>>
              \/ \E p \in g.parents : e = <<p.parent, p.child>>
              \/ \E d \in g.dependencies : e = <<d.consumer, d.authority>>
              \/ \E x \in g.authorities : e = <<x.identifier, x.repository>>
BY DEF RelevanceEdges, ContainmentEdges

LEMMA FiniteRelevance ==
    ASSUME NEW g, FiniteGraph(g)
    PROVE  IsFiniteSet(RelevanceEdges(g))
<1> DEFINE down == [p \in g.parents |-> <<p.parent, p.child>>]
           ends == [d \in g.dependencies |-> <<d.consumer, d.authority>>]
           home == [x \in g.authorities |-> <<x.identifier, x.repository>>]
<1>1. /\ IsFiniteSet({down[p] : p \in g.parents})
      /\ IsFiniteSet({ends[d] : d \in g.dependencies})
      /\ IsFiniteSet({home[x] : x \in g.authorities})
  <2> HIDE DEF down, ends, home
  <2> QED
    BY FiniteImage DEF FiniteGraph
<1>2. /\ {down[p] : p \in g.parents} = {<<p.parent, p.child>> : p \in g.parents}
      /\ {ends[d] : d \in g.dependencies} = {<<d.consumer, d.authority>> : d \in g.dependencies}
      /\ {home[x] : x \in g.authorities} = {<<x.identifier, x.repository>> : x \in g.authorities}
  OBVIOUS
<1> HIDE DEF down, ends, home
<1>3. IsFiniteSet(ContainmentEdges(g))
  BY FiniteEdges
<1> QED
  BY <1>1, <1>2, <1>3, FS_Union DEF RelevanceEdges

LEMMA NewEdges ==
    ASSUME NEW g, NEW h, Grown(g, h), NEW nodes, Outside(g, h, nodes)
    PROVE  /\ ContainmentEdges(g) \subseteq ContainmentEdges(h)
           /\ \A e \in ContainmentEdges(h) \ ContainmentEdges(g) : e[1] \notin nodes
           /\ WritableEdges(g) \subseteq WritableEdges(h)
           /\ \A e \in WritableEdges(h) \ WritableEdges(g) : e[1] \notin nodes
           /\ RelevanceEdges(g) \subseteq RelevanceEdges(h)
           /\ \A e \in RelevanceEdges(h) \ RelevanceEdges(g) : e[1] \notin nodes
<1>1. ContainmentEdges(g) \subseteq ContainmentEdges(h)
  BY DEF Grown, ContainmentEdges
<1>2. ASSUME NEW e \in ContainmentEdges(h) \ ContainmentEdges(g)
      PROVE  e[1] \notin nodes
  <2>1. PICK p \in h.parents : e = <<p.child, p.parent>>
    BY DEF ContainmentEdges
  <2>2. p \notin g.parents
    BY <2>1 DEF ContainmentEdges
  <2> QED
    BY <2>1, <2>2 DEF Outside
<1>3. WritableEdges(g) \subseteq WritableEdges(h)
  BY DEF Grown, WritableEdges
<1>4. ASSUME NEW e \in WritableEdges(h) \ WritableEdges(g)
      PROVE  e[1] \notin nodes
  <2>1. PICK d \in h.dependencies : d.access = "writable" /\ e = <<d.consumer, d.authority>>
    BY DEF WritableEdges
  <2>2. d \notin g.dependencies
    BY <2>1 DEF WritableEdges
  <2> QED
    BY <2>1, <2>2 DEF Outside
<1>5. RelevanceEdges(g) \subseteq RelevanceEdges(h)
  BY RelevanceSpreads DEF Grown
<1>6. ASSUME NEW e \in RelevanceEdges(h) \ RelevanceEdges(g)
      PROVE  e[1] \notin nodes
  <2>1. CASE \E p \in h.parents : e = <<p.child, p.parent>> \/ e = <<p.parent, p.child>>
    <3>1. PICK p \in h.parents : e = <<p.child, p.parent>> \/ e = <<p.parent, p.child>>
      BY <2>1
    <3>2. p \notin g.parents
      BY <3>1, RelevanceSpreads
    <3> QED
      BY <3>1, <3>2 DEF Outside
  <2>2. CASE \E d \in h.dependencies : e = <<d.consumer, d.authority>>
    <3>1. PICK d \in h.dependencies : e = <<d.consumer, d.authority>>
      BY <2>2
    <3>2. d \notin g.dependencies
      BY <3>1, RelevanceSpreads
    <3> QED
      BY <3>1, <3>2 DEF Outside
  <2>3. CASE \E x \in h.authorities : e = <<x.identifier, x.repository>>
    <3>1. PICK x \in h.authorities : e = <<x.identifier, x.repository>>
      BY <2>3
    <3>2. x \notin g.authorities
      BY <3>1, RelevanceSpreads
    <3> QED
      BY <3>1, <3>2 DEF Outside
  <2> QED
    BY <2>1, <2>2, <2>3, RelevanceSpreads
<1> QED
  BY <1>1, <1>2, <1>3, <1>4, <1>5, <1>6

LEMMA HostRegistered ==
    ASSUME NEW g, \A x \in g.authorities : x.repository \in g.repositories, NEW a \in Identifiers(g)
    PROVE  Host(g, a) \in g.repositories
<1>1. PICK x \in g.authorities : x.identifier = a
  BY DEF Identifiers
<1>2. (CHOOSE y \in g.authorities : y.identifier = a) \in g.authorities
  BY <1>1
<1> QED
  BY <1>2 DEF Host

(* A registered authority keeps its host.                                  *)
LEMMA HostSame ==
    ASSUME NEW g, NEW h, g.authorities \subseteq h.authorities, UniqueAuthorities(h),
           NEW a \in Identifiers(g)
    PROVE  Host(h, a) = Host(g, a)
<1>1. PICK x \in g.authorities : x.identifier = a
  BY DEF Identifiers
<1>2. \A y \in h.authorities : y.identifier = a => y = x
  BY <1>1 DEF UniqueAuthorities
<1>3. (CHOOSE y \in g.authorities : y.identifier = a) = x
  BY <1>1, <1>2
<1>4. (CHOOSE y \in h.authorities : y.identifier = a) = x
  BY <1>1, <1>2
<1> QED
  BY <1>3, <1>4 DEF Host

\* Where the relevance of a space starts.
Roots(g, associated, claim) ==
    associated \cup WorkRepositories(g, claim) \cup HeldAuthorities(g, claim)
      \cup {x.identifier : x \in {y \in g.authorities : y.repository \in associated}}

(* The relevant part of the graph is registered, holds all the space works *)
(* with, and nothing that is relevant leads out of it.                     *)
LEMMA RelevantPart ==
    ASSUME NEW g, Sound(g), NEW associated \in SUBSET g.repositories,
           NEW claim \in Claims, KnownClaim(g, claim)
    PROVE  /\ Roots(g, associated, claim) \subseteq Relevant(g, associated, claim)
           /\ ClosedUnder(RelevanceEdges(g), Relevant(g, associated, claim))
           /\ Relevant(g, associated, claim) \subseteq g.repositories \cup Identifiers(g)
           /\ HeldAuthorities(g, claim) \subseteq Identifiers(g)
<1> DEFINE roots == Roots(g, associated, claim)
           registered == g.repositories \cup Identifiers(g)
<1>1. /\ g \in Graphs
      /\ FiniteGraph(g)
      /\ ContainmentIsForest(g)
      /\ DependenciesAreAcyclic(g)
      /\ \A x \in g.authorities : x.repository \in g.repositories
  BY DEF Sound, ValidGraph
<1>2. Relevant(g, associated, claim) = Reach(RelevanceEdges(g), roots)
  BY DEF Relevant, Roots
<1>3. IsFiniteSet(RelevanceEdges(g))
  BY <1>1, FiniteRelevance
<1>4. HeldAuthorities(g, claim) \subseteq Identifiers(g)
  BY <1>1, HeldRegistered DEF DependenciesAreAcyclic
<1>5. WorkRepositories(g, claim) \subseteq g.repositories
  BY <1>1, <1>4, HostRegistered DEF WorkRepositories, KnownClaim
<1>6. roots \subseteq registered
  BY <1>4, <1>5 DEF Roots, Identifiers
<1>7. ASSUME NEW e \in RelevanceEdges(g)
      PROVE  e[2] \in registered
  <2>1. \A p \in g.parents : p.child \in Identifiers(g) /\ p.parent \in Identifiers(g)
    BY <1>1 DEF ContainmentIsForest
  <2>2. \A d \in g.dependencies : d.authority \in Identifiers(g)
    BY <1>1 DEF DependenciesAreAcyclic
  <2> HIDE DEF registered
  <2>3. \A x : x \in g.repositories \/ x \in Identifiers(g) => x \in registered
    BY DEF registered
  <2> QED
    BY <1>1, <1>7, <2>1, <2>2, <2>3, RelevanceSpreads
<1>8. ClosedUnder(RelevanceEdges(g), registered)
  BY <1>7, EdgesStay
<1> HIDE DEF roots, registered
<1>9. Reach(RelevanceEdges(g), roots) \subseteq registered
  BY <1>3, <1>6, <1>8, ReachIsLeast
<1>10. roots \subseteq Reach(RelevanceEdges(g), roots)
  BY <1>3, RootsReached
<1>11. ClosedUnder(RelevanceEdges(g), Reach(RelevanceEdges(g), roots))
  BY <1>3, ReachIsClosed
<1> QED
  BY <1>2, <1>4, <1>9, <1>10, <1>11 DEF roots, registered

(* Containment does not lead into the relevant part from outside.          *)
LEMMA AncestorsOutside ==
    ASSUME NEW g, NEW h, FiniteGraph(h), NEW nodes, Outside(g, h, nodes),
           ClosedUnder(RelevanceEdges(g), nodes), NEW a, a \notin nodes
    PROVE  Ancestors(h, a) \cap nodes = {}
<1> DEFINE edges == ContainmentEdges(h)
           rest == {n \in {e[2] : e \in edges} : n \notin nodes}
<1>1. ASSUME NEW p \in h.parents, p.child \notin nodes
      PROVE  p.parent \notin nodes
  <2>1. CASE p \in g.parents
    <3>1. <<p.parent, p.child>> \in RelevanceEdges(g)
      BY <2>1, RelevanceSpreads
    <3>2. p.parent \in nodes => p.child \in nodes
      <4>1. <<p.parent, p.child>>[1] = p.parent /\ <<p.parent, p.child>>[2] = p.child
        OBVIOUS
      <4> QED
        BY <3>1, <4>1, EdgesStay
    <3> QED
      BY <1>1, <3>2
  <2>2. CASE p \notin g.parents
    BY <2>2 DEF Outside
  <2> QED
    BY <2>1, <2>2
<1>2. \A e \in edges : e[1] \notin nodes => e[2] \notin nodes
  <2>1. \A e \in edges : \E p \in h.parents : e = <<p.child, p.parent>>
    BY DEF ContainmentEdges
  <2> QED
    BY <1>1, <2>1
<1>3. IsFiniteSet(edges)
  BY FiniteEdges
<1>4. ClosedUnder(edges, rest)
  <2> HIDE DEF edges
  <2> QED
    BY <1>2, EdgesStay
<1>5. Successors(edges, {a}) \subseteq rest
  <2> HIDE DEF edges
  <2> QED
    BY <1>2 DEF Successors
<1>6. Reach(edges, Successors(edges, {a})) \subseteq rest
  <2> HIDE DEF edges, rest
  <2> QED
    BY <1>3, <1>4, <1>5, ReachIsLeast
<1> QED
  BY <1>6 DEF Ancestors

(* What is new outside the relevant part of a space's graph shows nowhere  *)
(* in its snapshot.                                                        *)
LEMMA SnapshotSame ==
    ASSUME Repositories \cap Authorities = {},
           NEW g, NEW h, Sound(g), Sound(h), Grown(g, h),
           NEW associated \in SUBSET g.repositories, NEW claim \in Claims, KnownClaim(g, claim),
           NEW nodes, nodes = Relevant(g, associated, claim),
           \A p \in h.parents \ g.parents : p.child \notin nodes /\ p.parent \notin nodes,
           \A d \in h.dependencies \ g.dependencies : d.consumer \notin nodes,
           \A x \in h.authorities \ g.authorities : x.repository \notin nodes
    PROVE  SpaceSnapshot(h, associated, claim) = SpaceSnapshot(g, associated, claim)
<1>1. /\ Roots(g, associated, claim) \subseteq nodes
      /\ ClosedUnder(RelevanceEdges(g), nodes)
      /\ nodes \subseteq g.repositories \cup Identifiers(g)
      /\ HeldAuthorities(g, claim) \subseteq Identifiers(g)
  BY RelevantPart
<1>2. /\ g \in Graphs /\ h \in Graphs
      /\ FiniteGraph(g) /\ FiniteGraph(h)
      /\ UniqueAuthorities(h)
      /\ g.repositories \subseteq Repositories /\ h.repositories \subseteq Repositories
      /\ Identifiers(g) \subseteq Authorities /\ Identifiers(h) \subseteq Authorities
  BY DEF Sound, ValidGraph, Graphs, Identifiers, AuthorityRecords
<1>3. ASSUME NEW x \in h.authorities \ g.authorities
      PROVE  x.identifier \notin nodes
  <2>1. x.identifier \notin Identifiers(g)
    BY <1>2 DEF Identifiers, UniqueAuthorities, Grown
  <2>2. x.identifier \in Identifiers(h)
    BY DEF Identifiers
  <2> QED
    BY <1>1, <1>2, <2>1, <2>2
<1>4. Outside(g, h, nodes) /\ Outside(g, g, nodes)
  BY <1>3 DEF Outside
<1>5. /\ ContainmentEdges(g) \subseteq ContainmentEdges(h)
      /\ \A e \in ContainmentEdges(h) \ ContainmentEdges(g) : e[1] \notin nodes
      /\ WritableEdges(g) \subseteq WritableEdges(h)
      /\ \A e \in WritableEdges(h) \ WritableEdges(g) : e[1] \notin nodes
      /\ RelevanceEdges(g) \subseteq RelevanceEdges(h)
      /\ \A e \in RelevanceEdges(h) \ RelevanceEdges(g) : e[1] \notin nodes
  BY <1>4, NewEdges
<1>6. /\ IsFiniteSet(ContainmentEdges(g)) /\ IsFiniteSet(ContainmentEdges(h))
      /\ IsFiniteSet(WritableEdges(g)) /\ IsFiniteSet(WritableEdges(h))
      /\ IsFiniteSet(RelevanceEdges(g)) /\ IsFiniteSet(RelevanceEdges(h))
  BY <1>2, FiniteEdges, FiniteRelevance
<1>7. /\ ClosedUnder(ContainmentEdges(g), nodes)
      /\ ClosedUnder(WritableEdges(g), nodes)
  <2>1. \A e \in ContainmentEdges(g) : e \in RelevanceEdges(g)
    BY DEF RelevanceEdges
  <2>2. \A e \in WritableEdges(g) : e \in RelevanceEdges(g)
    BY DEF RelevanceEdges, WritableEdges
  <2> QED
    BY <1>1, <2>1, <2>2, EdgesStay
<1> DEFINE targets == claim.repositories \cup claim.authorities
           held == HeldAuthorities(g, claim)
           work == WorkRepositories(g, claim)
<1>8. targets \subseteq nodes /\ held \subseteq nodes
  BY <1>1 DEF Roots, WorkRepositories, HeldAuthorities
<1>9. HeldAuthorities(h, claim) = held
  <2> DEFINE before == WritableEdges(g)
             after == WritableEdges(h)
             reached == Reach(before, targets)
  <2>1. Reach(after, targets) = reached /\ reached \subseteq nodes
    <3> HIDE DEF targets, before, after
    <3> QED
      BY <1>5, <1>6, <1>7, <1>8, ReachSame DEF before, after
  <2>2. Successors(after, reached) = Successors(before, reached)
    <3> HIDE DEF reached
    <3> QED
      BY <1>5, <1>6, <1>7, <2>1, ReachSame
  <2>3. /\ held = claim.authorities \cup Successors(before, Reach(before, targets))
        /\ HeldAuthorities(h, claim) = claim.authorities \cup Successors(after, Reach(after, targets))
    BY DEF HeldAuthorities
  <2> HIDE DEF before, after, targets, held
  <2> QED
    BY <2>1, <2>2, <2>3
<1>10. WorkRepositories(h, claim) = work
  <2>1. \A a \in held : Host(h, a) = Host(g, a)
    BY <1>1, <1>2, HostSame DEF Grown
  <2> HIDE DEF held
  <2>2. {Host(h, a) : a \in held} = {Host(g, a) : a \in held}
    BY <2>1
  <2> QED
    BY <1>9, <2>2 DEF WorkRepositories, held
<1>11. Relevant(h, associated, claim) = nodes
  <2> DEFINE roots == Roots(g, associated, claim)
  <2>1. \A x \in h.authorities \ g.authorities : x.repository \notin associated
    BY <1>1 DEF Roots
  <2>2. {y \in h.authorities : y.repository \in associated}
          = {y \in g.authorities : y.repository \in associated}
    BY <2>1 DEF Grown
  <2>3. Roots(h, associated, claim) = roots
    BY <1>9, <1>10, <2>2 DEF Roots
  <2>4. /\ Relevant(h, associated, claim) = Reach(RelevanceEdges(h), Roots(h, associated, claim))
        /\ nodes = Reach(RelevanceEdges(g), roots)
    BY DEF Relevant, Roots
  <2> HIDE DEF roots
  <2>5. Reach(RelevanceEdges(h), roots) = Reach(RelevanceEdges(g), roots)
    BY <1>1, <1>5, <1>6, ReachSame DEF roots
  <2> QED
    BY <2>3, <2>4, <2>5
<1>12. \A a \in nodes : Ancestors(h, a) = Ancestors(g, a) /\ Ancestors(g, a) \subseteq nodes
  <2> DEFINE before == ContainmentEdges(g)
             after == ContainmentEdges(h)
  <2> SUFFICES ASSUME NEW a \in nodes
               PROVE  /\ Reach(after, Successors(after, {a})) = Reach(before, Successors(before, {a}))
                      /\ Reach(before, Successors(before, {a})) \subseteq nodes
    BY DEF Ancestors
  <2>0. /\ before \subseteq after /\ IsFiniteSet(before) /\ IsFiniteSet(after)
        /\ ClosedUnder(before, nodes)
        /\ \A e \in after \ before : e[1] \notin nodes
    BY <1>5, <1>6, <1>7
  <2> HIDE DEF before, after
  <2> DEFINE roots == Successors(before, {a})
  <2>1. Successors(after, {a}) = roots /\ roots \subseteq nodes
    BY <2>0, ReachSame
  <2> HIDE DEF roots
  <2>2. Reach(after, roots) = Reach(before, roots) /\ Reach(before, roots) \subseteq nodes
    BY <2>0, <2>1, ReachSame
  <2> QED
    BY <2>1, <2>2 DEF roots
<1>13. ASSUME NEW a, a \notin nodes
       PROVE  Ancestors(h, a) \cap nodes = {} /\ Ancestors(g, a) \cap nodes = {}
  BY <1>1, <1>2, <1>4, <1>13, AncestorsOutside
<1>14. Coverage(h, held) = Coverage(g, held)
  <2>1. ASSUME NEW a, NEW b \in held
        PROVE  /\ Conflicting(h, a, b) <=> Conflicting(g, a, b)
               /\ Conflicting(h, a, b) => a \in nodes
    <3>1. b \in nodes
      BY <1>8
    <3>2. CASE a \in nodes
      BY <1>12, <3>1, <3>2 DEF Conflicting
    <3>3. CASE a \notin nodes
      BY <1>12, <1>13, <3>1, <3>3 DEF Conflicting
    <3> QED
      BY <3>2, <3>3
  <2>2. \A a \in nodes : a \in Identifiers(h) <=> a \in Identifiers(g)
    BY <1>3 DEF Identifiers, Grown
  <2> HIDE DEF held
  <2> QED
    BY <2>1, <2>2 DEF Coverage
<1>15. /\ h.repositories \cap nodes = g.repositories \cap nodes
       /\ {x \in h.authorities : x.identifier \in nodes}
            = {x \in g.authorities : x.identifier \in nodes}
       /\ {p \in h.parents : p.child \in nodes \/ p.parent \in nodes}
            = {p \in g.parents : p.child \in nodes \/ p.parent \in nodes}
       /\ {d \in h.dependencies : d.consumer \in nodes}
            = {d \in g.dependencies : d.consumer \in nodes}
  BY <1>1, <1>2, <1>3 DEF Grown
<1> HIDE DEF held, work
<1>16. HeldAuthorities(g, claim) = held /\ WorkRepositories(g, claim) = work
  BY DEF held, work
<1> QED
  BY <1>9, <1>10, <1>11, <1>14, <1>15, <1>16 DEF SpaceSnapshot

LEMMA AdditionSound ==
    ASSUME Sound(graph), [Growth]_graph
    PROVE  Sound(graph') /\ Grown(graph, graph')
<1>0. /\ graph \in Graphs
      /\ IsFiniteSet(graph.repositories)
      /\ IsFiniteSet(graph.authorities)
      /\ IsFiniteSet(graph.parents)
      /\ IsFiniteSet(graph.dependencies)
      /\ \A x \in graph.authorities : x.repository \in graph.repositories
  BY DEF Sound, FiniteGraph
<1>1. \A x : /\ IsFiniteSet(graph.repositories \cup {x})
             /\ IsFiniteSet(graph.authorities \cup {x})
             /\ IsFiniteSet(graph.parents \cup {x})
             /\ IsFiniteSet(graph.dependencies \cup {x})
  BY <1>0, FS_AddElement
<1>2. ASSUME NEW r \in Repositories, Accept([graph EXCEPT !.repositories = @ \cup {r}])
      PROVE  Sound(graph') /\ Grown(graph, graph')
  BY <1>0, <1>1, <1>2 DEF Accept, Sound, Grown, Graphs, FiniteGraph
<1>3. ASSUME NEW x \in Hosted, x.repository \in graph.repositories,
             Accept([graph EXCEPT !.authorities = @ \cup {x}])
      PROVE  Sound(graph') /\ Grown(graph, graph')
  BY <1>0, <1>1, <1>3, GrowthAssumption DEF Accept, Sound, Grown, Graphs, FiniteGraph
<1>4. ASSUME NEW p \in ParentRelations, Accept([graph EXCEPT !.parents = @ \cup {p}])
      PROVE  Sound(graph') /\ Grown(graph, graph')
  BY <1>0, <1>1, <1>4 DEF Accept, Sound, Grown, Graphs, FiniteGraph
<1>5. ASSUME NEW d \in Related, Accept([graph EXCEPT !.dependencies = @ \cup {d}])
      PROVE  Sound(graph') /\ Grown(graph, graph')
  BY <1>0, <1>1, <1>5, GrowthAssumption DEF Accept, Sound, Grown, Graphs, FiniteGraph
<1>6. CASE graph' = graph
  BY <1>6 DEF Grown
<1> QED
  BY <1>2, <1>3, <1>4, <1>5, <1>6
  DEF Growth, AddRepository, AddAuthority, AddParent, AddDependency

LEMMA EmptyIsSound == Sound(EmptyGraph)
<1>1. /\ EmptyGraph \in Graphs
      /\ EmptyGraph.repositories = {}
      /\ EmptyGraph.authorities = {}
      /\ EmptyGraph.parents = {}
      /\ EmptyGraph.dependencies = {}
  BY DEF EmptyGraph, Graphs
<1>2. Identifiers(EmptyGraph) = {}
  BY <1>1 DEF Identifiers
<1>3. ValidGraph(EmptyGraph)
  BY <1>1, <1>2 DEF ValidGraph, UniqueAuthorities, ContainmentIsForest, DependenciesAreAcyclic
<1> QED
  BY <1>1, <1>3, FS_EmptySet DEF Sound, FiniteGraph

LEMMA SoundAlways == GrowthSpec => []Sound(graph)
<1>1. graph = EmptyGraph => Sound(graph)
  BY EmptyIsSound
<1>2. Sound(graph) /\ [Growth]_graph => Sound(graph)'
  BY AdditionSound
<1> QED
  BY <1>1, <1>2, PTL DEF GrowthSpec

(* On every graph that registrations can build, closures are least, what   *)
(* is accepted has no cycle and conflicts are shared subtrees.             *)
THEOREM GrowthIsSound ==
    GrowthSpec => [](HeldIsLeastClosure /\ AcceptedGraphIsRanked /\ ConflictIsSharedSubtree)
<1>1. Sound(graph) => HeldIsLeastClosure /\ AcceptedGraphIsRanked /\ ConflictIsSharedSubtree
  BY ClosuresAreLeast, AcceptedIsRanked, ConflictsAreShared DEF Sound
<1> QED
  BY <1>1, SoundAlways, PTL

(* A path in some authority's directory has an authority that answers.     *)
LEMMA SomeoneAnswers ==
    ASSUME NEW g \in Graphs, NEW x \in Changes, NEW a \in Candidates(g, x)
    PROVE  Answering(g, x) # {} /\ Answering(g, x) \subseteq Candidates(g, x)
<1>1. ASSUME NEW b \in Candidates(g, x)
      PROVE  Len(Directory[b]) \in Nat /\ Len(Directory[b]) <= Len(x.path)
  <2>1. b \in Authorities
    BY DEF Candidates, Identifiers, Graphs, AuthorityRecords
  <2>2. Directory[b] \in Seq(STRING) /\ x.path \in Seq(STRING)
    BY <2>1, DirectoryAssumption
  <2> QED
    BY <2>2 DEF Candidates, Matches, IsPrefix
<1>2. Len(x.path) \in Nat
  BY DirectoryAssumption
<1> DEFINE depth == [b \in Candidates(g, x) |-> Len(x.path) - Len(Directory[b])]
           rest == {depth[b] : b \in Candidates(g, x)}
<1>3. \A b \in Candidates(g, x) :
        depth[b] \in rest /\ depth[b] \in Nat /\ depth[b] = Len(x.path) - Len(Directory[b])
  <2>1. ASSUME NEW b \in Candidates(g, x)
        PROVE  depth[b] \in rest /\ depth[b] = Len(x.path) - Len(Directory[b])
    OBVIOUS
  <2>2. \A i, j \in Nat : j <= i => i - j \in Nat
    OBVIOUS
  <2>3. ASSUME NEW b \in Candidates(g, x)
        PROVE  Len(x.path) - Len(Directory[b]) \in Nat
    BY <1>1, <1>2, <2>2
  <2> HIDE DEF depth, rest
  <2> QED
    BY <2>1, <2>3
<1>4. PICK n \in rest : \A m \in rest : n <= m
  <2> HIDE DEF rest
  <2>1. rest \subseteq Nat /\ rest # {}
    <3> HIDE DEF depth
    <3> QED
      BY <1>3 DEF rest
  <2> QED
    BY <2>1, LeastNatural
<1>5. PICK b \in Candidates(g, x) : n = depth[b]
  BY <1>4
<1> HIDE DEF depth, rest
<1>6. ASSUME NEW c \in Candidates(g, x)
      PROVE  Len(Directory[c]) <= Len(Directory[b])
  <2>1. Len(x.path) - Len(Directory[b]) <= Len(x.path) - Len(Directory[c])
    BY <1>3, <1>4, <1>5
  <2>2. \A i, j, k \in Nat : i - j <= i - k => k <= j
    OBVIOUS
  <2>3. Len(Directory[b]) \in Nat /\ Len(Directory[c]) \in Nat
    BY <1>1
  <2> QED
    BY <1>2, <2>1, <2>2, <2>3
<1> QED
  BY <1>5, <1>6 DEF Answering

(* Of two spaces whose closures do not conflict, at most one passes the    *)
(* audit with a change in an authority's directory, on every graph that    *)
(* registrations can build and for any directories.                        *)
THEOREM AuditedChanges_AreDisjoint == GrowthSpec => []AuditedChangesAreDisjoint
<1>1. ASSUME Sound(graph), NEW one \in Shapes, NEW other \in Shapes,
             Compatible(graph, one, other), NEW x \in Changes,
             BoundarySafe(graph, HeldAuthorities(graph, one.claim), {x}),
             BoundarySafe(graph, HeldAuthorities(graph, other.claim), {x}),
             NEW a \in Identifiers(graph), Host(graph, a) = x.repository, Matches(a, x.path)
      PROVE  FALSE
  <2>1. a \in Candidates(graph, x)
    BY <1>1 DEF Candidates
  <2>2. Answering(graph, x) # {}
    BY <1>1, <2>1, SomeoneAnswers DEF Sound
  <2> DEFINE answering == CHOOSE b \in Answering(graph, x) : TRUE
  <2>3. answering \in HeldAuthorities(graph, one.claim)
    BY <1>1, <2>2 DEF BoundarySafe, Exceeds
  <2>4. answering \in HeldAuthorities(graph, other.claim)
    BY <1>1, <2>2 DEF BoundarySafe, Exceeds
  <2> HIDE DEF answering
  <2> QED
    BY <1>1, <2>3, <2>4 DEF Compatible, Conflicting
<1>2. Sound(graph) => AuditedChangesAreDisjoint
  BY <1>1 DEF AuditedChangesAreDisjoint
<1> QED
  BY <1>2, SoundAlways, PTL

(* An unchanged snapshot of one space and an unchanged closure of another  *)
(* keep the two compatible, whatever the graph has grown by.               *)
THEOREM UnchangedSnapshot_ProtectsPair == GrowthSpec => UnchangedSnapshotProtectsPair
<1>1. ASSUME Sound(graph), [Growth]_graph, NEW one \in Shapes, NEW other \in Shapes,
             Known(one), Known(other), SnapshotOf(graph, one) = SnapshotOf(graph', one),
             HeldAuthorities(graph, other.claim) = HeldAuthorities(graph', other.claim),
             Compatible(graph, one, other),
             NEW a \in HeldAuthorities(graph', one.claim),
             NEW b \in HeldAuthorities(graph', other.claim),
             Conflicting(graph', a, b)
      PROVE  FALSE
  <2>1. /\ HeldAuthorities(graph, one.claim) = HeldAuthorities(graph', one.claim)
        /\ Coverage(graph, HeldAuthorities(graph, one.claim))
             = Coverage(graph', HeldAuthorities(graph', one.claim))
    <3>1. \A g : /\ SnapshotOf(g, one).held = HeldAuthorities(g, one.claim)
                 /\ SnapshotOf(g, one).coverage = Coverage(g, HeldAuthorities(g, one.claim))
      BY DEF SnapshotOf, SpaceSnapshot
    <3> QED
      BY <1>1, <3>1
  <2>2. b \in Identifiers(graph')
    <3>1. Identifiers(graph) \subseteq Identifiers(graph')
      BY <1>1, AdditionSound DEF Grown, Identifiers
    <3>2. HeldAuthorities(graph, other.claim) \subseteq Identifiers(graph)
      BY <1>1, GrowthAssumption, HeldRegistered
      DEF Sound, ValidGraph, DependenciesAreAcyclic, Known
    <3> QED
      BY <1>1, <3>1, <3>2
  <2>3. b \in Coverage(graph', HeldAuthorities(graph', one.claim))
    BY <1>1, <2>2, ConflictingSymmetric DEF Coverage
  <2>4. PICK held \in HeldAuthorities(graph, one.claim) : Conflicting(graph, b, held)
    BY <2>1, <2>3 DEF Coverage
  <2> QED
    BY <1>1, <2>4, ConflictingSymmetric DEF Compatible
<1>2. Sound(graph) /\ [Growth]_graph =>
        [\A one, other \in {s \in Shapes : Known(s)} :
          /\ SnapshotOf(graph, one) = SnapshotOf(graph', one)
          /\ HeldAuthorities(graph, other.claim) = HeldAuthorities(graph', other.claim)
          /\ Compatible(graph, one, other)
          => Compatible(graph', one, other)]_graph
  BY <1>1 DEF Compatible
<1> QED
  BY <1>2, SoundAlways, PTL DEF GrowthSpec, UnchangedSnapshotProtectsPair

(* A growth that touches nothing in the relevant part of a space's graph   *)
(* leaves the space's snapshot alone.                                      *)
THEOREM IndependentGrowth_KeepsSnapshot ==
    ASSUME KindsAreApart
    PROVE  GrowthSpec => IndependentGrowthKeepsSnapshot
<1>1. ASSUME Sound(graph), [Growth]_graph, NEW s \in Shapes, Known(s),
             Touched \cap Relevant(graph, s.associated, s.claim) = {}
      PROVE  SnapshotOf(graph, s) = SnapshotOf(graph', s)
  <2> DEFINE nodes == Relevant(graph, s.associated, s.claim)
  <2>1. Sound(graph') /\ Grown(graph, graph')
    BY <1>1, AdditionSound
  <2>2. /\ Repositories \cap Authorities = {}
        /\ s.claim \in Claims
        /\ s.associated \in SUBSET graph.repositories
        /\ KnownClaim(graph, s.claim)
    BY <1>1, GrowthAssumption DEF Known, KindsAreApart
  <2>3. /\ \A p \in graph'.parents \ graph.parents : p.child \in Touched /\ p.parent \in Touched
        /\ \A d \in graph'.dependencies \ graph.dependencies : d.consumer \in Touched
        /\ \A x \in graph'.authorities \ graph.authorities : x.repository \in Touched
    <3>1. ASSUME NEW p \in graph'.parents \ graph.parents
          PROVE  p.child \in Touched /\ p.parent \in Touched
      <4>1. {p.child, p.parent} \in {{q.child, q.parent} : q \in graph'.parents \ graph.parents}
        OBVIOUS
      <4> QED
        BY <4>1 DEF Touched
    <3>2. ASSUME NEW d \in graph'.dependencies \ graph.dependencies
          PROVE  d.consumer \in Touched
      <4>1. {d.consumer} \in {{e.consumer} : e \in graph'.dependencies \ graph.dependencies}
        OBVIOUS
      <4> QED
        BY <4>1 DEF Touched
    <3>3. ASSUME NEW x \in graph'.authorities \ graph.authorities
          PROVE  x.repository \in Touched
      <4>1. {x.repository} \in {{y.repository} : y \in graph'.authorities \ graph.authorities}
        OBVIOUS
      <4> QED
        BY <4>1 DEF Touched
    <3> QED
      BY <3>1, <3>2, <3>3
  <2>4. /\ \A p \in graph'.parents \ graph.parents : p.child \notin nodes /\ p.parent \notin nodes
        /\ \A d \in graph'.dependencies \ graph.dependencies : d.consumer \notin nodes
        /\ \A x \in graph'.authorities \ graph.authorities : x.repository \notin nodes
    BY <1>1, <2>3
  <2> HIDE DEF nodes
  <2> QED
    BY <1>1, <2>1, <2>2, <2>4, SnapshotSame DEF SnapshotOf, nodes
<1>2. Sound(graph) /\ [Growth]_graph =>
        [\A s \in {x \in Shapes : Known(x)} :
          Touched \cap Relevant(graph, s.associated, s.claim) = {} =>
              SnapshotOf(graph, s) = SnapshotOf(graph', s)]_graph
  BY <1>1
<1> QED
  BY <1>2, SoundAlways, PTL DEF GrowthSpec, IndependentGrowthKeepsSnapshot

-----------------------------------------------------------------------------
(* The destinations.                                                       *)

Iterates(f, base, step, n) ==
    f[0] = base /\ \A k \in 1 .. n : f[k] = step[k][f[k - 1]]

(* A loop of n passes has its sequence of states.                          *)
LEMMA IterationExists ==
    ASSUME NEW D, NEW base \in D, NEW n \in Nat, NEW step \in [1 .. n -> [D -> D]]
    PROVE  \E f \in [0 .. n -> D] : Iterates(f, base, step, n)
<1> DEFINE run == {m \in Nat : m <= n => \E f \in [0 .. m -> D] : Iterates(f, base, step, m)}
<1>1. 0 \in run
  <2> DEFINE f == [k \in 0 .. 0 |-> base]
  <2>1. f \in [0 .. 0 -> D] /\ Iterates(f, base, step, 0)
    BY DEF Iterates
  <2> QED
    BY <2>1
<1>2. ASSUME NEW m \in Nat, m \in run
      PROVE  m + 1 \in run
  <2> SUFFICES ASSUME m + 1 <= n
               PROVE  \E f \in [0 .. m + 1 -> D] : Iterates(f, base, step, m + 1)
    OBVIOUS
  <2>1. PICK f \in [0 .. m -> D] : Iterates(f, base, step, m)
    BY <1>2
  <2> DEFINE g == [k \in 0 .. m + 1 |-> IF k = m + 1 THEN step[m + 1][f[m]] ELSE f[k]]
  <2>2. f[m] \in D /\ step[m + 1] \in [D -> D]
    BY <2>1
  <2>3. g \in [0 .. m + 1 -> D]
    BY <2>1, <2>2
  <2>4. /\ g[m + 1] = step[m + 1][f[m]]
        /\ \A k \in 0 .. m : g[k] = f[k]
    OBVIOUS
  <2>5. ASSUME NEW k \in 1 .. m + 1
        PROVE  g[k] = step[k][g[k - 1]]
    <3> HIDE DEF g
    <3>1. k - 1 \in 0 .. m
      OBVIOUS
    <3>2. CASE k = m + 1
      BY <2>4, <3>1, <3>2
    <3>3. CASE k # m + 1
      <4>1. k \in 1 .. m /\ k \in 0 .. m
        BY <3>3
      <4> QED
        BY <2>1, <2>4, <3>1, <4>1 DEF Iterates
    <3> QED
      BY <3>2, <3>3
  <2>6. g[0] = base
    BY <2>1, <2>4 DEF Iterates
  <2> HIDE DEF g
  <2> QED
    BY <2>3, <2>5, <2>6 DEF Iterates
<1>3. \A m \in Nat : m \in run
  <2> HIDE DEF run
  <2> QED
    BY <1>1, <1>2, NaturalInduction
<1> QED
  BY <1>3

(* Among one suffix more than there are occupied paths, one is free.       *)
LEMMA ChosenIsFree ==
    ASSUME NEW r, NEW base, NEW occupied, IsFiniteSet(occupied)
    PROVE  /\ Chosen(r, base, occupied) \notin occupied
           /\ \E i \in Nat : Chosen(r, base, occupied) = Destination(r, base, i)
<1> DEFINE n == Cardinality(occupied)
           free == {i \in 1 .. n + 1 : Destination(r, base, i) \notin occupied}
           S == 1 .. n + 1
           f == [i \in S |-> Destination(r, base, i)]
<1>1. n \in Nat
  BY FS_CardinalityType
<1>2. free # {}
  <2> SUFFICES ASSUME free = {} PROVE FALSE
    OBVIOUS
  <2>1. f \in [S -> occupied]
    OBVIOUS
  <2>2. IsFiniteSet(S) /\ Cardinality(S) = n + 1
    <3>1. 1 \in Int /\ n + 1 \in Int
      BY <1>1
    <3> HIDE DEF n
    <3> QED
      BY <1>1, <3>1, FS_Interval
  <2>3. Cardinality(occupied) < Cardinality(S)
    BY <1>1, <2>2
  <2>4. PICK i, j \in S : i # j /\ f[i] = f[j]
    <3> HIDE DEF S, f
    <3> QED
      BY <2>1, <2>2, <2>3, FS_PigeonHole
  <2>5. Destination(r, base, i) = Destination(r, base, j)
    BY <2>4
  <2> QED
    BY <2>4, <2>5 DEF Destination
<1>3. \E i \in free : \A j \in free : i <= j
  <2>1. free \in SUBSET Nat
    BY <1>1
  <2> HIDE DEF free
  <2> QED
    BY <1>2, <2>1, LeastNatural
<1> DEFINE least == CHOOSE i \in free : \A j \in free : i <= j
<1>4. least \in free
  <2> HIDE DEF free
  <2> QED
    BY <1>3
<1>5. Chosen(r, base, occupied) = Destination(r, base, least)
  BY DEF Chosen
<1>6. least \in Nat /\ Destination(r, base, least) \notin occupied
  <2> HIDE DEF least
  <2> QED
    BY <1>1, <1>4
<1> QED
  BY <1>5, <1>6

\* What the loop of plan_preparation keeps of what is occupied.
Accumulates(t, order, base, occupied) ==
    /\ t[0] = occupied
    /\ \A k \in 1 .. Len(order) : t[k] = t[k - 1] \cup {Chosen(order[k], base, t[k - 1])}
    /\ \A k \in 0 .. Len(order) : IsFiniteSet(t[k])

LEMMA TakenAccumulates ==
    ASSUME NEW order, Len(order) \in Nat, NEW base, NEW occupied, IsFiniteSet(occupied)
    PROVE  Accumulates(Taken(order, base, occupied), order, base, occupied)
<1> DEFINE n == Len(order)
           all == occupied \cup {Destination(order[k], base, i) : k \in 1 .. n, i \in Nat}
           D == {S \in SUBSET all : IsFiniteSet(S)}
           grow == [k \in 1 .. n |-> [S \in D |-> S \cup {Chosen(order[k], base, S)}]]
           Loops(t) == t = [k \in 0 .. n |->
                              IF k = 0 THEN occupied
                              ELSE LET before == t[k - 1]
                                   IN  before \cup {Chosen(order[k], base, before)}]
           t == CHOOSE u : Loops(u)
<1>1. ASSUME NEW k \in 1 .. n, NEW S \in D
      PROVE  S \cup {Chosen(order[k], base, S)} \in D
  <2>1. PICK i \in Nat : Chosen(order[k], base, S) = Destination(order[k], base, i)
    BY ChosenIsFree
  <2>2. IsFiniteSet(S \cup {Chosen(order[k], base, S)})
    BY FS_AddElement
  <2> QED
    BY <2>1, <2>2
<1>2. grow \in [1 .. n -> [D -> D]]
  <2> HIDE DEF D
  <2> QED
    BY <1>1
<1>3. occupied \in D
  OBVIOUS
<1>0. \A k \in 1 .. n, S \in D : grow[k][S] = S \cup {Chosen(order[k], base, S)}
  <2> HIDE DEF D
  <2> QED
    OBVIOUS
<1> HIDE DEF D, grow
<1>4. PICK f \in [0 .. n -> D] : Iterates(f, occupied, grow, n)
  BY <1>2, <1>3, IterationExists
<1>5. ASSUME NEW k \in 1 .. n
      PROVE  f[k] = f[k - 1] \cup {Chosen(order[k], base, f[k - 1])}
  <2>1. k - 1 \in 0 .. n
    OBVIOUS
  <2>2. f[k - 1] \in D
    BY <1>4, <2>1
  <2>3. f[k] = grow[k][f[k - 1]]
    BY <1>4 DEF Iterates
  <2> QED
    BY <1>0, <2>2, <2>3
<1>6. Loops(f)
  <2>1. f[0] = occupied
    BY <1>4 DEF Iterates
  <2>2. \A k \in 0 .. n : f[k] = IF k = 0 THEN occupied
                                 ELSE LET before == f[k - 1]
                                      IN  before \cup {Chosen(order[k], base, before)}
    BY <1>5, <2>1
  <2>3. f = [k \in 0 .. n |-> f[k]]
    BY <1>4
  <2> QED
    BY <2>2, <2>3
<1>7. Loops(t)
  <2> HIDE DEF Loops
  <2> QED
    BY <1>6
<1>8. Taken(order, base, occupied) = t
  BY DEF Taken
<1> HIDE DEF t
<1>9. /\ t[0] = occupied
      /\ \A k \in 1 .. n : t[k] = t[k - 1] \cup {Chosen(order[k], base, t[k - 1])}
  <2>1. \A k \in 0 .. n : t[k] = IF k = 0 THEN occupied
                                 ELSE LET before == t[k - 1]
                                      IN  before \cup {Chosen(order[k], base, before)}
    BY <1>7
  <2>2. 0 \in 0 .. n /\ \A k \in 1 .. n : k \in 0 .. n /\ k # 0
    OBVIOUS
  <2> QED
    BY <2>1, <2>2
<1> DEFINE finite == {k \in Nat : k <= n => IsFiniteSet(t[k])}
<1>10. 0 \in finite
  BY <1>9
<1>11. ASSUME NEW k \in Nat, k \in finite
       PROVE  k + 1 \in finite
  <2> SUFFICES ASSUME k + 1 <= n PROVE IsFiniteSet(t[k + 1])
    OBVIOUS
  <2>1. k + 1 \in 1 .. n /\ (k + 1) - 1 = k /\ k <= n
    OBVIOUS
  <2>2. t[k + 1] = t[k] \cup {Chosen(order[k + 1], base, t[k])}
    BY <1>9, <2>1
  <2>3. IsFiniteSet(t[k])
    BY <1>11, <2>1
  <2>4. IsFiniteSet(t[k] \cup {Chosen(order[k + 1], base, t[k])})
    BY <2>3, FS_AddElement
  <2> QED
    BY <2>2, <2>4
<1>12. \A k \in Nat : k \in finite
  <2> HIDE DEF finite
  <2> QED
    BY <1>10, <1>11, NaturalInduction
<1> QED
  BY <1>8, <1>9, <1>12 DEF Accumulates

(* What is occupied stays occupied.                                        *)
LEMMA TakenGrows ==
    ASSUME NEW order, Len(order) \in Nat, NEW base, NEW occupied, NEW t,
           Accumulates(t, order, base, occupied), NEW j \in 0 .. Len(order)
    PROVE  \A k \in 0 .. Len(order) : j <= k => t[j] \subseteq t[k]
<1> DEFINE kept == {k \in Nat : j <= k /\ k <= Len(order) => t[j] \subseteq t[k]}
<1>1. 0 \in kept
  <2>1. j <= 0 => j = 0
    OBVIOUS
  <2> QED
    BY <2>1
<1>2. ASSUME NEW k \in Nat, k \in kept
      PROVE  k + 1 \in kept
  <2> SUFFICES ASSUME j <= k + 1, k + 1 <= Len(order) PROVE t[j] \subseteq t[k + 1]
    OBVIOUS
  <2>1. k + 1 \in 1 .. Len(order) /\ (k + 1) - 1 = k /\ k <= Len(order)
    OBVIOUS
  <2>2. t[k] \subseteq t[k + 1]
    BY <2>1 DEF Accumulates
  <2>3. CASE j = k + 1
    BY <2>3
  <2>4. CASE j # k + 1
    <3>1. j <= k
      BY <2>4
    <3> QED
      BY <1>2, <2>1, <2>2, <3>1
  <2> QED
    BY <2>3, <2>4
<1>3. \A k \in Nat : k \in kept
  <2> HIDE DEF kept
  <2> QED
    BY <1>1, <1>2, NaturalInduction
<1> QED
  BY <1>3

(* The worktrees of one successor get destinations of their own, where     *)
(* nothing is recorded, listed or known.                                   *)
LEMMA GeneratedIsApart ==
    ASSUME NEW order, Len(order) \in Nat, DOMAIN order = 1 .. Len(order),
           NEW base, NEW recorded, NEW disk, NEW known,
           IsFiniteSet(Occupied(ToSet(order), base, recorded, disk, known))
    PROVE  LET planned == Generated(order, base,
                              Occupied(ToSet(order), base, recorded, disk, known))
           IN  /\ DOMAIN planned = 1 .. Len(order)
               /\ \A k \in 1 .. Len(order) :
                     planned[k].destination \notin recorded \cup disk \cup known[planned[k].repository]
               /\ \A j, k \in 1 .. Len(order) :
                     j # k => planned[j].destination # planned[k].destination
<1> DEFINE occupied == Occupied(ToSet(order), base, recorded, disk, known)
           t == Taken(order, base, occupied)
           n == Len(order)
           planned == Generated(order, base, occupied)
<1>1. Accumulates(t, order, base, occupied)
  <2> HIDE DEF occupied
  <2> QED
    BY TakenAccumulates DEF occupied
<1>2. /\ DOMAIN planned = 1 .. n
      /\ \A k \in 1 .. n : /\ planned[k].repository = order[k]
                           /\ planned[k].destination = Chosen(order[k], base, t[k - 1])
  BY DEF Generated
<1> HIDE DEF planned, t, occupied
<1>3. ASSUME NEW k \in 1 .. n
      PROVE  /\ planned[k].destination \notin t[k - 1]
             /\ planned[k].destination \in t[k]
             /\ \E i \in Nat : planned[k].destination = Destination(order[k], base, i)
  <2>1. k - 1 \in 0 .. n
    OBVIOUS
  <2>2. IsFiniteSet(t[k - 1]) /\ t[k] = t[k - 1] \cup {Chosen(order[k], base, t[k - 1])}
    BY <1>1, <2>1 DEF Accumulates
  <2> QED
    BY <1>2, <2>2, ChosenIsFree
<1>4. ASSUME NEW k \in 1 .. n
      PROVE  planned[k].destination \notin recorded \cup disk \cup known[planned[k].repository]
  <2>1. planned[k].destination \notin occupied
    <3>1. 0 \in 0 .. n /\ k - 1 \in 0 .. n /\ 0 <= k - 1
      OBVIOUS
    <3>2. t[0] \subseteq t[k - 1]
      BY <1>1, <3>1, TakenGrows
    <3> QED
      BY <1>1, <1>3, <3>2 DEF Accumulates
  <2>2. order[k] \in ToSet(order)
    BY DEF ToSet
  <2>3. recorded \cup Listed(order[k], base, disk) \cup known[order[k]] \subseteq occupied
    BY <2>2 DEF occupied, Occupied
  <2>4. planned[k].destination \in disk => planned[k].destination \in Listed(order[k], base, disk)
    <3>1. PICK i \in Nat : planned[k].destination = Destination(order[k], base, i)
      BY <1>3
    <3>2. /\ planned[k].destination.directory = Base(order[k], base)
          /\ planned[k].destination.name = Checkout[order[k]].name
      BY <3>1 DEF Destination
    <3> QED
      BY <3>2 DEF Listed
  <2> QED
    BY <1>2, <2>1, <2>3, <2>4
<1>5. ASSUME NEW j \in 1 .. n, NEW k \in 1 .. n, j < k
      PROVE  planned[j].destination # planned[k].destination
  <2>1. j \in 0 .. n /\ k - 1 \in 0 .. n /\ j <= k - 1
    BY <1>5
  <2>2. t[j] \subseteq t[k - 1]
    BY <1>1, <2>1, TakenGrows
  <2> QED
    BY <1>3, <2>2
<1>6. \A j, k \in 1 .. n : j # k => planned[j].destination # planned[k].destination
  <2>1. \A j, k \in 1 .. n : j # k => j < k \/ k < j
    OBVIOUS
  <2> QED
    BY <1>5, <2>1
<1> QED
  BY <1>2, <1>4, <1>6 DEF planned, occupied

(* Destinations of two successors, whatever order their repositories come  *)
(* in.                                                                     *)
LEMMA PairIsApart ==
    ASSUME GrowthAssumption,
           NEW order, Len(order) \in Nat, DOMAIN order = 1 .. Len(order),
           ToSet(order) \subseteq Repositories,
           NEW base, NEW recorded, IsFiniteSet(recorded), NEW disk, IsFiniteSet(disk),
           NEW listed \in Listings
    PROVE  LET planned == Generated(order, base,
                              Occupied(ToSet(order), base, recorded, disk, listed))
           IN  /\ IsFiniteSet(DestinationsOf(planned))
               /\ IsInjective(Placement(planned))
               /\ DestinationsOf(planned) \cap recorded = {}
               /\ \A k \in DOMAIN planned :
                     planned[k].destination \notin disk \cup listed[planned[k].repository]
<1> DEFINE occupied == Occupied(ToSet(order), base, recorded, disk, listed)
           planned == Generated(order, base, occupied)
           at == Placement(planned)
<1>1. IsFiniteSet(occupied)
  <2>1. occupied \subseteq recorded \cup disk \cup Strange
    BY GrowthAssumption DEF Occupied, Listed
  <2>2. IsFiniteSet(recorded \cup disk \cup Strange)
    BY GrowthAssumption, FS_Union
  <2> HIDE DEF occupied
  <2> QED
    BY <2>1, <2>2, FS_Subset
<1>2. /\ DOMAIN planned = 1 .. Len(order)
      /\ \A k \in 1 .. Len(order) :
            planned[k].destination \notin recorded \cup disk \cup listed[planned[k].repository]
      /\ \A j, k \in 1 .. Len(order) :
            j # k => planned[j].destination # planned[k].destination
  BY <1>1, GeneratedIsApart
<1> HIDE DEF planned, occupied
<1>3. IsFiniteSet(DestinationsOf(planned))
  <2>1. IsFiniteSet(1 .. Len(order))
    BY FS_Interval
  <2>2. IsFiniteSet({at[k] : k \in DOMAIN planned})
    <3> HIDE DEF at
    <3> QED
      BY <1>2, <2>1, FiniteImage
  <2>3. {at[k] : k \in DOMAIN planned} = DestinationsOf(planned)
    BY DEF DestinationsOf, Placement
  <2> QED
    BY <2>2, <2>3
<1>4. IsInjective(at)
  <2>1. \A j, k \in DOMAIN at : at[j] = at[k] => j = k
    BY <1>2 DEF Placement
  <2> QED
    BY <2>1 DEF IsInjective
<1>5. DestinationsOf(planned) \cap recorded = {}
  BY <1>2 DEF DestinationsOf
<1> QED
  BY <1>2, <1>3, <1>4, <1>5 DEF planned, occupied

(* The repositories of a known claim can be put in an order.               *)
LEMMA OrdersAreFinite ==
    ASSUME GrowthAssumption, Sound(graph), NEW order \in Orders
    PROVE  /\ Len(order) \in Nat
           /\ DOMAIN order = 1 .. Len(order)
           /\ ToSet(order) \subseteq Repositories
<1>1. PICK s \in Shapes : Known(s) /\ order \in SetToSeqs(WorkRepositories(graph, s.claim))
  BY DEF Orders
<1> DEFINE work == WorkRepositories(graph, s.claim)
           held == HeldAuthorities(graph, s.claim)
           host == [a \in held |-> Host(graph, a)]
<1>2. /\ s.claim \in Claims
      /\ KnownClaim(graph, s.claim)
      /\ graph \in Graphs
      /\ \A d \in graph.dependencies : d.authority \in Identifiers(graph)
  BY <1>1, GrowthAssumption DEF Known, Sound, ValidGraph, DependenciesAreAcyclic
<1>3. work \subseteq Repositories
  BY <1>2, WorkType
<1>4. IsFiniteSet(work)
  <2>1. IsFiniteSet(held)
    <3> HIDE DEF held
    <3>1. held \subseteq Identifiers(graph)
      BY <1>2, HeldRegistered DEF held
    <3> QED
      BY <3>1, FiniteEdges, FS_Subset DEF Sound
  <2>2. IsFiniteSet({host[a] : a \in held})
    <3> HIDE DEF held, host
    <3> QED
      BY <2>1, FiniteImage
  <2>3. IsFiniteSet(s.claim.repositories)
    BY <1>2, FS_Subset DEF KnownClaim, Sound
  <2>4. work = s.claim.repositories \cup {host[a] : a \in held}
    BY DEF WorkRepositories
  <2> HIDE DEF work, host
  <2> QED
    BY <2>2, <2>3, <2>4, FS_Union
<1>5. Cardinality(work) \in Nat
  <2> HIDE DEF work
  <2> QED
    BY <1>4, FS_CardinalityType
<1>6. order \in [1 .. Cardinality(work) -> work]
  BY <1>1 DEF SetToSeqs
<1> HIDE DEF work
<1>7. order \in Seq(work) /\ Len(order) = Cardinality(work)
  BY <1>5, <1>6
<1> QED
  BY <1>3, <1>5, <1>6, <1>7 DEF ToSet

(* No two worktrees of two successors have one destination, and none has   *)
(* one that is taken, for any checkouts, bases, leftovers and listings.    *)
THEOREM Destinations_AreApart == GrowthSpec => []DestinationsAreApart
<1>1. ASSUME Sound(graph), NEW order \in Orders, NEW after \in Orders,
             NEW base \in Bases, NEW later \in Bases,
             NEW disk \in SUBSET Strange, NEW listed \in Listings, NEW gone \in BOOLEAN
      PROVE  LET first   == Generated(order, base, Occupied(ToSet(order), base, {}, disk, listed))
                 named   == DestinationsOf(first)
                 present == IF gone THEN disk ELSE disk \cup named
                 second  == Generated(after, later,
                                Occupied(ToSet(after), later, named, present, listed))
             IN  /\ IsInjective(Placement(first))
                 /\ IsInjective(Placement(second))
                 /\ DestinationsOf(second) \cap named = {}
                 /\ \A k \in DOMAIN first :
                       first[k].destination \notin disk \cup listed[first[k].repository]
                 /\ \A k \in DOMAIN second :
                       second[k].destination \notin present \cup listed[second[k].repository]
  <2> DEFINE first   == Generated(order, base, Occupied(ToSet(order), base, {}, disk, listed))
             named   == DestinationsOf(first)
             present == IF gone THEN disk ELSE disk \cup named
             second  == Generated(after, later,
                            Occupied(ToSet(after), later, named, present, listed))
  <2>1. IsFiniteSet(disk) /\ IsFiniteSet({})
    BY GrowthAssumption, FS_Subset, FS_EmptySet
  <2>2. /\ IsFiniteSet(named)
        /\ IsInjective(Placement(first))
        /\ \A k \in DOMAIN first :
              first[k].destination \notin disk \cup listed[first[k].repository]
    BY <1>1, <2>1, GrowthAssumption, OrdersAreFinite, PairIsApart
  <2> HIDE DEF first
  <2>3. IsFiniteSet(present)
    <3> HIDE DEF named
    <3> QED
      BY <2>1, <2>2, FS_Union
  <2> HIDE DEF named, present
  <2>4. /\ IsInjective(Placement(second))
        /\ DestinationsOf(second) \cap named = {}
        /\ \A k \in DOMAIN second :
              second[k].destination \notin present \cup listed[second[k].repository]
    BY <1>1, <2>2, <2>3, GrowthAssumption, OrdersAreFinite, PairIsApart
  <2> QED
    BY <2>2, <2>4 DEF first, named, present
<1>2. Sound(graph) => DestinationsAreApart
  BY <1>1 DEF DestinationsAreApart
<1> QED
  BY <1>2, SoundAlways, PTL
=============================================================================
