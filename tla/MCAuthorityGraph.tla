-------------------------- MODULE MCAuthorityGraph --------------------------
(***************************************************************************)
(* A monorepo and a second repository, three authorities and every graph   *)
(* that they can grow into, with the destinations that successors of the   *)
(* spaces in them get.                                                     *)
(***************************************************************************)
EXTENDS GraphGrowth

CONSTANTS r1, r2, a1, a2, a3, here, there, shared

MCRepositories == {r1, r2}
MCAuthorities  == {a1, a2, a3}

\* The directory of a2 is inside that of a1; a3 is all of r2.
MCDirectory == [a \in MCAuthorities |->
    CASE a = a1 -> <<"openspec">> [] a = a2 -> <<"openspec", "core">> [] a = a3 -> <<>>]

MCChanges ==
    [repository : {r1, r2},
     path : {<<"readme">>, <<"openspec", "plan">>, <<"openspec", "core", "plan">>}]

\* Two checkouts of one name, and a base that both can be configured with.
MCCheckout == [r \in MCRepositories |->
    [directory |-> IF r = r1 THEN here ELSE there, name |-> "product"]]

\* a1 and a2 live in the monorepo r1, a3 in r2.
MCHosted ==
    {[identifier |-> a1, repository |-> r1],
     [identifier |-> a2, repository |-> r1],
     [identifier |-> a3, repository |-> r2]}

MCRelated ==
    {[consumer |-> r1, authority |-> a3, access |-> "writable"],
     [consumer |-> r2, authority |-> a1, access |-> "read_only"],
     [consumer |-> a1, authority |-> a2, access |-> "writable"],
     [consumer |-> a2, authority |-> a3, access |-> "writable"],
     [consumer |-> a3, authority |-> a1, access |-> "read_only"]}

MCShapes ==
    {[associated |-> r, claim |-> c] :
        r \in {{}, {r1}},
        c \in {[repositories |-> {r1}, authorities |-> {}],
               [repositories |-> {}, authorities |-> {a1}],
               [repositories |-> {r2}, authorities |-> {a2}],
               [repositories |-> {}, authorities |-> {a3}]}}

\* A directory that lies there, or a worktree of r1 that Git still lists.
MCStrange == [directory : {here, shared}, name : {"product"}, suffix : {1}]

MCListings == {[r \in MCRepositories |-> IF r = r1 THEN stale ELSE {}] : stale \in SUBSET MCStrange}

ASSUME MCKinds == KindsAreApart
=============================================================================
