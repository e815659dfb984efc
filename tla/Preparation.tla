---------------------------- MODULE Preparation -----------------------------
(***************************************************************************)
(* Where a successor's worktrees are going to be: plan_preparation of      *)
(* core/preparation.py over the paths that _prepare_successor finds        *)
(* occupied.  Leasing identifies a generated worktree by its space and its *)
(* repository; that is sound because no two of them have one destination.  *)
(***************************************************************************)
EXTENDS AuthorityGraph, SequencesExt

CONSTANTS
    Checkout,   \* the directory that a repository's checkout is in, and its name
    None        \* no configured worktree base

\* The configured worktree base, else beside the repository's checkout.
Base(r, base) == IF base = None THEN Checkout[r].directory ELSE base

\* "<name>-olease-<suffix>"
Destination(r, base, suffix) ==
    [directory |-> Base(r, base), name |-> Checkout[r].name, suffix |-> suffix]

\* The glob "<name>-olease-*" in the base directory.
Listed(r, base, disk) ==
    {p \in disk : p.directory = Base(r, base) /\ p.name = Checkout[r].name}

\* Mutant: what is only recorded is free again.
Occupied_OnDisk(work, base, recorded, disk, known) ==
    UNION {Listed(r, base, disk) \cup known[r] : r \in work}

\* What no destination may be: the paths that records of any space name, those
\* that lie in the base directories, and those that Git knows as worktrees,
\* whether or not they are still there.
Occupied(work, base, recorded, disk, known) ==
    recorded \cup UNION {Listed(r, base, disk) \cup known[r] : r \in work}

\* The least suffix that is free.
Chosen(r, base, occupied) ==
    LET free == {i \in 1 .. Cardinality(occupied) + 1 : Destination(r, base, i) \notin occupied}
    IN  Destination(r, base, CHOOSE i \in free : \A j \in free : i <= j)

\* What is occupied after k of the repositories, in this order, have got their
\* destination: each occupies its own for those that follow.
Taken(order, base, occupied) ==
    LET taken[k \in 0 .. Len(order)] ==
          IF k = 0 THEN occupied
          ELSE LET before == taken[k - 1]
               IN  before \cup {Chosen(order[k], base, before)}
    IN  taken

\* The worktrees of a successor that works in these repositories.
Generated(order, base, occupied) ==
    [k \in DOMAIN order |->
        [repository  |-> order[k],
         destination |-> Chosen(order[k], base, Taken(order, base, occupied)[k - 1])]]

Placement(planned) == [k \in DOMAIN planned |-> planned[k].destination]

DestinationsOf(planned) == {planned[k].destination : k \in DOMAIN planned}
=============================================================================
