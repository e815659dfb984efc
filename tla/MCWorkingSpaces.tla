-------------------------- MODULE MCWorkingSpaces ---------------------------
EXTENDS WorkingSpaces, TLC

CONSTANTS mono, w1, one, other, c1, c2, narrow, wide, pinned

MCRepositoryOf == [w \in Worktrees |-> mono]

\* A successor can be named like a temporary space.
MCSuccessors == {<<mono, 2>>}

MCHandled == {<<mono, 1>>}

\* The wide shape claims an authority of a repository that is not associated:
\* it is shown as soon as the lock has recorded a member for it.
MCFolders ==
    [shown \in Shapes \X BOOLEAN |->
        IF shown[1] = "wide" /\ shown[2] THEN pinned
        ELSE IF shown[1] = "wide" THEN wide ELSE narrow]

Symmetry == Permutations(Sessions) \cup Permutations(Clients)
=============================================================================
