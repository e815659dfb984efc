--------------------------- MODULE BoundaryAudit ----------------------------
(***************************************************************************)
(* The audit of changed paths before a release and before a reconciliation:*)
(* audit_authority_boundaries of core/graph.py over what                   *)
(* worktree_changed_paths of utils/git_adapter.py lists, tracked changes   *)
(* since the member's starting commit and untracked files alike.           *)
(***************************************************************************)
EXTENDS AuthorityGraph, SequencesExt

CONSTANTS
    Directory,  \* the directory of an authority in its repository, by segments
    Changes     \* [repository, path] that a member's worktree can show changed

ASSUME DirectoryAssumption ==
    /\ Directory \in [Authorities -> Seq(STRING)]
    /\ \A x \in Changes : x.repository \in Repositories /\ x.path \in Seq(STRING)

\* A directory matches itself and what lies in it.  The root of a repository
\* is written ".", which no listed path starts with.
Matches(a, path) == Directory[a] # <<>> /\ IsPrefix(Directory[a], path)

\* The authorities whose directory a changed path is in.
Candidates(g, x) ==
    {a \in Identifiers(g) : Host(g, a) = x.repository /\ Matches(a, x.path)}

\* The one that answers for the path is the innermost.
Answering(g, x) ==
    {a \in Candidates(g, x) :
        \A b \in Candidates(g, x) : Len(Directory[b]) <= Len(Directory[a])}

\* Mutant: holding any enclosing authority is enough.
Exceeds_AnyHeld(g, held, x) == Candidates(g, x) # {} /\ Candidates(g, x) \cap held = {}

\* The change is a violation for a space that holds `held`.
Exceeds(g, held, x) ==
    Answering(g, x) # {} /\ (CHOOSE a \in Answering(g, x) : TRUE) \notin held

\* _assert_boundary_safe: no member of the space shows a violation.
BoundarySafe(g, held, changed) == \A x \in changed : ~Exceeds(g, held, x)
=============================================================================
