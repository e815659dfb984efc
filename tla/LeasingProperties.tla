------------------------- MODULE LeasingProperties --------------------------
(***************************************************************************)
(* What the lifecycle of spaces and leases promises.                       *)
(***************************************************************************)
EXTENDS Leasing

(* One logical authority, and every authority above and below it, has at   *)
(* most one writable owner, in the graph as it is now: no interleaving of  *)
(* lock, isolate, release and topology growth breaks it.                   *)
ExclusiveAuthority ==
    \A k, l \in leases :
        k.owner # l.owner => ~Conflicting(graph, k.authority, l.authority)

(* A lease owner's leases are exactly the held set of its record, or the   *)
(* record no longer matches its plan and every topology growth is refused  *)
(* until it lets go: a growth is never judged by a held set that is not    *)
(* what is leased.                                                         *)
AccountedOrFrozen ==
    \A s \in Owners : LeasesOf(s) = spaces[s].held \/ spaces[s].held # Plan(s)

(* No space leases an authority outside the writable closure of its claim, *)
(* even when the closure was resolved before the successor was published.  *)
LeasesWithinPlan == \A s \in Owners : LeasesOf(s) \subseteq Plan(s)

(* Generated work outlives release and recovery as integration debt: every *)
(* generated member of a released space has a reconciliation record.       *)
ReleasedWorkIsOwed ==
    \A s \in Spaces : spaces[s].status = "released" =>
        \A r \in spaces[s].generated : debts[s][r] # "none"

(* A worktree the lifecycle made is never without a durable record of its  *)
(* space that names it, whatever call was interrupted: the reservation     *)
(* comes before the worktree.                                              *)
WorktreesAreRecorded ==
    \A w \in worktrees : Exists(w[1]) /\ w[2] \in spaces[w[1]].generated

(* Two calls never prepare the same successor, so no two of them create    *)
(* worktrees for one reservation: a name is reserved by one commit only.   *)
OnePreparerPerSuccessor ==
    \A c, d \in Clients :
        /\ calls[c] \in PrepareCalls
        /\ calls[d] \in PrepareCalls
        /\ calls[c].space = calls[d].space
        => c = d

-----------------------------------------------------------------------------
(* The inductive strengthening of the above, for any caller.               *)

(* Every claim and every dependency names registered endpoints, so a plan  *)
(* can always be resolved to repositories.                                 *)
KnownEndpoints ==
    /\ \A d \in graph.dependencies : d.authority \in Identifiers(graph)
    /\ \A s \in Spaces : KnownClaim(graph, spaces[s].claim)

(* A space whose shape can still change owns no lease.                     *)
UnshapedOwnsNothing ==
    \A s \in Owners : spaces[s].status \notin {"absent", "draft"}

(* While a successor is prepared its shape is fixed, the worktrees of the  *)
(* call are those of its record, and it holds nothing or its whole plan.   *)
PreparationsAccounted ==
    \A c \in Clients : calls[c] \in PrepareCalls =>
        /\ spaces[calls[c].space].status \notin {"absent", "draft"}
        /\ calls[c].work \subseteq spaces[calls[c].space].generated
        /\ LeasesOf(calls[c].space) \in {{}, Plan(calls[c].space)}

(* What a preparation will lease is within the plan of its successor, also *)
(* when the plan has grown since the reservation.                          *)
PreparationsWithinPlan ==
    \A c \in Clients :
        calls[c] \in PrepareCalls => calls[c].held \subseteq Plan(calls[c].space)

(* What every step preserves.                                              *)
Inductive ==
    /\ KnownEndpoints
    /\ UnshapedOwnsNothing
    /\ PreparationsAccounted
    /\ OnePreparerPerSuccessor
    /\ WorktreesAreRecorded
    /\ AccountedOrFrozen
    /\ ExclusiveAuthority
    /\ LeasesWithinPlan
    /\ PreparationsWithinPlan

-----------------------------------------------------------------------------
(* Promises that hold when callers follow the documented protocol.  Of the *)
(* protocol each promise needs the part that its theorem names.            *)

\* What preparation has not published, or has given up, is not locked,
\* released, recovered or finalized.
PreparationsLeftAlone ==
    \A op \in {"lock", "release", "recover", "finalize"} :
        CallableFrom[op] \cap {"preparing", "preparation_failed", "rolled_back"} = {}

\* What is finalized was released.
FinalizesReleased == CallableFrom["finalize"] \subseteq {"released", "finalized"}

\* A released space is neither locked nor released again.
ReleasesOnce ==
    /\ CallableFrom["lock"] \subseteq {"draft", "deferred", "locked"}
    /\ CallableFrom["release"] \subseteq {"locked"}

(* Only a locked space owns leases, and its held set is what it leases: a  *)
(* deferred, failed, released or finalized space can write nowhere.        *)
OnlyLockedOwns ==
    \A s \in Spaces :
        /\ LeasesOf(s) = spaces[s].held
        /\ spaces[s].held # {} => spaces[s].status = "locked"

(* A finalized space has a reconciled or abandoned record for every member *)
(* generated for it, and none of their worktrees is left.                  *)
FinalizedIsDisposed ==
    \A s \in Spaces : spaces[s].status = "finalized" =>
        \A r \in spaces[s].generated :
            debts[s][r] \in {"reconciled", "abandoned"} /\ <<s, r>> \notin worktrees

(* A deferred successor is promoted to exactly the plan it was deferred    *)
(* with, and only when each of its blockers has a handoff disposition,     *)
(* whatever the topology and the blockers did in between.                  *)
PromotionKeepsPlan ==
    [][\A s \in Spaces :
          spaces[s].status = "deferred" /\ spaces'[s].status = "locked" =>
              /\ spaces'[s].held = reservedPlan[s]
              /\ \A b \in spaces[s].blockers : spaces[b].disposition \in Dispositions]_vars

(* Integration debt only advances: a record is never dropped, and a        *)
(* resolved member is never pending again.                                 *)
DebtOnlyAdvances ==
    [][\A s \in Spaces, r \in Repositories :
          /\ debts[s][r] # "none" => debts'[s][r] # "none"
          /\ debts[s][r] \in {"reconciled", "abandoned"} =>
                debts'[s][r] \in {"reconciled", "abandoned"}]_vars

(* A reserved successor is eventually published or recorded as failed.     *)
PreparationEnds ==
    \A s \in Spaces : spaces[s].status = "preparing" ~> spaces[s].status # "preparing"

-----------------------------------------------------------------------------
(* A statement of the specifications that the code does not keep.          *)

(* "The system SHALL acquire the complete writable authority closure of    *)
(* the affected claim as one operation": a locked space holds the closure  *)
(* of its claim in the current graph.                                      *)
LockedHoldsPlan ==
    \A s \in Spaces : spaces[s].status = "locked" => spaces[s].held = Plan(s)
=============================================================================
