------------------------------- MODULE Cohort -------------------------------
(***************************************************************************)
(* What a reconciliation promises of a released cohort: the work of a      *)
(* member reaches its repository after the work of the members it depends  *)
(* on, and is recorded as reconciled only once it is there.  This is the   *)
(* view that Leasing takes of a reconciliation, one integration a step.    *)
(***************************************************************************)
CONSTANTS
    Members,        \* repositories with generated work
    Dependencies    \* pairs of a consumer and its provider

VARIABLES
    integrated,     \* members whose work has reached their repository
    status          \* the reconciliation records

vars == <<integrated, status>>

RecordStatuses == {"none", "pending", "reconciled", "abandoned"}

Init ==
    /\ integrated = {}
    /\ status = [r \in Members |-> "none"]

Integrate(r) ==
    /\ \A provider \in Members : <<r, provider>> \in Dependencies => provider \in integrated
    /\ integrated' = integrated \cup {r}
    /\ UNCHANGED status

Record(r) ==
    /\ r \in integrated
    /\ status' = [status EXCEPT ![r] = "reconciled"]
    /\ UNCHANGED integrated

Abandon(r) ==
    /\ status[r] # "none"
    /\ status' = [status EXCEPT ![r] = "abandoned"]
    /\ UNCHANGED integrated

\* Every release owes the whole cohort again.
Owe ==
    /\ status' = [r \in Members |-> "pending"]
    /\ UNCHANGED integrated

Next == Owe \/ \E r \in Members : Integrate(r) \/ Record(r) \/ Abandon(r)

Spec == Init /\ [][Next]_vars

-----------------------------------------------------------------------------
(* What a repository that the work has reached, and a record that says so, *)
(* tell of the others: every provider of the member came before it.        *)
ProvidersAreThere ==
    /\ \A r \in Members : status[r] = "reconciled" => r \in integrated
    /\ \A r \in integrated, provider \in Members :
           <<r, provider>> \in Dependencies => provider \in integrated
=============================================================================
