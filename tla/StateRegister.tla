---------------------------- MODULE StateRegister ---------------------------
(***************************************************************************)
(* What the lifecycle relies on: a document that callers observe and then  *)
(* replace in one step, provided that it is still, contents and all, the   *)
(* document they observed.  An operation that decides between the two may  *)
(* therefore be taken as one atomic step.                                  *)
(***************************************************************************)
EXTENDS Naturals

CONSTANTS
    Clients,
    Edits,      \* what a transform can put into the document or take out
    Nothing     \* the snapshot of a caller that has none

Documents == [generation : Nat, contents : SUBSET Edits]

VARIABLES
    document,   \* the durable document
    snapshot    \* what each caller observed

registerVars == <<document, snapshot>>

RegisterInit ==
    /\ document = [generation |-> 0, contents |-> {}]
    /\ snapshot = [c \in Clients |-> Nothing]

Observe(c) ==
    /\ snapshot' = [snapshot EXCEPT ![c] = document]
    /\ UNCHANGED document

Commit(c) ==
    /\ snapshot[c] = document
    /\ \E contents \in SUBSET Edits :
          document' = [generation |-> document.generation + 1, contents |-> contents]
    /\ snapshot' = [snapshot EXCEPT ![c] = Nothing]

\* The operation is refused, its snapshot is stale, or its caller dies.
Forget(c) ==
    /\ snapshot' = [snapshot EXCEPT ![c] = Nothing]
    /\ UNCHANGED document

RegisterNext == \E c \in Clients : Observe(c) \/ Commit(c) \/ Forget(c)

RegisterSpec == RegisterInit /\ [][RegisterNext]_registerVars
=============================================================================
