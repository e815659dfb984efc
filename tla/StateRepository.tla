--------------------------- MODULE StateRepository --------------------------
(***************************************************************************)
(* The durable state document: utils/state_repository.py, with the callers *)
(* of OpenLease that read a snapshot, decide, and commit.                  *)
(*                                                                         *)
(* load reads the index without the file lock.  mutate takes the lock,     *)
(* reads the index again, compares generations, applies the transform,     *)
(* writes and syncs a temporary file, and renames it over the index.  A    *)
(* process can die between any two steps; the operating system then frees  *)
(* its lock, and its temporary file stays behind under a name nobody uses. *)
(* A power failure, which can lose a synced rename, is left out.           *)
(***************************************************************************)
EXTENDS Naturals

CONSTANTS
    Clients,
    Edits,          \* what a transform can put into the document or take out
    Nothing,        \* no snapshot, no candidate, no lock owner
    MaxGeneration   \* bound on the generations explored

ASSUME RepositoryAssumption ==
    /\ Nothing \notin Clients
    /\ MaxGeneration \in Nat

Documents == [generation : Nat, contents : SUBSET Edits]

VARIABLES
    index,      \* the document that the index file holds
    lock,       \* the owner of state.lock
    phase,      \* how far each caller is
    snapshot,   \* the document that each caller planned with
    candidate   \* what each caller writes

vars == <<index, lock, phase, snapshot, candidate>>

\* What a caller that holds the lock can be about to do.
LockedPhases == {"locked", "checked", "written", "replaced"}

Phases == {"idle", "observed"} \cup LockedPhases

TypeOK ==
    /\ index \in Documents
    /\ lock \in Clients \cup {Nothing}
    /\ phase \in [Clients -> Phases]
    /\ snapshot \in [Clients -> Documents \cup {Nothing}]
    /\ candidate \in [Clients -> Documents \cup {Nothing}]

\* No index file is read as an empty document of generation 0.
Init ==
    /\ index = [generation |-> 0, contents |-> {}]
    /\ lock = Nothing
    /\ phase = [c \in Clients |-> "idle"]
    /\ snapshot = [c \in Clients |-> Nothing]
    /\ candidate = [c \in Clients |-> Nothing]

\* A transform puts an edit into the contents or takes it out, so contents
\* can return to what they were at an earlier generation.
Toggled(contents, edit) == (contents \ {edit}) \cup ({edit} \ contents)

At(c, before, after) ==
    /\ phase[c] = before
    /\ phase' = [phase EXCEPT ![c] = after]

\* The caller is done with the lock and with its call.
Leaves(c) ==
    /\ phase' = [phase EXCEPT ![c] = "idle"]
    /\ lock' = Nothing

-----------------------------------------------------------------------------
Load(c) ==
    /\ At(c, "idle", "observed")
    /\ snapshot' = [snapshot EXCEPT ![c] = index]
    /\ UNCHANGED <<index, lock, candidate>>

Acquire(c) ==
    /\ lock = Nothing
    /\ At(c, "observed", "locked")
    /\ lock' = c
    /\ UNCHANGED <<index, snapshot, candidate>>

\* The lock is not had within its ten seconds.
AcquireTimesOut(c) ==
    /\ lock # Nothing
    /\ At(c, "observed", "idle")
    /\ UNCHANGED <<index, lock, snapshot, candidate>>

\* Mutant: whatever is in the index is replaced.
Current_Always(c) == TRUE

\* Mutant: contents are compared instead of generations.
Current_SameContents(c) == index.contents = snapshot[c].contents

Current(c) == index.generation = snapshot[c].generation

\* The transform is applied to what was read under the lock.
Transform(c) ==
    /\ At(c, "locked", "checked")
    /\ Current(c)
    /\ index.generation < MaxGeneration
    /\ \E edit \in Edits :
          candidate' = [candidate EXCEPT ![c] =
              [generation |-> index.generation + 1,
               contents   |-> Toggled(index.contents, edit)]]
    /\ UNCHANGED <<index, lock, snapshot>>

\* Mutant: the lock is not released on the way out.
Refuse_KeepsLock(c) ==
    /\ At(c, "locked", "idle")
    /\ UNCHANGED <<index, lock, snapshot, candidate>>

\* StaleStateError, or the transform refuses.
Refuse(c) ==
    /\ phase[c] = "locked"
    /\ Leaves(c)
    /\ UNCHANGED <<index, snapshot, candidate>>

\* atomic_write: a temporary file is filled and synced, and then renamed.
\* Nobody reads it under its temporary name.
WriteTemporary(c) ==
    /\ At(c, "checked", "written")
    /\ UNCHANGED <<index, lock, snapshot, candidate>>

\* The write, the sync or the rename fails.
WriteFails(c) ==
    /\ phase[c] \in {"checked", "written"}
    /\ Leaves(c)
    /\ UNCHANGED <<index, snapshot, candidate>>

Replace(c) ==
    /\ At(c, "written", "replaced")
    /\ index' = candidate[c]
    /\ UNCHANGED <<lock, snapshot, candidate>>

Unlock(c) ==
    /\ phase[c] = "replaced"
    /\ Leaves(c)
    /\ UNCHANGED <<index, snapshot, candidate>>

\* The process dies, and with it its hold on the lock.
Crash(c) ==
    /\ phase[c] # "idle"
    /\ phase' = [phase EXCEPT ![c] = "idle"]
    /\ lock' = IF lock = c THEN Nothing ELSE lock
    /\ UNCHANGED <<index, snapshot, candidate>>

\* What a caller does once it holds the lock.
Proceed(c) ==
    \/ Transform(c)
    \/ Refuse(c)
    \/ WriteTemporary(c)
    \/ WriteFails(c)
    \/ Replace(c)
    \/ Unlock(c)

Next ==
    \E c \in Clients :
        \/ Load(c)
        \/ Acquire(c)
        \/ AcquireTimesOut(c)
        \/ Proceed(c)
        \/ Crash(c)

Spec == Init /\ [][Next]_vars

\* A process that holds the lock keeps running, or dies.
Fairness == \A c \in Clients : WF_vars(Proceed(c))

FairSpec == Spec /\ Fairness

-----------------------------------------------------------------------------
(* A caller that passed the generation check works on the very document it *)
(* planned with: equal generations mean equal contents, although contents  *)
(* can return to an earlier value.                                         *)
CommitSeesItsSnapshot ==
    \A c \in Clients :
        phase[c] \in {"checked", "written"} => snapshot[c] = index

(* No call keeps the lock for ever, however it ends.                       *)
LockIsReleased == lock # Nothing ~> lock = Nothing

\* A caller has a snapshot until its rename, which is the commit.
observed ==
    [c \in Clients |-> IF phase[c] \in {"idle", "replaced"} THEN Nothing ELSE snapshot[c]]

Register == INSTANCE StateRegister WITH document <- index, snapshot <- observed

(* Observing and committing are atomic to the callers: the repository      *)
(* implements the register.                                                *)
ImplementsRegister == Register!RegisterSpec
=============================================================================
