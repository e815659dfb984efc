------------------------ MODULE StateRepository_proofs ----------------------
(***************************************************************************)
(* Proof that the repository of the state document implements the register *)
(* that the lifecycle relies on, for any callers, edits and generations.   *)
(***************************************************************************)
EXTENDS StateRepository, TLAPS

(* The caller that holds the lock is the one that is between taking and    *)
(* leaving it.                                                             *)
LockOwned == \A c \in Clients : phase[c] \in LockedPhases <=> lock = c

(* A snapshot in use is an earlier document, or the present one.           *)
SnapshotsAreOld ==
    \A c \in Clients : phase[c] # "idle" =>
        /\ snapshot[c] \in Documents
        /\ snapshot[c].generation <= index.generation
        /\ snapshot[c].generation = index.generation => snapshot[c] = index

(* From the generation check to the rename the index stands still.         *)
CheckedIsCurrent ==
    \A c \in Clients : phase[c] \in {"checked", "written"} =>
        /\ snapshot[c].generation = index.generation
        /\ candidate[c] \in Documents
        /\ candidate[c].generation = index.generation + 1

RepositoryInv == TypeOK /\ LockOwned /\ SnapshotsAreOld /\ CheckedIsCurrent

LEMMA InitInv == Init => RepositoryInv
BY RepositoryAssumption
DEF RepositoryAssumption, Init, RepositoryInv, TypeOK, LockOwned, SnapshotsAreOld,
    CheckedIsCurrent, Documents, Phases, LockedPhases

\* Of what a step leaves: only the phase of c and the lock can differ.
Alone(c) ==
    /\ UNCHANGED <<index, snapshot, candidate>>
    /\ \A d \in Clients \ {c} : phase'[d] = phase[d]

(* A call that ends, in whatever way, leaves the others alone.             *)
LEMMA LeavingInv ==
    ASSUME RepositoryInv, NEW c \in Clients, Alone(c), phase' \in [Clients -> Phases],
           phase'[c] = "idle",
           lock' = IF lock = c THEN Nothing ELSE lock
    PROVE  RepositoryInv'
<1>1. TypeOK'
  BY DEF RepositoryInv, TypeOK, Alone
<1>2. LockOwned'
  BY RepositoryAssumption DEF RepositoryInv, LockOwned, Alone, LockedPhases, RepositoryAssumption
<1>3. SnapshotsAreOld' /\ CheckedIsCurrent'
  BY DEF RepositoryInv, SnapshotsAreOld, CheckedIsCurrent, Alone
<1> QED
  BY <1>1, <1>2, <1>3 DEF RepositoryInv

LEMMA StepInv == RepositoryInv /\ [Next]_vars => RepositoryInv'
<1> SUFFICES ASSUME RepositoryInv, [Next]_vars PROVE RepositoryInv'
  OBVIOUS
<1> USE RepositoryAssumption DEF RepositoryAssumption
<1>0. /\ index \in Documents
      /\ phase \in [Clients -> Phases]
      /\ snapshot \in [Clients -> Documents \cup {Nothing}]
      /\ candidate \in [Clients -> Documents \cup {Nothing}]
      /\ lock \in Clients \cup {Nothing}
  BY DEF RepositoryInv, TypeOK
<1>1. ASSUME NEW c \in Clients, Load(c)
      PROVE  RepositoryInv'
  <2>1. TypeOK'
    BY <1>0, <1>1 DEF Load, At, TypeOK, Phases
  <2>2. LockOwned'
    BY <1>0, <1>1 DEF Load, At, RepositoryInv, LockOwned, LockedPhases
  <2>3. SnapshotsAreOld' /\ CheckedIsCurrent'
    BY <1>0, <1>1 DEF Load, At, RepositoryInv, SnapshotsAreOld, CheckedIsCurrent, Documents
  <2> QED
    BY <2>1, <2>2, <2>3 DEF RepositoryInv
<1>2. ASSUME NEW c \in Clients, Acquire(c)
      PROVE  RepositoryInv'
  <2>1. TypeOK'
    BY <1>0, <1>2 DEF Acquire, At, TypeOK, Phases, LockedPhases
  <2>2. LockOwned'
    BY <1>0, <1>2 DEF Acquire, At, RepositoryInv, LockOwned, LockedPhases
  <2>3. SnapshotsAreOld' /\ CheckedIsCurrent'
    BY <1>0, <1>2 DEF Acquire, At, RepositoryInv, SnapshotsAreOld, CheckedIsCurrent
  <2> QED
    BY <2>1, <2>2, <2>3 DEF RepositoryInv
<1>3. ASSUME NEW c \in Clients,
             AcquireTimesOut(c) \/ Refuse(c) \/ WriteFails(c) \/ Unlock(c) \/ Crash(c)
      PROVE  RepositoryInv'
  <2>1. /\ Alone(c)
        /\ phase' \in [Clients -> Phases]
        /\ phase'[c] = "idle"
    BY <1>0, <1>3
    DEF AcquireTimesOut, Refuse, WriteFails, Unlock, Crash, Leaves, At, Alone, Phases
  <2>2. lock' = IF lock = c THEN Nothing ELSE lock
    BY <1>0, <1>3
    DEF AcquireTimesOut, Refuse, WriteFails, Unlock, Crash, Leaves, At,
        RepositoryInv, LockOwned, LockedPhases
  <2> QED
    BY <2>1, <2>2, LeavingInv
<1>4. ASSUME NEW c \in Clients, Transform(c)
      PROVE  RepositoryInv'
  <2>1. PICK edit \in Edits : candidate' = [candidate EXCEPT ![c] =
              [generation |-> index.generation + 1,
               contents   |-> Toggled(index.contents, edit)]]
    BY <1>4 DEF Transform
  <2>2. [generation |-> index.generation + 1, contents |-> Toggled(index.contents, edit)]
          \in Documents
    BY <1>0 DEF Documents, Toggled
  <2>3. TypeOK'
    BY <1>0, <1>4, <2>1, <2>2 DEF Transform, At, TypeOK, Phases, LockedPhases
  <2>4. LockOwned'
    BY <1>0, <1>4 DEF Transform, At, RepositoryInv, LockOwned, LockedPhases
  <2>5. SnapshotsAreOld'
    BY <1>0, <1>4 DEF Transform, At, RepositoryInv, SnapshotsAreOld
  <2>6. CheckedIsCurrent'
    <3>1. snapshot[c].generation = index.generation
      BY <1>0, <1>4 DEF Transform, Current
    <3> QED
      BY <1>0, <1>4, <2>1, <2>2, <3>1 DEF Transform, At, RepositoryInv, CheckedIsCurrent
  <2> QED
    BY <2>3, <2>4, <2>5, <2>6 DEF RepositoryInv
<1>5. ASSUME NEW c \in Clients, WriteTemporary(c)
      PROVE  RepositoryInv'
  <2>1. TypeOK'
    BY <1>0, <1>5 DEF WriteTemporary, At, TypeOK, Phases, LockedPhases
  <2>2. LockOwned'
    BY <1>0, <1>5 DEF WriteTemporary, At, RepositoryInv, LockOwned, LockedPhases
  <2>3. SnapshotsAreOld' /\ CheckedIsCurrent'
    BY <1>0, <1>5 DEF WriteTemporary, At, RepositoryInv, SnapshotsAreOld, CheckedIsCurrent
  <2> QED
    BY <2>1, <2>2, <2>3 DEF RepositoryInv
<1>6. ASSUME NEW c \in Clients, Replace(c)
      PROVE  RepositoryInv'
  <2>1. candidate[c] \in Documents /\ candidate[c].generation = index.generation + 1
    BY <1>6 DEF Replace, At, RepositoryInv, CheckedIsCurrent
  <2>2. TypeOK'
    BY <1>0, <1>6, <2>1 DEF Replace, At, TypeOK, Phases, LockedPhases
  <2>3. LockOwned'
    BY <1>0, <1>6 DEF Replace, At, RepositoryInv, LockOwned, LockedPhases
  <2>4. SnapshotsAreOld'
    <3>1. index.generation \in Nat /\ index' = candidate[c]
      BY <1>0, <1>6 DEF Replace, Documents
    <3>2. \A d \in Clients : phase'[d] # "idle" =>
             /\ snapshot[d] \in Documents
             /\ snapshot[d].generation <= index.generation
      BY <1>0, <1>6 DEF Replace, At, RepositoryInv, SnapshotsAreOld
    <3>3. \A d \in Clients : phase'[d] # "idle" => snapshot[d].generation \in Nat
      BY <3>2 DEF Documents
    <3> QED
      BY <1>6, <2>1, <3>1, <3>2, <3>3 DEF Replace, SnapshotsAreOld
  <2>5. \A d \in Clients : phase'[d] \notin {"checked", "written"}
    BY <1>0, <1>6 DEF Replace, At, RepositoryInv, LockOwned, LockedPhases
  <2>6. CheckedIsCurrent'
    BY <2>5 DEF CheckedIsCurrent
  <2> QED
    BY <2>2, <2>3, <2>4, <2>6 DEF RepositoryInv
<1>7. CASE UNCHANGED vars
  BY <1>7 DEF vars, RepositoryInv, TypeOK, LockOwned, SnapshotsAreOld, CheckedIsCurrent
<1> QED
  BY <1>1, <1>2, <1>3, <1>4, <1>5, <1>6, <1>7 DEF Next, Proceed

LEMMA InvAlways == Spec => []RepositoryInv
BY InitInv, StepInv, PTL DEF Spec

LEMMA InvSeesSnapshot == RepositoryInv => CommitSeesItsSnapshot
BY DEF RepositoryInv, SnapshotsAreOld, CheckedIsCurrent, CommitSeesItsSnapshot

(* A commit that passes the generation check is made of the very document  *)
(* its caller planned with.                                                *)
THEOREM CommitsAreCurrent == Spec => []CommitSeesItsSnapshot
BY InvAlways, InvSeesSnapshot, PTL

(* The index is a document of some generation, never something half        *)
(* written, and every caller is in one of its steps.                       *)
THEOREM RepositoryTypes == Spec => []TypeOK
BY InvAlways, PTL DEF RepositoryInv
-----------------------------------------------------------------------------
(* The refinement: a load observes, a rename commits, every other end of a *)
(* call forgets, and the rest is a stutter.                                *)

LEMMA InitRefines == Init => Register!RegisterInit
BY DEF Init, Register!RegisterInit, observed

\* What the callers other than c observe is as it was.
LEMMA ObservedByOthers ==
    ASSUME NEW c \in Clients, NEW after,
           phase \in [Clients -> Phases], phase' \in [Clients -> Phases],
           \A d \in Clients \ {c} : phase'[d] = phase[d] /\ snapshot'[d] = snapshot[d],
           after = IF phase'[c] \in {"idle", "replaced"} THEN Nothing ELSE snapshot'[c]
    PROVE  observed' = [observed EXCEPT ![c] = after]
BY DEF observed

LEMMA StepRefines ==
    RepositoryInv /\ RepositoryInv' /\ [Next]_vars
      => [Register!RegisterNext]_(Register!registerVars)
<1> SUFFICES ASSUME RepositoryInv, RepositoryInv', [Next]_vars
             PROVE  [Register!RegisterNext]_(Register!registerVars)
  OBVIOUS
<1>0. /\ phase \in [Clients -> Phases] /\ phase' \in [Clients -> Phases]
      /\ snapshot \in [Clients -> Documents \cup {Nothing}]
  BY DEF RepositoryInv, TypeOK
<1>1. ASSUME NEW c \in Clients, Load(c)
      PROVE  Register!Observe(c)
  <2>1. /\ phase'[c] = "observed" /\ snapshot'[c] = index
        /\ \A d \in Clients \ {c} : phase'[d] = phase[d] /\ snapshot'[d] = snapshot[d]
    BY <1>0, <1>1 DEF Load, At
  <2>2. observed' = [observed EXCEPT ![c] = index]
    BY <1>0, <2>1, ObservedByOthers
  <2> QED
    BY <1>1, <2>2 DEF Load, Register!Observe
<1>2. ASSUME NEW c \in Clients,
             AcquireTimesOut(c) \/ Refuse(c) \/ WriteFails(c) \/ Crash(c) \/ Unlock(c)
      PROVE  Register!Forget(c)
  <2>1. /\ phase'[c] = "idle" /\ snapshot' = snapshot /\ index' = index
        /\ \A d \in Clients \ {c} : phase'[d] = phase[d]
    BY <1>0, <1>2 DEF AcquireTimesOut, Refuse, WriteFails, Crash, Unlock, Leaves, At
  <2>2. observed' = [observed EXCEPT ![c] = Nothing]
    BY <1>0, <2>1, ObservedByOthers
  <2> QED
    BY <2>1, <2>2 DEF Register!Forget
<1>3. ASSUME NEW c \in Clients, Acquire(c) \/ Transform(c) \/ WriteTemporary(c)
      PROVE  UNCHANGED Register!registerVars
  <2>1. /\ index' = index /\ snapshot' = snapshot
        /\ \A d \in Clients : phase'[d] \in {"idle", "replaced"} <=> phase[d] \in {"idle", "replaced"}
    BY <1>0, <1>3 DEF Acquire, Transform, WriteTemporary, At
  <2> QED
    BY <2>1 DEF observed, Register!registerVars
<1>4. ASSUME NEW c \in Clients, Replace(c)
      PROVE  Register!Commit(c)
  <2>1. phase[c] = "written" /\ index' = candidate[c]
    BY <1>4 DEF Replace, At
  <2>2. observed[c] = index
    BY <2>1, InvSeesSnapshot DEF CommitSeesItsSnapshot, observed
  <2>3. candidate[c] \in Documents /\ candidate[c].generation = index.generation + 1
    BY <2>1 DEF RepositoryInv, CheckedIsCurrent
  <2>4. \E contents \in SUBSET Edits :
           index' = [generation |-> index.generation + 1, contents |-> contents]
    BY <2>1, <2>3 DEF Documents
  <2>5. /\ phase'[c] = "replaced"
        /\ \A d \in Clients \ {c} : phase'[d] = phase[d] /\ snapshot'[d] = snapshot[d]
    BY <1>0, <1>4 DEF Replace, At
  <2>6. observed' = [observed EXCEPT ![c] = Nothing]
    BY <1>0, <2>5, ObservedByOthers
  <2> QED
    BY <2>2, <2>4, <2>6 DEF Register!Commit
<1>5. CASE UNCHANGED vars
  BY <1>5 DEF vars, observed, Register!registerVars
<1> QED
  BY <1>1, <1>2, <1>3, <1>4, <1>5 DEF Next, Proceed, Register!RegisterNext

(* The lock, the generation check and the rename together make observing   *)
(* and committing atomic: the repository implements the register.          *)
THEOREM Refinement == Spec => ImplementsRegister
<1>1. Init => Register!RegisterInit
  BY InitRefines
<1>2. RepositoryInv /\ RepositoryInv' /\ [Next]_vars
        => [Register!RegisterNext]_(Register!registerVars)
  BY StepRefines
<1> QED
  BY <1>1, <1>2, InvAlways, PTL DEF Spec, ImplementsRegister, Register!RegisterSpec
=============================================================================
