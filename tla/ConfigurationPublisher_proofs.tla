-------------------- MODULE ConfigurationPublisher_proofs -------------------
(***************************************************************************)
(* Proof that managed configuration loses no update and that a sole source *)
(* stays accepted, for any handles, sources, validators and inputs.        *)
(***************************************************************************)
EXTENDS ConfigurationPublisher, TLAPS

(* A call that has come past the lock is the one that has it.              *)
HoldersOwnLocks == \A h \in Handles : Holding(h) => lock[Document(h)] = h

(* From the comparison to the replacement the document is as it was read,  *)
(* and the key has the entry that the handle last read.                    *)
ComparedIsPresent ==
    \A h \in Handles : InStep(h, "validate") \/ InStep(h, "publish") =>
        /\ calls[h].content = documents[Document(h)]
        /\ Published(h)[calls[h].key] = baseline[h][calls[h].key]

(* What is about to be published has been accepted.                        *)
CandidateIsAccepted ==
    \A h \in Handles : InStep(h, "publish") =>
        /\ Len(calls[h].read) = Len(Sources[h])
        /\ Candidate(h) \in Accepted[Extension[h]]

PublisherInv == TypeOK /\ HoldersOwnLocks /\ ComparedIsPresent /\ CandidateIsAccepted

LEMMA BindingTypes ==
    ASSUME NEW h \in Handles
    PROVE  /\ Document(h) \in Documents
           /\ Extension[h] \in Extensions
           /\ Sources[h] \in Seq(Documents)
           /\ Writable[h] \in 1..Len(Sources[h])
           /\ h # None
BY BindingAssumption DEF BindingAssumption, Document

LEMMA CallTypes ==
    ASSUME TypeOK, NEW h \in Handles
    PROVE  /\ calls[h] \in Resolutions => calls[h].read \in Seq(Mappings) /\ calls[h].op # "write"
           /\ calls[h].op = "write" => calls[h] \in Writes
           /\ Published(h) \in Mappings
BY BindingTypes, SMTT(60) DEF TypeOK, Idle, Resolutions, Writes, Published, Contents

LEMMA InitInv == Init => PublisherInv
BY DEF Init, PublisherInv, TypeOK, HoldersOwnLocks, ComparedIsPresent, CandidateIsAccepted,
       Holding, InStep, Idle

-----------------------------------------------------------------------------
(* Types.                                                                  *)

LEMMA StepTypes == PublisherInv /\ [Next]_vars => TypeOK'
<1> SUFFICES ASSUME PublisherInv, [Next]_vars PROVE TypeOK'
  OBVIOUS
<1> TypeOK
  BY DEF PublisherInv
<1>0. /\ documents \in [Documents -> Contents]
      /\ lock \in [Documents -> Handles \cup {None}]
      /\ baseline \in [Handles -> Mappings \cup {None}]
      /\ calls \in [Handles -> {Idle} \cup Resolutions \cup Writes]
  BY DEF TypeOK
<1>1. CASE UNCHANGED vars
  BY <1>0, <1>1 DEF vars, TypeOK
<1>2. ASSUME NEW h \in Handles,
             \/ Begin(h) \/ ReadSource(h) \/ ReadFails(h) \/ Remember(h) \/ Reject(h)
             \/ ConfirmDelete(h) \/ Acquire(h) \/ Proceed(h) \/ Die(h)
      PROVE  TypeOK'
  <2>0. /\ Document(h) \in Documents
        /\ Extension[h] \in Extensions
        /\ Sources[h] \in Seq(Documents)
        /\ Writable[h] \in 1..Len(Sources[h])
    BY BindingTypes
  <2>1. ASSUME NEW call \in {Idle} \cup Resolutions \cup Writes,
               calls' = [calls EXCEPT ![h] = call], UNCHANGED <<documents, baseline>>,
               lock' \in [Documents -> Handles \cup {None}]
        PROVE  TypeOK'
    BY <1>0, <2>1 DEF TypeOK
  <2>2. /\ \A op \in {"bind", "refresh"} : [op |-> op, key |-> None, read |-> <<>>] \in Resolutions
        /\ \A op \in {"get", "delete"}, k \in Keys :
              [op |-> op, key |-> k, read |-> <<>>] \in Resolutions
    BY DEF Resolutions
  <2>3. ASSUME NEW k \in Keys, NEW entry \in Entries, Request(h, k, entry),
               UNCHANGED <<documents, lock, baseline>>
        PROVE  TypeOK'
    <3>1. [op |-> "write", step |-> "acquire", key |-> k, entry |-> entry,
           content |-> None, read |-> <<>>] \in Writes
      BY DEF Writes
    <3> QED
      BY <1>0, <2>1, <2>3, <3>1 DEF Request
  <2>4. ASSUME Leave(h), UNCHANGED <<documents, baseline>>
        PROVE  TypeOK'
    BY <1>0, <2>0, <2>1, <2>4 DEF Leave
  <2>5. CASE Begin(h)
    <3>1. CASE Bind(h)
      BY <1>0, <2>1, <2>2, <3>1 DEF Bind, Resolve
    <3>2. ASSUME NEW i \in Inputs, Get(h, i.key) \/ Delete(h, i.key)
          PROVE  TypeOK'
      <4>1. i.key \in Keys
        BY BindingAssumption DEF BindingAssumption
      <4> QED
        BY <1>0, <2>1, <2>2, <3>2, <4>1 DEF Get, Delete, Resolve
    <3>3. ASSUME NEW i \in Inputs, Set(h, i.key, i.value)
          PROVE  TypeOK'
      <4>1. i.key \in Keys /\ i.value \in Entries
        BY BindingAssumption DEF BindingAssumption, Entries
      <4> QED
        BY <2>3, <3>3, <4>1 DEF Set
    <3> QED
      BY <2>5, <3>1, <3>2, <3>3 DEF Begin
  <2>6. CASE ReadSource(h)
    <3> DEFINE next == Sources[h][Len(calls[h].read) + 1]
               longer == Append(calls[h].read, documents[next][Extension[h]])
    <3>1. calls[h] \in Resolutions \/ calls[h] \in Writes
      BY <2>6, CallTypes DEF ReadSource, InStep
    <3>2. calls[h].read \in Seq(Mappings)
      BY <3>1 DEF Resolutions, Writes
    <3>3. next \in Documents
      BY <2>0, <2>6, <3>2 DEF ReadSource
    <3>4. longer \in Seq(Mappings)
      BY <1>0, <2>0, <3>2, <3>3 DEF Contents
    <3>5. [calls[h] EXCEPT !.read = longer] \in Resolutions \cup Writes
      BY <3>1, <3>4 DEF Resolutions, Writes
    <3>6. calls' = [calls EXCEPT ![h] = [calls[h] EXCEPT !.read = longer]]
      BY <1>0, <2>6 DEF ReadSource
    <3> HIDE DEF longer
    <3> QED
      BY <1>0, <2>1, <2>6, <3>5, <3>6 DEF ReadSource
  <2>7. CASE ReadFails(h)
    BY <1>0, <2>1, <2>4, <2>7 DEF ReadFails
  <2>8. CASE Remember(h)
    <3>1. calls[h].read[Writable[h]] \in Mappings
      BY <2>0, <2>8, CallTypes DEF Remember, Resolved
    <3> QED
      BY <1>0, <2>8, <3>1 DEF Remember, TypeOK
  <2>9. CASE Reject(h)
    BY <1>0, <2>1, <2>9 DEF Reject
  <2>10. CASE ConfirmDelete(h)
    <3>1. calls[h].key \in Keys
      BY <2>10 DEF ConfirmDelete, Resolved, Resolutions
    <3> QED
      BY <2>3, <2>10, <3>1 DEF ConfirmDelete, Entries
  <2>11. CASE Acquire(h)
    <3>1. calls[h] \in Writes
      BY <2>11, CallTypes DEF Acquire, InStep
    <3>2. [calls[h] EXCEPT !.step = "compare"] \in Writes
      BY <3>1 DEF Writes
    <3> QED
      BY <1>0, <2>0, <2>1, <2>11, <3>2 DEF Acquire
  <2>12. CASE Compare(h)
    <3>1. calls[h] \in Writes
      BY <2>12, CallTypes DEF Compare, InStep
    <3>2. [[calls[h] EXCEPT !.step = "validate"] EXCEPT !.content = documents[Document(h)]] \in Writes
      BY <1>0, <2>0, <3>1 DEF Writes
    <3> QED
      BY <1>0, <2>1, <2>12, <3>2 DEF Compare
  <2>13. CASE Conflict(h) \/ Invalid(h) \/ PublicationFails(h)
    BY <2>4, <2>13 DEF Conflict, Invalid, PublicationFails
  <2>14. CASE Validate(h)
    <3>1. calls[h] \in Writes
      BY <2>14, CallTypes DEF Validate, InStep
    <3>2. [calls[h] EXCEPT !.step = "publish"] \in Writes
      BY <3>1 DEF Writes
    <3> QED
      BY <1>0, <2>1, <2>14, <3>2 DEF Validate
  <2>15. CASE Publish(h)
    <3>1. calls[h] \in Writes
      BY <2>15, CallTypes DEF Publish, InStep
    <3>2. [calls[h] EXCEPT !.step = "unlock"] \in Writes
      BY <3>1 DEF Writes
    <3>3. calls[h].content \in Contents
      BY <1>0, <2>0, <2>15 DEF Publish, PublisherInv, ComparedIsPresent
    <3>4. Changed(h) \in Mappings
      BY <2>0, <3>1, <3>3 DEF Changed, Contents, Mappings, Writes
    <3>5. [calls[h].content EXCEPT ![Extension[h]] = Changed(h)] \in Contents
      BY <2>0, <3>3, <3>4 DEF Contents
    <3> QED
      BY <1>0, <2>0, <2>15, <3>2, <3>5 DEF Publish, TypeOK
  <2>16. CASE Unlock(h)
    BY <1>0, <2>0, <2>1, <2>2, <2>16 DEF Unlock
  <2>17. CASE Die(h)
    BY <1>0, <2>17 DEF Die, TypeOK
  <2> QED
    BY <1>2, <2>5, <2>6, <2>7, <2>8, <2>9, <2>10, <2>11, <2>12, <2>13, <2>14, <2>15, <2>16, <2>17
    DEF Proceed
<1> QED
  BY <1>1, <1>2 DEF Next

-----------------------------------------------------------------------------
(* The lock keeps what was compared in place until it is replaced.         *)

\* Of what a step of h leaves, only its own call, its lock and its baseline differ.
Alone(h) ==
    /\ documents' = documents
    /\ \A g \in Handles \ {h} : calls'[g] = calls[g] /\ baseline'[g] = baseline[g]
    /\ \A d \in Documents : lock[d] # h => lock'[d] = lock[d] \/ lock[d] = None

LEMMA SameCandidate ==
    ASSUME NEW h \in Handles, calls'[h] = calls[h]
    PROVE  Candidate(h)' = Candidate(h)
BY DEF Candidate, Changed, Effective

(* A step that leaves its call without the lock disturbs no other call.    *)
LEMMA AwayInv ==
    ASSUME PublisherInv, TypeOK', NEW h \in Handles, Alone(h), ~Holding(h)'
    PROVE  PublisherInv'
<1> USE DEF PublisherInv, Alone
<1>1. ~InStep(h, "validate")' /\ ~InStep(h, "publish")'
  BY DEF Holding, InStep
<1>2. HoldersOwnLocks'
  <2> SUFFICES ASSUME NEW g \in Handles, Holding(g)' PROVE lock'[Document(g)] = g
    BY DEF HoldersOwnLocks, Document
  <2>1. g # h /\ calls'[g] = calls[g]
    OBVIOUS
  <2>2. lock[Document(g)] = g
    BY <2>1 DEF HoldersOwnLocks, Holding
  <2> QED
    BY <2>1, <2>2, BindingTypes
<1>3. ComparedIsPresent'
  <2> SUFFICES ASSUME NEW g \in Handles, InStep(g, "validate")' \/ InStep(g, "publish")'
               PROVE  /\ calls'[g].content = documents'[Document(g)]
                      /\ Published(g)'[calls'[g].key] = baseline'[g][calls'[g].key]
    BY DEF ComparedIsPresent, Document
  <2>1. g # h
    BY <1>1
  <2>2. calls'[g] = calls[g] /\ baseline'[g] = baseline[g] /\ Published(g)' = Published(g)
    BY <2>1 DEF Published, Document
  <2> QED
    BY <2>2 DEF ComparedIsPresent, InStep
<1>4. CandidateIsAccepted'
  <2> SUFFICES ASSUME NEW g \in Handles, InStep(g, "publish")'
               PROVE  /\ Len(calls'[g].read) = Len(Sources[g])
                      /\ Candidate(g)' \in Accepted[Extension[g]]
    BY DEF CandidateIsAccepted
  <2>1. calls'[g] = calls[g]
    BY <1>1
  <2> QED
    BY <2>1, SameCandidate DEF CandidateIsAccepted, InStep
<1> QED
  BY <1>2, <1>3, <1>4

(* A step of the call that has the lock, and keeps it.                     *)
LEMMA HeldInv ==
    ASSUME PublisherInv, TypeOK', NEW h \in Handles, Holding(h),
           UNCHANGED <<documents, lock, baseline>>,
           \A g \in Handles \ {h} : calls'[g] = calls[g],
           InStep(h, "validate")' \/ InStep(h, "publish")' =>
              /\ calls'[h].content = documents[Document(h)]
              /\ Published(h)[calls'[h].key] = baseline[h][calls'[h].key],
           InStep(h, "publish")' =>
              /\ Len(calls'[h].read) = Len(Sources[h])
              /\ Candidate(h)' \in Accepted[Extension[h]]
    PROVE  PublisherInv'
<1> USE DEF PublisherInv
<1>1. HoldersOwnLocks'
  BY DEF HoldersOwnLocks, Holding, Document
<1>2. ComparedIsPresent'
  BY DEF ComparedIsPresent, InStep, Published, Document
<1>3. CandidateIsAccepted'
  <2> SUFFICES ASSUME NEW g \in Handles, InStep(g, "publish")'
               PROVE  /\ Len(calls'[g].read) = Len(Sources[g])
                      /\ Candidate(g)' \in Accepted[Extension[g]]
    BY DEF CandidateIsAccepted
  <2>1. CASE g = h
    BY <2>1
  <2>2. CASE g # h
    BY <2>2, SameCandidate DEF CandidateIsAccepted, InStep
  <2> QED
    BY <2>1, <2>2
<1> QED
  BY <1>1, <1>2, <1>3

LEMMA PublishInv ==
    ASSUME PublisherInv, TypeOK', NEW h \in Handles, Publish(h)
    PROVE  PublisherInv'
<1> USE DEF PublisherInv
<1>0. /\ calls \in [Handles -> {Idle} \cup Resolutions \cup Writes]
      /\ documents \in [Documents -> Contents]
  BY DEF TypeOK
<1>1. Holding(h) /\ InStep(h, "unlock")'
  BY <1>0, CallTypes DEF Publish, InStep, Holding, Writes
<1>2. \A g \in Handles \ {h} : calls'[g] = calls[g]
  BY <1>0 DEF Publish
<1>3. HoldersOwnLocks'
  BY <1>1, <1>2 DEF HoldersOwnLocks, Holding, Document, Publish
<1>4. ASSUME NEW g \in Handles, InStep(g, "validate")' \/ InStep(g, "publish")'
      PROVE  /\ g # h
             /\ InStep(g, "validate") \/ InStep(g, "publish")
             /\ documents'[Document(g)] = documents[Document(g)]
  <2>1. g # h
    BY <1>1, <1>4 DEF InStep
  <2>2. Holding(g)
    BY <1>2, <1>4, <2>1 DEF InStep, Holding
  <2>3. Document(g) # Document(h)
    BY <1>1, <2>1, <2>2 DEF HoldersOwnLocks
  <2> QED
    BY <1>0, <1>2, <1>4, <2>1, <2>3, BindingTypes DEF Publish, InStep
<1>5. ComparedIsPresent'
  <2> SUFFICES ASSUME NEW g \in Handles, InStep(g, "validate")' \/ InStep(g, "publish")'
               PROVE  /\ calls'[g].content = documents'[Document(g)]
                      /\ Published(g)'[calls'[g].key] = baseline'[g][calls'[g].key]
    BY DEF ComparedIsPresent, Document
  <2>1. /\ calls'[g] = calls[g] /\ baseline'[g] = baseline[g]
        /\ documents'[Document(g)] = documents[Document(g)]
    BY <1>2, <1>4 DEF Publish
  <2>2. Published(g)' = Published(g)
    BY <2>1 DEF Published, Document
  <2> QED
    BY <1>4, <2>1, <2>2 DEF ComparedIsPresent
<1>6. CandidateIsAccepted'
  <2> SUFFICES ASSUME NEW g \in Handles, InStep(g, "publish")'
               PROVE  /\ Len(calls'[g].read) = Len(Sources[g])
                      /\ Candidate(g)' \in Accepted[Extension[g]]
    BY DEF CandidateIsAccepted
  <2>1. calls'[g] = calls[g]
    BY <1>2, <1>4
  <2> QED
    BY <2>1, SameCandidate DEF CandidateIsAccepted, InStep
<1> QED
  BY <1>3, <1>5, <1>6

LEMMA StepInv == PublisherInv /\ [Next]_vars => PublisherInv'
<1> SUFFICES ASSUME PublisherInv, [Next]_vars PROVE PublisherInv'
  OBVIOUS
<1>0. /\ TypeOK /\ TypeOK'
      /\ calls \in [Handles -> {Idle} \cup Resolutions \cup Writes]
      /\ lock \in [Documents -> Handles \cup {None}]
      /\ baseline \in [Handles -> Mappings \cup {None}]
  BY StepTypes DEF PublisherInv, TypeOK
<1>1. CASE UNCHANGED vars
  <2>1. HoldersOwnLocks' /\ ComparedIsPresent'
    BY <1>1 DEF vars, PublisherInv, HoldersOwnLocks, ComparedIsPresent, Holding, InStep,
                Document, Published
  <2>2. \A h \in Handles : calls'[h] = calls[h]
    BY <1>1 DEF vars
  <2>3. CandidateIsAccepted'
    BY <2>2, SameCandidate DEF PublisherInv, CandidateIsAccepted, InStep
  <2> QED
    BY <1>0, <2>1, <2>3 DEF PublisherInv
<1>2. ASSUME NEW h \in Handles, Leave(h) /\ UNCHANGED <<documents, baseline>> /\ Holding(h)
      PROVE  PublisherInv'
  <2>1. lock[Document(h)] = h
    BY <1>2 DEF PublisherInv, HoldersOwnLocks
  <2>2. Alone(h)
    BY <1>0, <1>2, <2>1, BindingTypes DEF Leave, Alone
  <2>3. ~Holding(h)'
    BY <1>0, <1>2 DEF Leave, Holding, Idle
  <2> QED
    BY <1>0, <2>2, <2>3, AwayInv
<1>3. ASSUME NEW h \in Handles, Begin(h) PROVE PublisherInv'
  <2>1. Alone(h)
    BY <1>0, <1>3 DEF Begin, Bind, Get, Delete, Set, Resolve, Request, Alone
  <2>2. ~Holding(h)'
    BY <1>0, <1>3 DEF Begin, Bind, Get, Delete, Set, Resolve, Request, Holding
  <2> QED
    BY <1>0, <2>1, <2>2, AwayInv
<1>4. ASSUME NEW h \in Handles, ReadSource(h) PROVE PublisherInv'
  <2>1. /\ UNCHANGED <<documents, lock, baseline>>
        /\ \A g \in Handles \ {h} : calls'[g] = calls[g]
    BY <1>0, <1>4 DEF ReadSource
  <2>2. CASE calls[h] \in Resolutions
    <3>1. ~Holding(h)'
      BY <1>0, <1>4, <2>2, CallTypes DEF ReadSource, Holding, Resolutions
    <3> QED
      BY <1>0, <2>1, <3>1, AwayInv DEF Alone
  <2>3. CASE InStep(h, "validate")
    <3>1. calls[h] \in Writes
      BY <1>0, <2>3, CallTypes DEF InStep
    <3>2. InStep(h, "validate")' /\ calls'[h].content = calls[h].content /\ calls'[h].key = calls[h].key
      BY <1>0, <1>4, <2>3, <3>1 DEF ReadSource, InStep, Writes
    <3>3. Holding(h) /\ ~InStep(h, "publish")'
      BY <2>3, <3>2 DEF InStep, Holding
    <3> QED
      BY <1>0, <2>1, <2>3, <3>2, <3>3, HeldInv DEF PublisherInv, ComparedIsPresent
  <2> QED
    BY <1>4, <2>2, <2>3 DEF ReadSource
<1>5. ASSUME NEW h \in Handles, ReadFails(h) PROVE PublisherInv'
  <2>1. CASE calls' = [calls EXCEPT ![h] = Idle] /\ lock' = lock
    <3>1. Alone(h) /\ ~Holding(h)'
      BY <1>0, <1>5, <2>1 DEF ReadFails, Alone, Holding, Idle
    <3> QED
      BY <1>0, <3>1, AwayInv
  <2>2. CASE (InStep(h, "compare") \/ InStep(h, "validate")) /\ Leave(h)
    BY <1>2, <1>5, <2>2 DEF ReadFails, InStep, Holding
  <2> QED
    BY <1>5, <2>1, <2>2 DEF ReadFails
<1>6. ASSUME NEW h \in Handles, Remember(h) \/ Reject(h) \/ ConfirmDelete(h) \/ Die(h)
      PROVE  PublisherInv'
  <2>1. Alone(h)
    BY <1>0, <1>6 DEF Remember, Reject, ConfirmDelete, Die, Request, Alone
  <2>2. ~Holding(h)'
    BY <1>0, <1>6 DEF Remember, Reject, ConfirmDelete, Die, Request, Holding, Idle
  <2> QED
    BY <1>0, <2>1, <2>2, AwayInv
<1>7. ASSUME NEW h \in Handles, Acquire(h) PROVE PublisherInv'
  <2>1. InStep(h, "compare")'
    BY <1>0, <1>7, CallTypes DEF Acquire, InStep, Writes
  <2>2. /\ UNCHANGED <<documents, baseline>>
        /\ \A g \in Handles \ {h} : calls'[g] = calls[g]
    BY <1>0, <1>7 DEF Acquire
  <2>3. HoldersOwnLocks'
    <3> SUFFICES ASSUME NEW g \in Handles, Holding(g)' PROVE lock'[Document(g)] = g
      BY DEF HoldersOwnLocks, Document
    <3>1. CASE g = h
      BY <1>0, <1>7, <3>1, BindingTypes DEF Acquire
    <3>2. CASE g # h
      <4>1. lock[Document(g)] = g
        BY <2>2, <3>2 DEF PublisherInv, HoldersOwnLocks, Holding
      <4>2. Document(g) # Document(h)
        BY <1>7, <4>1, BindingTypes DEF Acquire, Unlocked
      <4> QED
        BY <1>0, <1>7, <4>1, <4>2, BindingTypes DEF Acquire
    <3> QED
      BY <3>1, <3>2
  <2>4. ComparedIsPresent'
    BY <2>1, <2>2 DEF PublisherInv, ComparedIsPresent, InStep, Published, Document
  <2>5. CandidateIsAccepted'
    <3> SUFFICES ASSUME NEW g \in Handles, InStep(g, "publish")'
                 PROVE  /\ Len(calls'[g].read) = Len(Sources[g])
                        /\ Candidate(g)' \in Accepted[Extension[g]]
      BY DEF CandidateIsAccepted
    <3>1. calls'[g] = calls[g]
      BY <2>1, <2>2 DEF InStep
    <3> QED
      BY <3>1, SameCandidate DEF PublisherInv, CandidateIsAccepted, InStep
  <2> QED
    BY <1>0, <2>3, <2>4, <2>5 DEF PublisherInv
<1>8. ASSUME NEW h \in Handles, Compare(h) PROVE PublisherInv'
  <2>1. calls[h] \in Writes
    BY <1>0, <1>8, CallTypes DEF Compare, InStep
  <2>2. /\ InStep(h, "validate")'
        /\ calls'[h].content = documents[Document(h)]
        /\ calls'[h].key = calls[h].key
    BY <1>0, <1>8, <2>1 DEF Compare, InStep, Writes
  <2>3. /\ UNCHANGED <<documents, lock, baseline>>
        /\ \A g \in Handles \ {h} : calls'[g] = calls[g]
    BY <1>0, <1>8 DEF Compare
  <2>4. Holding(h) /\ ~InStep(h, "publish")'
    BY <1>8, <2>2 DEF Compare, InStep, Holding
  <2>5. Published(h)[calls[h].key] = baseline[h][calls[h].key]
    BY <1>8 DEF Compare
  <2> QED
    BY <1>0, <2>2, <2>3, <2>4, <2>5, HeldInv
<1>9. ASSUME NEW h \in Handles, Conflict(h) \/ Invalid(h) \/ PublicationFails(h)
      PROVE  PublisherInv'
  BY <1>2, <1>9 DEF Conflict, Invalid, PublicationFails, InStep, Holding
<1>10. ASSUME NEW h \in Handles, Validate(h) PROVE PublisherInv'
  <2>1. calls[h] \in Writes
    BY <1>0, <1>10, CallTypes DEF Validate, InStep
  <2>2. /\ InStep(h, "publish")'
        /\ calls'[h].content = calls[h].content
        /\ calls'[h].key = calls[h].key
        /\ calls'[h].entry = calls[h].entry
        /\ calls'[h].read = calls[h].read
    BY <1>0, <1>10, <2>1 DEF Validate, InStep, Writes
  <2>3. /\ UNCHANGED <<documents, lock, baseline>>
        /\ \A g \in Handles \ {h} : calls'[g] = calls[g]
    BY <1>0, <1>10 DEF Validate
  <2>4. Holding(h)
    BY <1>10 DEF Validate, InStep, Holding
  <2>5. Candidate(h)' = Candidate(h)
    BY <2>2 DEF Candidate, Changed, Effective
  <2>6. /\ calls[h].content = documents[Document(h)]
        /\ Published(h)[calls[h].key] = baseline[h][calls[h].key]
    BY <1>10 DEF Validate, PublisherInv, ComparedIsPresent
  <2> QED
    BY <1>0, <1>10, <2>2, <2>3, <2>4, <2>5, <2>6, HeldInv DEF Validate
<1>11. ASSUME NEW h \in Handles, Publish(h) PROVE PublisherInv'
  BY <1>0, <1>11, PublishInv
<1>12. ASSUME NEW h \in Handles, Unlock(h) PROVE PublisherInv'
  <2>1. lock[Document(h)] = h
    BY <1>12 DEF Unlock, InStep, PublisherInv, HoldersOwnLocks, Holding
  <2>2. Alone(h)
    BY <1>0, <1>12, <2>1, BindingTypes DEF Unlock, Alone
  <2>3. ~Holding(h)'
    BY <1>0, <1>12 DEF Unlock, Holding
  <2> QED
    BY <1>0, <2>2, <2>3, AwayInv
<1> QED
  BY <1>1, <1>3, <1>4, <1>5, <1>6, <1>7, <1>8, <1>9, <1>10, <1>11, <1>12 DEF Next, Proceed

-----------------------------------------------------------------------------
(* What a publication does.                                                *)

\* A publication replaces the mapping it writes, and no other.
LEMMA PublishedEffect ==
    ASSUME PublisherInv, NEW h \in Handles, Publish(h)
    PROVE  /\ Changed(h) = [Published(h) EXCEPT ![calls[h].key] = calls[h].entry]
           /\ Changed(h) \in Mappings
           /\ \A d \in Documents, e \in Extensions :
                 documents'[d][e] = IF d = Document(h) /\ e = Extension[h]
                                    THEN Changed(h) ELSE documents[d][e]
<1>1. calls[h] \in Writes /\ documents \in [Documents -> Contents]
  BY CallTypes DEF PublisherInv, Publish, InStep, TypeOK
<1>2. calls[h].content = documents[Document(h)] /\ calls[h].content \in Contents
  BY <1>1, BindingTypes DEF PublisherInv, ComparedIsPresent, Publish
<1>3. Changed(h) = [Published(h) EXCEPT ![calls[h].key] = calls[h].entry]
  BY <1>2 DEF Changed, Published
<1>4. Changed(h) \in Mappings
  BY <1>1, <1>2, BindingTypes DEF Changed, Contents, Mappings, Writes
<1>5. ASSUME NEW d \in Documents, NEW e \in Extensions
      PROVE  documents'[d][e] = IF d = Document(h) /\ e = Extension[h]
                                THEN Changed(h) ELSE documents[d][e]
  <2>1. documents' = [documents EXCEPT ![Document(h)] =
                         [calls[h].content EXCEPT ![Extension[h]] = Changed(h)]]
    BY DEF Publish
  <2>2. CASE d = Document(h)
    BY <1>1, <1>2, <2>1, <2>2, BindingTypes DEF Contents
  <2>3. CASE d # Document(h)
    BY <1>1, <2>1, <2>3, BindingTypes
  <2> QED
    BY <2>2, <2>3
<1> QED
  BY <1>3, <1>4, <1>5

LEMMA OnlyPublishWrites ==
    ASSUME [Next]_vars, documents' # documents
    PROVE  \E h \in Handles : Publish(h)
BY DEF Next, vars, Begin, Proceed, Bind, Get, Delete, Set, Resolve, ReadSource, ReadFails,
       Remember, Reject, ConfirmDelete, Acquire, Compare, Conflict, Validate, Invalid,
       PublicationFails, Unlock, Die

(* One source alone is the effective configuration.                        *)
LEMMA SoleEffective ==
    ASSUME NEW h \in Handles, Len(Sources[h]) = 1, NEW read, read[1] \in Mappings
    PROVE  Effective(h, read) = read[1]
<1> DEFINE supplying(k) == {i \in DOMAIN Sources[h] : read[i][k] # Missing}
<1>1. DOMAIN Sources[h] = {1}
  BY BindingTypes
<1>2. ASSUME NEW k \in Keys
      PROVE  read[1][k] = IF supplying(k) = {} THEN Missing
                          ELSE read[CHOOSE i \in supplying(k) : \A j \in supplying(k) : j <= i][k]
  <2>1. CASE read[1][k] = Missing
    BY <1>1, <2>1
  <2>2. CASE read[1][k] # Missing
    <3>1. supplying(k) = {1}
      BY <1>1, <2>2
    <3> HIDE DEF supplying
    <3>2. (CHOOSE i \in supplying(k) : \A j \in supplying(k) : j <= i) = 1
      BY <3>1
    <3> QED
      BY <3>1, <3>2
  <2> QED
    BY <2>1, <2>2
<1>3. read[1] = [k \in Keys |-> read[1][k]]
  BY DEF Mappings
<1> QED
  BY <1>2, <1>3 DEF Effective

-----------------------------------------------------------------------------
(* Every variable keeps its type: what a document holds is always a        *)
(* mapping of entries for each extension.                                  *)
THEOREM PublisherTypes == Spec => []TypeOK
BY InitInv, StepInv, PTL DEF Spec, PublisherInv

(* No update is lost: a publication changes the entry it was asked to      *)
(* change, from the value that its handle had last read.                   *)
THEOREM NoUpdateIsLost == Spec => ReplacesWhatWasRead
<1> DEFINE Kept ==
      \A d \in Documents, e \in Extensions, k \in Keys :
          documents'[d][e][k] # documents[d][e][k] =>
              \E h \in Handles :
                  /\ Document(h) = d /\ Extension[h] = e
                  /\ InStep(h, "publish") /\ calls[h].key = k
                  /\ documents[d][e][k] = baseline[h][k]
<1>1. PublisherInv /\ [Next]_vars => [Kept]_vars
  <2> SUFFICES ASSUME PublisherInv, [Next]_vars,
                      NEW d \in Documents, NEW e \in Extensions, NEW k \in Keys,
                      documents'[d][e][k] # documents[d][e][k]
               PROVE  \E h \in Handles :
                          /\ Document(h) = d /\ Extension[h] = e
                          /\ InStep(h, "publish") /\ calls[h].key = k
                          /\ documents[d][e][k] = baseline[h][k]
    OBVIOUS
  <2>1. PICK h \in Handles : Publish(h)
    BY OnlyPublishWrites
  <2>2. d = Document(h) /\ e = Extension[h] /\ documents'[d][e] = Changed(h)
    BY <2>1, PublishedEffect
  <2>3. Published(h) \in Mappings
    BY CallTypes DEF PublisherInv
  <2>4. calls[h].key = k
    BY <2>1, <2>2, <2>3, PublishedEffect DEF Published, Mappings
  <2> QED
    BY <2>1, <2>2, <2>4 DEF Publish, PublisherInv, ComparedIsPresent, Published
<1> QED
  BY InitInv, StepInv, <1>1, PTL DEF Spec, ReplacesWhatWasRead

(* The only source of an extension is always published as validated.       *)
THEOREM SoleSourceAccepted == Spec => SoleSourceStaysAccepted
<1> DEFINE Stays ==
      \A h \in Handles :
          Sole(h) /\ Published(h) \in Accepted[Extension[h]]
            => Published(h)' \in Accepted[Extension[h]]
<1>1. PublisherInv /\ [Next]_vars => [Stays]_vars
  <2> SUFFICES ASSUME PublisherInv, [Next]_vars, NEW h \in Handles, Sole(h),
                      Published(h) \in Accepted[Extension[h]]
               PROVE  Published(h)' \in Accepted[Extension[h]]
    OBVIOUS
  <2>1. CASE documents' = documents
    BY <2>1 DEF Published, Document
  <2>2. CASE documents' # documents
    <3>1. PICK g \in Handles : Publish(g)
      BY <2>2, OnlyPublishWrites
    <3>2. CASE Document(h) # Document(g) \/ Extension[h] # Extension[g]
      BY <3>1, <3>2, PublishedEffect, BindingTypes DEF Published, Document
    <3>3. CASE Document(h) = Document(g) /\ Extension[h] = Extension[g]
      <4> DEFINE read == [calls[g].read EXCEPT ![Writable[g]] = Changed(g)]
      <4>1. Published(h)' = Changed(g)
        BY <3>1, <3>3, PublishedEffect, BindingTypes DEF Published, Document
      <4>2. Len(Sources[g]) = 1 /\ Writable[g] = 1
        <5>1. Len(Sources[g]) = 1
          BY <3>3 DEF Sole
        <5>2. Writable[g] \in 1..Len(Sources[g])
          BY BindingTypes
        <5> QED
          BY <5>1, <5>2
      <4>3. calls[g].read \in Seq(Mappings) /\ Len(calls[g].read) = 1
        BY <3>1, <4>2, CallTypes DEF Publish, InStep, Writes, PublisherInv, CandidateIsAccepted
      <4>4. read[1] = Changed(g)
        BY <4>2, <4>3
      <4>5. Candidate(g) = Changed(g)
        <5>1. read[1] \in Mappings
          BY <3>1, <4>4, PublishedEffect
        <5> QED
          BY <4>2, <4>4, <5>1, SoleEffective DEF Candidate
      <4> QED
        BY <3>1, <3>3, <4>1, <4>5 DEF PublisherInv, CandidateIsAccepted, Publish
    <3> QED
      BY <3>2, <3>3
  <2> QED
    BY <2>1, <2>2
<1> QED
  BY InitInv, StepInv, <1>1, PTL DEF Spec, SoleSourceStaysAccepted
=============================================================================
