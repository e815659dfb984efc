----------------------- MODULE ConfigurationPublisher -----------------------
(***************************************************************************)
(* Managed configuration: extension_runtime.py, the classes                *)
(* _ManagedConfiguration and ConfigurationPublisher.                       *)
(*                                                                         *)
(* A document holds one mapping for each extension.  A bound handle reads  *)
(* its extension's mapping from several documents in order, later ones     *)
(* first, and writes single keys of one of them: optimistically, against   *)
(* what the handle last read.  Reads take no lock.  A write takes the lock *)
(* of its document's path, reads and compares, has the candidate validated *)
(* against the other sources as they are by then, and replaces the file.   *)
(***************************************************************************)
EXTENDS Integers, Sequences

CONSTANTS
    Documents,
    Extensions,
    Keys,
    Values,
    Missing,    \* a key that a mapping does not have
    None,       \* a free lock, an unbound handle
    Handles,    \* bound managed configurations; each has one call at a time
    Extension,  \* the extension of a handle
    Sources,    \* its documents, lowest precedence first
    Writable,   \* the position of the one it writes
    Accepted,   \* the effective mappings that an extension's validator accepts
    Inputs      \* what callers ask of their handles

Entries == Values \cup {Missing}

Mappings == [Keys -> Entries]

Contents == [Extensions -> Mappings]

ASSUME BindingAssumption ==
    /\ Missing \notin Values
    /\ None \notin Handles \cup Keys \cup Mappings \cup Contents
    /\ Extension \in [Handles -> Extensions]
    /\ Sources \in [Handles -> Seq(Documents)]
    /\ Writable \in [Handles -> Nat]
    /\ \A h \in Handles : Writable[h] \in DOMAIN Sources[h]
    /\ Accepted \in [Extensions -> SUBSET Mappings]
    /\ Inputs \subseteq [handle : Handles, op : {"get", "set", "delete"}, key : Keys, value : Values]

VARIABLES
    documents,  \* the published contents
    lock,       \* the file lock of each document's path
    baseline,   \* _baseline_selected: what a handle last read of its own source
    calls       \* the call in flight on each handle

vars == <<documents, lock, baseline, calls>>

Idle == [op |-> "idle"]

\* A resolution of the effective configuration: to bind, to look a key up, to
\* refresh the baseline after a write, or to check that a key to delete exists.
Resolutions ==
    [op : {"bind", "refresh"}, key : {None}, read : Seq(Mappings)]
      \cup [op : {"get", "delete"}, key : Keys, read : Seq(Mappings)]

\* A write: the key's new entry, the contents it was compared with, and what
\* the validation of the candidate has read.
Writes ==
    [op : {"write"}, step : {"acquire", "compare", "validate", "publish", "unlock"},
     key : Keys, entry : Entries, content : Contents \cup {None}, read : Seq(Mappings)]

Document(h) == Sources[h][Writable[h]]

\* The later of several sources wins a key.
Effective(h, read) ==
    [k \in Keys |->
        LET supplying == {i \in DOMAIN Sources[h] : read[i][k] # Missing}
        IN  IF supplying = {} THEN Missing
            ELSE read[CHOOSE i \in supplying : \A j \in supplying : j <= i][k]]

TypeOK ==
    /\ documents \in [Documents -> Contents]
    /\ lock \in [Documents -> Handles \cup {None}]
    /\ baseline \in [Handles -> Mappings \cup {None}]
    /\ calls \in [Handles -> {Idle} \cup Resolutions \cup Writes]

\* The mapping that h writes, as it is on disk.
Published(h) == documents[Document(h)][Extension[h]]

InStep(h, step) == calls[h].op = "write" /\ calls[h].step = step

\* The call has its document's lock.
Holding(h) == calls[h].op = "write" /\ calls[h].step # "acquire"

-----------------------------------------------------------------------------
(* Reading: snapshot_record and resolve_effective_configuration.           *)

Resolve(h, op, k) ==
    /\ calls[h] = Idle
    /\ calls' = [calls EXCEPT ![h] = [op |-> op, key |-> k, read |-> <<>>]]
    /\ UNCHANGED <<documents, lock, baseline>>

Bind(h) == baseline[h] = None /\ Resolve(h, "bind", None)

Get(h, k) == baseline[h] # None /\ Resolve(h, "get", k)

Delete(h, k) == baseline[h] # None /\ Resolve(h, "delete", k)

\* The next source of a resolution or of a candidate's validation is read.
ReadSource(h) ==
    /\ calls[h] \in Resolutions \/ InStep(h, "validate")
    /\ Len(calls[h].read) < Len(Sources[h])
    /\ LET next == Sources[h][Len(calls[h].read) + 1]
       IN  calls' = [calls EXCEPT ![h].read = Append(@, documents[next][Extension[h]])]
    /\ UNCHANGED <<documents, lock, baseline>>

Resolved(h) ==
    /\ calls[h] \in Resolutions
    /\ Len(calls[h].read) = Len(Sources[h])

\* An accepted resolution replaces the whole baseline.
Remember(h) ==
    /\ Resolved(h)
    /\ calls[h].op # "delete"
    /\ Effective(h, calls[h].read) \in Accepted[Extension[h]]
    /\ baseline' = [baseline EXCEPT ![h] = calls[h].read[Writable[h]]]
    /\ calls' = [calls EXCEPT ![h] = Idle]
    /\ UNCHANGED <<documents, lock>>

\* The validator raises, and the baseline stays; or the key to delete is not
\* in effect.
Reject(h) ==
    /\ Resolved(h)
    /\ \/ Effective(h, calls[h].read) \notin Accepted[Extension[h]]
       \/ calls[h].op = "delete" /\ Effective(h, calls[h].read)[calls[h].key] = Missing
    /\ calls' = [calls EXCEPT ![h] = Idle]
    /\ UNCHANGED <<documents, lock, baseline>>

-----------------------------------------------------------------------------
(* Writing: _mutate and ConfigurationPublisher.mutate.                     *)

Request(h, k, entry) ==
    calls' = [calls EXCEPT ![h] =
        [op |-> "write", step |-> "acquire", key |-> k, entry |-> entry,
         content |-> None, read |-> <<>>]]

Set(h, k, v) ==
    /\ baseline[h] # None
    /\ calls[h] = Idle
    /\ Request(h, k, v)
    /\ UNCHANGED <<documents, lock, baseline>>

ConfirmDelete(h) ==
    /\ Resolved(h)
    /\ calls[h].op = "delete"
    /\ Effective(h, calls[h].read) \in Accepted[Extension[h]]
    /\ Effective(h, calls[h].read)[calls[h].key] # Missing
    /\ Request(h, calls[h].key, Missing)
    /\ UNCHANGED <<documents, lock, baseline>>

\* Mutant: the lock is that of the binding, not that of the path.
Unlocked_ByBinding(h) == TRUE

Unlocked(h) == lock[Document(h)] = None

Acquire(h) ==
    /\ InStep(h, "acquire")
    /\ Unlocked(h)
    /\ lock' = [lock EXCEPT ![Document(h)] = h]
    /\ calls' = [calls EXCEPT ![h].step = "compare"]
    /\ UNCHANGED <<documents, baseline>>

\* The document is read whole, and the key compared with the baseline.
Compare(h) ==
    /\ InStep(h, "compare")
    /\ Published(h)[calls[h].key] = baseline[h][calls[h].key]
    /\ calls' = [calls EXCEPT ![h].step = "validate", ![h].content = documents[Document(h)]]
    /\ UNCHANGED <<documents, lock, baseline>>

\* Mutant: the lock stays with the call that is over.
Leave_KeepsLock(h) ==
    /\ calls' = [calls EXCEPT ![h] = Idle]
    /\ lock' = lock

\* The lock is left on the way out.
Leave(h) ==
    /\ calls' = [calls EXCEPT ![h] = Idle]
    /\ lock' = [lock EXCEPT ![Document(h)] = None]

\* A source is not a file at its bound path any more, or it changed under each
\* of three reads.
ReadFails(h) ==
    /\ \/ /\ calls[h] \in Resolutions \/ InStep(h, "acquire")
          /\ calls' = [calls EXCEPT ![h] = Idle]
          /\ lock' = lock
       \/ (InStep(h, "compare") \/ InStep(h, "validate")) /\ Leave(h)
    /\ UNCHANGED <<documents, baseline>>

Conflict(h) ==
    /\ InStep(h, "compare")
    /\ Published(h)[calls[h].key] # baseline[h][calls[h].key]
    /\ Leave(h)
    /\ UNCHANGED <<documents, baseline>>

\* The handle's mapping with the key changed.
Changed(h) == [calls[h].content[Extension[h]] EXCEPT ![calls[h].key] = calls[h].entry]

\* Mutant: what is published is validated instead of the candidate.
Candidate_Present(h) == Effective(h, calls[h].read)

\* The effective configuration with the candidate in the place of its source.
Candidate(h) == Effective(h, [calls[h].read EXCEPT ![Writable[h]] = Changed(h)])

Validate(h) ==
    /\ InStep(h, "validate")
    /\ Len(calls[h].read) = Len(Sources[h])
    /\ Candidate(h) \in Accepted[Extension[h]]
    /\ calls' = [calls EXCEPT ![h].step = "publish"]
    /\ UNCHANGED <<documents, lock, baseline>>

Invalid(h) ==
    /\ InStep(h, "validate")
    /\ Len(calls[h].read) = Len(Sources[h])
    /\ Candidate(h) \notin Accepted[Extension[h]]
    /\ Leave(h)
    /\ UNCHANGED <<documents, baseline>>

\* The rendered document replaces the file.
Publish(h) ==
    /\ InStep(h, "publish")
    /\ documents' = [documents EXCEPT ![Document(h)] =
          [calls[h].content EXCEPT ![Extension[h]] = Changed(h)]]
    /\ calls' = [calls EXCEPT ![h].step = "unlock"]
    /\ UNCHANGED <<lock, baseline>>

PublicationFails(h) ==
    /\ InStep(h, "publish")
    /\ Leave(h)
    /\ UNCHANGED <<documents, baseline>>

\* The lock is left and the baseline is read anew.
Unlock(h) ==
    /\ InStep(h, "unlock")
    /\ lock' = [lock EXCEPT ![Document(h)] = None]
    /\ calls' = [calls EXCEPT ![h] = [op |-> "refresh", key |-> None, read |-> <<>>]]
    /\ UNCHANGED <<documents, baseline>>

\* The process of a handle dies, and the system frees its lock.
Die(h) ==
    /\ baseline' = [baseline EXCEPT ![h] = None]
    /\ calls' = [calls EXCEPT ![h] = Idle]
    /\ lock' = [d \in Documents |-> IF lock[d] = h THEN None ELSE lock[d]]
    /\ UNCHANGED documents

-----------------------------------------------------------------------------
\* Documents start as their authors left them.
Init ==
    /\ documents \in [Documents -> Contents]
    /\ lock = [d \in Documents |-> None]
    /\ baseline = [h \in Handles |-> None]
    /\ calls = [h \in Handles |-> Idle]

Begin(h) ==
    \/ Bind(h)
    \/ \E i \in {j \in Inputs : j.handle = h} :
          \/ i.op = "get" /\ Get(h, i.key)
          \/ i.op = "delete" /\ Delete(h, i.key)
          \/ i.op = "set" /\ Set(h, i.key, i.value)

\* A step of a write after the lock is had.
Proceed(h) ==
    \/ InStep(h, "validate") /\ ReadSource(h)
    \/ Compare(h)
    \/ Conflict(h)
    \/ Validate(h)
    \/ Invalid(h)
    \/ Publish(h)
    \/ PublicationFails(h)
    \/ Unlock(h)

Next ==
    \E h \in Handles :
        \/ Begin(h)
        \/ ReadSource(h)
        \/ ReadFails(h)
        \/ Remember(h)
        \/ Reject(h)
        \/ ConfirmDelete(h)
        \/ Acquire(h)
        \/ Proceed(h)
        \/ Die(h)

Spec == Init /\ [][Next]_vars

\* A call is a sequence of statements: a caller that has the lock goes on.
FairSpec == Spec /\ \A h \in Handles : WF_vars(Proceed(h))

-----------------------------------------------------------------------------
(* No update is lost: whatever entry a publication changes is the one its  *)
(* caller asked to change, and still has the value that the caller's       *)
(* handle read; other keys and other extensions' mappings are kept.        *)
ReplacesWhatWasRead ==
    [][\A d \in Documents, e \in Extensions, k \in Keys :
          documents'[d][e][k] # documents[d][e][k] =>
              \E h \in Handles :
                  /\ Document(h) = d /\ Extension[h] = e
                  /\ InStep(h, "publish") /\ calls[h].key = k
                  /\ documents[d][e][k] = baseline[h][k]]_vars

\* Every writer of h's mapping reads nothing but that mapping.
Sole(h) ==
    \A g \in Handles :
        Extension[g] = Extension[h] /\ Document(g) = Document(h) => Len(Sources[g]) = 1

(* A mapping that is its extension's only source stays accepted by the     *)
(* validator, however writes to it interleave: it is validated as it will  *)
(* be published.  (With several sources this fails: they have one lock     *)
(* each, and two candidates can be validated against each other's past.)   *)
SoleSourceStaysAccepted ==
    [][\A h \in Handles :
          Sole(h) /\ Published(h) \in Accepted[Extension[h]]
            => Published(h)' \in Accepted[Extension[h]]]_vars

(* A document's lock is never kept for good, whichever way a write ends.   *)
LocksAreLeft == \A d \in Documents : lock[d] # None ~> lock[d] = None
=============================================================================
