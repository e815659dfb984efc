------------------------ MODULE WorkingSpaces_proofs ------------------------
(***************************************************************************)
(* Proofs that sessions never share or duplicate a temporary space, that a *)
(* temporary space carries nothing worth keeping, that durable spaces are  *)
(* kept and that a space and its workset agree, for any repositories,      *)
(* sessions, clients, shapes and bounds.                                   *)
(***************************************************************************)
EXTENDS WorkingSpaces, TLAPS

LEMMA FoldersAreViews ==
    ASSUME NEW shape \in Shapes, NEW recorded \in BOOLEAN
    PROVE  Folders[<<shape, recorded>>] \in Views
BY WorkingAssumption DEF WorkingAssumption

LEMMA CallShapes ==
    /\ Idle \notin ProjectionCalls \cup PrepareCalls
    /\ ProjectionCalls \cap PrepareCalls = {}
BY DEF Idle, ProjectionCalls, PrepareCalls

-----------------------------------------------------------------------------
(* Types.                                                                  *)

LEMMA StepSpaceTypes ==
    ASSUME TypeOK, [Next]_vars
    PROVE  spaces' \in [Spaces -> SpaceRecords]
<1> DEFINE Good == spaces' \in [Spaces -> SpaceRecords]
<1> USE DEF TypeOK
<1>0. ASSUME NEW s \in Spaces, NEW record \in SpaceRecords, spaces' = [spaces EXCEPT ![s] = record]
      PROVE  Good
  BY <1>0
<1>1. ASSUME UNCHANGED spaces PROVE Good
  BY <1>1
<1>2. NoSpace \in SpaceRecords
  BY DEF NoSpace, SpaceRecords
<1>3. ASSUME NEW session \in Sessions, Close(session) PROVE Good
  <2> SUFFICES ASSUME NEW s \in Spaces PROVE
        (CASE ~Owns(session, s) -> spaces[s]
            [] Owns(session, s) /\ Disposable(s)  -> NoSpace
            [] Owns(session, s) /\ ~Disposable(s) -> [spaces[s] EXCEPT !.temporary = None]) \in SpaceRecords
    BY <1>3 DEF Close
  <2> QED BY <1>2 DEF SpaceRecords
<1>4. ASSUME NEW session \in Sessions, NEW w \in Worktrees, Resolve(session, w) PROVE Good
  <2>1. Descriptor(session, w) \in Descriptors
    BY DEF Descriptor, Descriptors
  <2>2. ASSUME NEW s \in Spaces, spaces' = [spaces EXCEPT ![s] =
                    [spaces[s] EXCEPT !.temporary = Descriptor(session, w)]]
        PROVE  Good
    BY <1>0, <2>1, <2>2 DEF SpaceRecords
  <2>3. ASSUME NEW s \in NextName(RepositoryOf[w]),
               spaces' = [spaces EXCEPT ![s] =
                    [NoSpace EXCEPT !.status = "draft", !.temporary = Descriptor(session, w)]]
        PROVE  Good
    <3>1. s \in Spaces
      BY <2>3, WorkingAssumption DEF WorkingAssumption, NextName, Spaces, TemporaryNames
    <3>2. [NoSpace EXCEPT !.status = "draft", !.temporary = Descriptor(session, w)] \in SpaceRecords
      BY <1>2, <2>1 DEF SpaceRecords, Statuses
    <3> QED BY <1>0, <2>3, <3>1, <3>2
  <2> QED BY <1>4, <2>2, <2>3 DEF Resolve, Commit
<1>5. ASSUME NEW s \in Spaces, NEW shape \in Shapes \cup {Bare}, Reshape(s, shape) PROVE Good
  BY <1>0, <1>5 DEF Reshape, Commit, SpaceRecords
<1>6. ASSUME NEW s \in Spaces, Configure(s) \/ Unconfigure(s) \/ Lock(s) PROVE Good
  <2>1. spaces[s] \in SpaceRecords
    OBVIOUS
  <2>2. [spaces[s] EXCEPT !.configured = TRUE, !.temporary = None] \in SpaceRecords
    BY <2>1 DEF SpaceRecords
  <2>3. [spaces[s] EXCEPT !.configured = FALSE] \in SpaceRecords
    BY <2>1 DEF SpaceRecords
  <2>4. Locked(s) \in SpaceRecords
    BY <2>1 DEF Locked, SpaceRecords, Statuses
  <2> QED BY <1>0, <1>6, <2>2, <2>3, <2>4 DEF Configure, Unconfigure, Lock, Commit
<1>7. ASSUME NEW s \in Spaces, NEW c \in Clients, NEW successor \in Successors,
             Reserve(c, s, successor)
      PROVE  Good
  <2>1. [NoSpace EXCEPT !.status = "preparing", !.shape = spaces[s].shape, !.members = TRUE]
          \in SpaceRecords
    BY <1>2 DEF SpaceRecords, Statuses
  <2> QED BY <1>0, <1>7, <2>1 DEF Reserve, Spaces
<1>8. ASSUME NEW c \in Clients, CommitChange(c) PROVE Good
  <2>1. calls[c].space \in Spaces /\ calls[c].view \in Views \cup {None}
    BY <1>8 DEF CommitChange, InStep, ProjectionCalls
  <2>2. spaces[calls[c].space] \in SpaceRecords
    BY <2>1
  <2>3. CASE calls[c].op = "open"
    <3>1. Outcome(c) = [spaces[calls[c].space] EXCEPT !.projection = calls[c].view, !.temporary = None]
      BY <2>3 DEF Outcome
    <3>2. Outcome(c) \in SpaceRecords
      BY <2>1, <2>2, <3>1 DEF SpaceRecords
    <3> QED BY <1>0, <1>8, <2>1, <3>2 DEF CommitChange
  <2>4. CASE calls[c].op # "open"
    <3>1. Outcome(c) = [spaces[calls[c].space] EXCEPT !.status = "released", !.projection = None]
      BY <2>4 DEF Outcome
    <3>2. Outcome(c) \in SpaceRecords
      BY <2>2, <3>1 DEF SpaceRecords, Statuses
    <3> QED BY <1>0, <1>8, <2>1, <3>2 DEF CommitChange
  <2> QED BY <2>3, <2>4
<1>9. ASSUME NEW c \in Clients, EndPreparation(c) PROVE Good
  <2>1. PICK status \in Ends(c) : spaces' = [spaces EXCEPT ![calls[c].space] = Prepared(c, status)]
    BY <1>9 DEF EndPreparation
  <2>2. calls[c] \in PrepareCalls /\ status \in Statuses
    BY <2>1 DEF Ends, Preparing, Statuses
  <2>3. calls[c].space \in Spaces /\ calls[c].view \in Views
    BY <2>2 DEF PrepareCalls
  <2>4. spaces[calls[c].space] \in SpaceRecords
    BY <2>3
  <2>5. ASSUME NEW view \in Views \cup {None}
        PROVE  [spaces[calls[c].space] EXCEPT !.status = status, !.projection = view] \in SpaceRecords
    BY <2>2, <2>4 DEF SpaceRecords
  <2>6. spaces[calls[c].space].projection \in Views \cup {None}
    BY <2>4 DEF SpaceRecords
  <2>7. Prepared(c, status) \in SpaceRecords
    <3>1. CASE calls[c].created
      BY <2>3, <2>5, <3>1 DEF Prepared
    <3>2. CASE ~calls[c].created
      BY <2>5, <2>6, <3>2 DEF Prepared
    <3> QED BY <3>1, <3>2
  <2> QED BY <1>0, <2>1, <2>3, <2>7
<1>10. ASSUME NEW s \in Spaces,
              \/ Edit(s)
              \/ \E c \in Clients, op \in {"open", "release", "recover"} : Load(c, op, s)
       PROVE  Good
  BY <1>1, <1>10 DEF Edit, Load
<1>11. ASSUME NEW c \in Clients,
              \/ Inspect(c) \/ Refuse(c) \/ ChangeWorkset(c) \/ ToolFails(c)
              \/ CreateWorkset(c) \/ PreparationFails(c) \/ Abort(c)
       PROVE  Good
  BY <1>1, <1>11 DEF Inspect, Refuse, ChangeWorkset, ToolFails, CreateWorkset, PreparationFails, Abort
<1>12. CASE UNCHANGED vars
  BY <1>1, <1>12 DEF vars
<1> QED BY <1>3, <1>4, <1>5, <1>6, <1>7, <1>8, <1>9, <1>10, <1>11, <1>12 DEF Next, Continue

LEMMA StepCallTypes ==
    ASSUME TypeOK, [Next]_vars
    PROVE  calls' \in [Clients -> {Idle} \cup ProjectionCalls \cup PrepareCalls]
<1> DEFINE Calls == {Idle} \cup ProjectionCalls \cup PrepareCalls
           Good == calls' \in [Clients -> Calls]
<1> USE DEF TypeOK
<1>0. ASSUME NEW c \in Clients, NEW call \in Calls, calls' = [calls EXCEPT ![c] = call]
      PROVE  Good
  BY <1>0
<1>1. ASSUME UNCHANGED calls PROVE Good
  BY <1>1
<1>2. ASSUME NEW c \in Clients, End(c) PROVE Good
  BY <1>2 DEF End
<1>3. ASSUME NEW c \in Clients, NEW op \in {"open", "release", "recover"}, NEW s \in Spaces,
             Load(c, op, s)
      PROVE  Good
  <2>1. spaces[s] \in SpaceRecords
    OBVIOUS
  <2>2. spaces[s].projection \in Views \cup {None} /\ spaces[s].shape \in Shapes \cup {Bare}
          /\ spaces[s].members \in BOOLEAN
    BY <2>1 DEF SpaceRecords
  <2>3. CASE op = "open"
    <3>1. spaces[s].shape \in Shapes
      BY <1>3, <2>2, <2>3 DEF Load, Loadable, Plannable
    <3>2. View(s) \in Views
      BY <2>2, <3>1, FoldersAreViews DEF View
    <3>3. calls' = [calls EXCEPT ![c] = [op |-> "open", step |-> "inspect", space |-> s,
                       recorded |-> spaces[s].projection, view |-> View(s)]]
      BY <1>3, <2>3 DEF Load
    <3>4. [op |-> "open", step |-> "inspect", space |-> s, recorded |-> spaces[s].projection,
           view |-> View(s)] \in ProjectionCalls
      BY <2>2, <3>2 DEF ProjectionCalls
    <3> QED BY <1>0, <3>3, <3>4
  <2>4. CASE op # "open"
    <3>1. calls' = [calls EXCEPT ![c] = [op |-> "remove", step |-> "inspect", space |-> s,
                       recorded |-> spaces[s].projection, view |-> None]]
      BY <1>3, <2>4 DEF Load
    <3>2. [op |-> "remove", step |-> "inspect", space |-> s, recorded |-> spaces[s].projection,
           view |-> None] \in ProjectionCalls
      BY <2>2 DEF ProjectionCalls
    <3> QED BY <1>0, <3>1, <3>2
  <2> QED BY <2>3, <2>4
<1>4. ASSUME NEW c \in Clients, NEW step \in {"change", "commit"}, calls[c] \in ProjectionCalls,
             Advance(c, step)
      PROVE  Good
  <2>1. [calls[c] EXCEPT !.step = step] \in ProjectionCalls
    BY <1>4 DEF ProjectionCalls
  <2> QED BY <1>0, <1>4, <2>1 DEF Advance
<1>5. ASSUME NEW c \in Clients, Inspect(c) \/ ChangeWorkset(c) PROVE Good
  BY <1>4, <1>5 DEF Inspect, ChangeWorkset, InStep
<1>6. ASSUME NEW c \in Clients, Refuse(c) \/ ToolFails(c) \/ Abort(c) PROVE Good
  BY <1>2, <1>6 DEF Refuse, ToolFails, Abort
<1>7. ASSUME NEW c \in Clients, CommitChange(c) \/ EndPreparation(c) PROVE Good
  BY <1>0, <1>7 DEF CommitChange, EndPreparation
<1>8. ASSUME NEW c \in Clients, NEW s \in Spaces, NEW successor \in Successors,
             Reserve(c, s, successor)
      PROVE  Good
  <2>1. spaces[s] \in SpaceRecords
    OBVIOUS
  <2>2. spaces[s].shape \in Shapes
    BY <1>8, <2>1 DEF Reserve, Plannable, SpaceRecords
  <2>3. [op |-> "prepare", step |-> "create", space |-> successor,
         view |-> Folders[<<spaces[s].shape, TRUE>>], created |-> FALSE] \in PrepareCalls
    BY <2>2, FoldersAreViews DEF PrepareCalls, Spaces
  <2> QED BY <1>0, <1>8, <2>3 DEF Reserve
<1>9. ASSUME NEW c \in Clients, CreateWorkset(c) PROVE Good
  <2>1. [calls[c] EXCEPT !.step = "publish", !.created = TRUE] \in PrepareCalls
    BY <1>9 DEF CreateWorkset, Preparing, PrepareCalls
  <2>2. calls' = [calls EXCEPT ![c] = [calls[c] EXCEPT !.step = "publish", !.created = TRUE]]
    BY <1>9 DEF CreateWorkset
  <2> QED BY <1>0, <2>1, <2>2
<1>10. ASSUME NEW c \in Clients, PreparationFails(c) PROVE Good
  <2>1. [calls[c] EXCEPT !.step = "fail"] \in PrepareCalls
    BY <1>10 DEF PreparationFails, Preparing, PrepareCalls
  <2> QED BY <1>0, <1>10, <2>1 DEF PreparationFails, Advance
<1>11. ASSUME NEW s \in Spaces,
              \/ Configure(s) \/ Unconfigure(s) \/ Lock(s) \/ Edit(s)
              \/ \E shape \in Shapes \cup {Bare} : Reshape(s, shape)
       PROVE  Good
  BY <1>1, <1>11 DEF Configure, Unconfigure, Lock, Edit, Reshape, Commit
<1>12. ASSUME NEW session \in Sessions, Close(session) \/ \E w \in Worktrees : Resolve(session, w)
       PROVE  Good
  BY <1>1, <1>12 DEF Close, Resolve, Commit
<1>13. CASE UNCHANGED vars
  BY <1>1, <1>13 DEF vars
<1> QED BY <1>3, <1>5, <1>6, <1>7, <1>8, <1>9, <1>10, <1>11, <1>12, <1>13 DEF Next, Continue

LEMMA StepWorksetTypes ==
    ASSUME TypeOK, [Next]_vars
    PROVE  worksets' \in [Spaces -> Views \cup {Foreign, None}]
<1> DEFINE Good == worksets' \in [Spaces -> Views \cup {Foreign, None}]
<1> USE DEF TypeOK
<1>0. ASSUME NEW s \in Spaces, NEW content \in Views \cup {Foreign, None},
             worksets' = [worksets EXCEPT ![s] = content]
      PROVE  Good
  BY <1>0
<1>1. ASSUME UNCHANGED worksets PROVE Good
  BY <1>1
<1>2. ASSUME NEW c \in Clients, ChangeWorkset(c) PROVE Good
  <2>1. calls[c].view \in Views \cup {None}
    BY <1>2 DEF ChangeWorkset, InStep, ProjectionCalls
  <2> QED BY <1>0, <1>2, <2>1 DEF ChangeWorkset
<1>3. ASSUME NEW c \in Clients, CreateWorkset(c) PROVE Good
  <2>1. calls[c].view \in Views
    BY <1>3 DEF CreateWorkset, Preparing, PrepareCalls
  <2> QED BY <1>0, <1>3, <2>1 DEF CreateWorkset
<1>4. ASSUME NEW s \in Spaces, Edit(s) PROVE Good
  BY <1>0, <1>4 DEF Edit
<1>5. ASSUME NEW s \in Spaces,
             \/ Configure(s) \/ Unconfigure(s) \/ Lock(s)
             \/ \E shape \in Shapes \cup {Bare} : Reshape(s, shape)
             \/ \E c \in Clients :
                   \/ \E op \in {"open", "release", "recover"} : Load(c, op, s)
                   \/ \E successor \in Successors : Reserve(c, s, successor)
      PROVE  Good
  BY <1>1, <1>5 DEF Configure, Unconfigure, Lock, Reshape, Commit, Load, Reserve
<1>6. ASSUME NEW session \in Sessions, Close(session) \/ \E w \in Worktrees : Resolve(session, w)
      PROVE  Good
  BY <1>1, <1>6 DEF Close, Resolve, Commit
<1>7. ASSUME NEW c \in Clients,
             \/ Inspect(c) \/ Refuse(c) \/ ToolFails(c) \/ CommitChange(c)
             \/ PreparationFails(c) \/ EndPreparation(c) \/ Abort(c)
      PROVE  Good
  BY <1>1, <1>7 DEF Inspect, Refuse, ToolFails, CommitChange, PreparationFails, EndPreparation, Abort
<1>8. CASE UNCHANGED vars
  BY <1>1, <1>8 DEF vars
<1> QED BY <1>2, <1>3, <1>4, <1>5, <1>6, <1>7, <1>8 DEF Next, Continue

LEMMA StepHistoryTypes ==
    ASSUME TypeOK, [Next]_vars
    PROVE  outdated' \in SUBSET Clients /\ disturbed' \in SUBSET Spaces
<1> USE DEF TypeOK
<1>1. Observers \in SUBSET Clients
  BY DEF Observers
<1>2. ASSUME NEW c \in Clients, calls[c] # Idle PROVE calls[c].space \in Spaces
  BY <1>2 DEF ProjectionCalls, PrepareCalls
<1>3. outdated' \in SUBSET Clients
  BY <1>1 DEF Next, Continue, vars, Close, Resolve, Commit, Reshape, Configure, Unconfigure, Lock,
     Edit, Load, Reserve, Inspect, Refuse, ChangeWorkset, ToolFails, CommitChange, CreateWorkset,
     PreparationFails, EndPreparation, Abort, End
<1>4. ASSUME NEW c \in Clients, CommitChange(c) PROVE disturbed' \in SUBSET Spaces
  BY <1>4 DEF CommitChange, InStep, ProjectionCalls
<1>5. ASSUME NEW c \in Clients, Abort(c) PROVE disturbed' \in SUBSET Spaces
  BY <1>2, <1>5 DEF Abort
<1>6. disturbed' \in SUBSET Spaces
  BY <1>4, <1>5 DEF Next, Continue, vars, Close, Resolve, Commit, Reshape, Configure, Unconfigure,
     Lock, Edit, Load, Reserve, Inspect, Refuse, ChangeWorkset, ToolFails, CreateWorkset,
     PreparationFails, EndPreparation
<1> QED BY <1>3, <1>6

\* The records, worksets and calls stay of their types.
LEMMA StepTypes ==
    ASSUME TypeOK, [Next]_vars
    PROVE  TypeOK'
BY StepSpaceTypes, StepCallTypes, StepWorksetTypes, StepHistoryTypes DEF TypeOK

LEMMA InitTypes ==
    ASSUME Init
    PROVE  TypeOK
BY DEF Init, TypeOK, NoSpace, SpaceRecords

(* The type invariant holds for every value of the constants.              *)
THEOREM Typed == Spec => []TypeOK
BY InitTypes, StepTypes, PTL DEF Spec

-----------------------------------------------------------------------------
(* What a step does to one record.                                         *)

\* Only resolve_session_space gives a space a descriptor.
LEMMA OnlyResolveDescribes ==
    ASSUME TypeOK, [Next]_vars,
           ~ \E session \in Sessions, w \in Worktrees : Resolve(session, w),
           NEW s \in Spaces
    PROVE  spaces'[s].temporary \in {None, spaces[s].temporary}
<1> DEFINE Good == spaces'[s].temporary \in {None, spaces[s].temporary}
<1> USE DEF TypeOK
<1>0. spaces[s] \in SpaceRecords
  OBVIOUS
<1>1. ASSUME UNCHANGED spaces PROVE Good
  BY <1>1
<1>2. ASSUME NEW t \in Spaces, NEW record, record.temporary \in {None, spaces[t].temporary},
             spaces' = [spaces EXCEPT ![t] = record]
      PROVE  Good
  BY <1>2
<1>3. ASSUME NEW session \in Sessions, Close(session) PROVE Good
  <2>1. CASE ~Owns(session, s)
    BY <1>3, <2>1 DEF Close
  <2>2. CASE Owns(session, s) /\ Disposable(s)
    BY <1>3, <2>2 DEF Close, NoSpace
  <2>3. CASE Owns(session, s) /\ ~Disposable(s)
    <3>1. spaces'[s] = [spaces[s] EXCEPT !.temporary = None]
      BY <1>3, <2>3 DEF Close
    <3> QED BY <1>0, <3>1 DEF SpaceRecords
  <2> QED BY <2>1, <2>2, <2>3
<1>4. ASSUME NEW t \in Spaces,
             \/ Configure(t) \/ Unconfigure(t) \/ Lock(t)
             \/ \E shape \in Shapes \cup {Bare} : Reshape(t, shape)
      PROVE  Good
  <2>1. spaces[t] \in SpaceRecords
    OBVIOUS
  <2>2. CASE Configure(t)
    BY <1>2, <2>1, <2>2 DEF Configure, Commit, SpaceRecords
  <2>3. CASE Unconfigure(t)
    BY <1>2, <2>1, <2>3 DEF Unconfigure, Commit, SpaceRecords
  <2>4. CASE Lock(t)
    <3>1. Locked(t).temporary = None
      BY <2>1 DEF Locked, SpaceRecords
    <3> QED BY <1>2, <2>4, <3>1 DEF Lock, Commit
  <2>5. ASSUME NEW shape \in Shapes \cup {Bare}, Reshape(t, shape) PROVE Good
    BY <1>2, <2>1, <2>5 DEF Reshape, Commit, SpaceRecords
  <2> QED BY <1>4, <2>2, <2>3, <2>4, <2>5
<1>5. ASSUME NEW t \in Spaces, NEW c \in Clients, NEW successor \in Successors,
             Reserve(c, t, successor)
      PROVE  Good
  <2> DEFINE record == [NoSpace EXCEPT !.status = "preparing", !.shape = spaces[t].shape, !.members = TRUE]
  <2>1. successor \in Spaces /\ record.temporary = None
    BY DEF Spaces, NoSpace
  <2>2. spaces' = [spaces EXCEPT ![successor] = record]
    BY <1>5 DEF Reserve
  <2> HIDE DEF record
  <2> QED BY <1>2, <2>1, <2>2
<1>6. ASSUME NEW c \in Clients, CommitChange(c) PROVE Good
  <2>1. calls[c].space \in Spaces
    BY <1>6 DEF CommitChange, InStep, ProjectionCalls
  <2>2. spaces[calls[c].space] \in SpaceRecords
    BY <2>1
  <2>3. Outcome(c).temporary \in {None, spaces[calls[c].space].temporary}
    BY <2>2 DEF Outcome, SpaceRecords
  <2> QED BY <1>2, <1>6, <2>1, <2>3 DEF CommitChange
<1>7. ASSUME NEW c \in Clients, EndPreparation(c) PROVE Good
  <2>1. PICK status \in Ends(c) : spaces' = [spaces EXCEPT ![calls[c].space] = Prepared(c, status)]
    BY <1>7 DEF EndPreparation
  <2>2. calls[c].space \in Spaces
    BY <2>1 DEF Ends, Preparing, PrepareCalls
  <2>3. spaces[calls[c].space] \in SpaceRecords
    BY <2>2
  <2>4. Prepared(c, status).temporary = spaces[calls[c].space].temporary
    BY <2>3 DEF Prepared, SpaceRecords
  <2> QED BY <1>2, <2>1, <2>2, <2>4
<1>8. ASSUME NEW t \in Spaces,
             \/ Edit(t)
             \/ \E c \in Clients, op \in {"open", "release", "recover"} : Load(c, op, t)
      PROVE  Good
  BY <1>1, <1>8 DEF Edit, Load
<1>9. ASSUME NEW c \in Clients,
             \/ Inspect(c) \/ Refuse(c) \/ ChangeWorkset(c) \/ ToolFails(c)
             \/ CreateWorkset(c) \/ PreparationFails(c) \/ Abort(c)
      PROVE  Good
  BY <1>1, <1>9 DEF Inspect, Refuse, ChangeWorkset, ToolFails, CreateWorkset, PreparationFails, Abort
<1>10. CASE UNCHANGED vars
  BY <1>1, <1>10 DEF vars
<1> QED BY <1>3, <1>4, <1>5, <1>6, <1>7, <1>8, <1>9, <1>10 DEF Next, Continue

\* What resolve_session_space does, as one record.
LEMMA ResolveMakesOne ==
    ASSUME TypeOK, NEW session \in Sessions, NEW w \in Worktrees, Resolve(session, w)
    PROVE  \E s \in Spaces :
              /\ \A t \in Spaces \ {s} : spaces'[t] = spaces[t]
              /\ spaces'[s].temporary = Descriptor(session, w)
              /\ spaces'[s].status = "draft" /\ spaces'[s].projection = None
              /\ ~spaces'[s].configured
              /\ ~Exists(s) \/ spaces[s].temporary # None
<1> USE DEF TypeOK
<1>1. ASSUME NEW s \in Spaces, Disposable(s),
             spaces' = [spaces EXCEPT ![s] = [spaces[s] EXCEPT !.temporary = Descriptor(session, w)]]
      PROVE  /\ \A t \in Spaces \ {s} : spaces'[t] = spaces[t]
             /\ spaces'[s].temporary = Descriptor(session, w)
             /\ spaces'[s].status = "draft" /\ spaces'[s].projection = None
             /\ ~spaces'[s].configured
             /\ ~Exists(s) \/ spaces[s].temporary # None
  <2>1. spaces[s] \in SpaceRecords
    OBVIOUS
  <2> QED BY <1>1, <2>1 DEF SpaceRecords, Disposable
<1>2. ASSUME NEW s \in NextName(RepositoryOf[w]),
             spaces' = [spaces EXCEPT ![s] =
                  [NoSpace EXCEPT !.status = "draft", !.temporary = Descriptor(session, w)]]
      PROVE  /\ s \in Spaces
             /\ \A t \in Spaces \ {s} : spaces'[t] = spaces[t]
             /\ spaces'[s].temporary = Descriptor(session, w)
             /\ spaces'[s].status = "draft" /\ spaces'[s].projection = None
             /\ ~spaces'[s].configured
             /\ ~Exists(s) \/ spaces[s].temporary # None
  <2>1. s \in Spaces /\ ~Exists(s)
    BY <1>2, WorkingAssumption DEF WorkingAssumption, NextName, Spaces, TemporaryNames
  <2> QED BY <1>2, <2>1 DEF NoSpace
<1> QED BY <1>1, <1>2 DEF Resolve, Commit

LEMMA DurableStep ==
    ASSUME TypeOK, [Next]_vars, NEW s \in Spaces, Exists(s), spaces[s].temporary = None
    PROVE  spaces'[s].status # "absent" /\ spaces'[s].temporary = None
<1> DEFINE Good == spaces'[s].status # "absent" /\ spaces'[s].temporary = None
<1> USE DEF TypeOK
<1>0. spaces[s] \in SpaceRecords /\ spaces[s].status # "absent"
  BY DEF Exists
<1>1. CASE \E session \in Sessions, w \in Worktrees : Resolve(session, w)
  BY <1>0, <1>1, ResolveMakesOne
<1>2. CASE ~ \E session \in Sessions, w \in Worktrees : Resolve(session, w)
  <2>0. spaces'[s].temporary = None
    BY <1>2, OnlyResolveDescribes
  <2>1. ASSUME UNCHANGED spaces PROVE Good
    BY <1>0, <2>0, <2>1
  <2>2. ASSUME NEW t \in Spaces, NEW record, record.status # "absent",
               spaces' = [spaces EXCEPT ![t] = record]
        PROVE  Good
    BY <1>0, <2>0, <2>2
  <2>3. ASSUME NEW session \in Sessions, Close(session) PROVE Good
    BY <1>0, <2>0, <2>3 DEF Close, Owns
  <2>4. ASSUME NEW t \in Spaces,
               \/ Configure(t) \/ Unconfigure(t) \/ Lock(t)
               \/ \E shape \in Shapes \cup {Bare} : Reshape(t, shape)
        PROVE  Good
    <3>1. t # s => spaces'[s] = spaces[s]
      BY <2>4 DEF Configure, Unconfigure, Lock, Locked, Reshape, Commit
    <3>2. CASE t = s /\ Configure(s)
      BY <1>0, <2>0, <3>2 DEF Configure, Commit, SpaceRecords
    <3>3. CASE t = s /\ Unconfigure(s)
      BY <1>0, <2>0, <3>3 DEF Unconfigure, Commit, SpaceRecords
    <3>4. CASE t = s /\ Lock(s)
      <4>1. Locked(s).status = "locked"
        BY <1>0 DEF Locked, SpaceRecords
      <4> QED BY <2>0, <3>4, <4>1 DEF Lock, Commit
    <3>5. ASSUME NEW shape \in Shapes \cup {Bare}, t = s, Reshape(s, shape) PROVE Good
      BY <1>0, <2>0, <3>5 DEF Reshape, Commit, SpaceRecords
    <3> QED BY <1>0, <2>0, <2>4, <3>1, <3>2, <3>3, <3>4, <3>5
  <2>5. ASSUME NEW t \in Spaces, NEW c \in Clients, NEW successor \in Successors,
               Reserve(c, t, successor)
        PROVE  Good
    <3>1. successor \in Spaces /\ successor # s
      BY <2>5, <1>0 DEF Reserve, Exists, Spaces
    <3> QED BY <1>0, <2>0, <2>5, <3>1 DEF Reserve
  <2>6. ASSUME NEW c \in Clients, CommitChange(c) PROVE Good
    <3>1. calls[c].space \in Spaces
      BY <2>6 DEF CommitChange, InStep, ProjectionCalls
    <3>2. calls[c].space # s => spaces'[s] = spaces[s]
      BY <2>6, <3>1 DEF CommitChange
    <3>3. calls[c].space = s => spaces'[s].status \in {spaces[s].status, "released"}
      BY <1>0, <2>6 DEF CommitChange, Outcome, SpaceRecords
    <3> QED BY <1>0, <2>0, <3>2, <3>3
  <2>7. ASSUME NEW c \in Clients, EndPreparation(c) PROVE Good
    <3>1. PICK status \in Ends(c) : spaces' = [spaces EXCEPT ![calls[c].space] = Prepared(c, status)]
      BY <2>7 DEF EndPreparation
    <3>2. calls[c].space \in Spaces /\ status # "absent"
      BY <3>1 DEF Ends, Preparing, PrepareCalls
    <3>3. spaces[calls[c].space] \in SpaceRecords
      BY <3>2
    <3>4. Prepared(c, status).status # "absent"
      BY <3>2, <3>3 DEF Prepared, SpaceRecords
    <3> QED BY <2>2, <3>1, <3>2, <3>4
  <2>8. ASSUME NEW t \in Spaces,
               \/ Edit(t)
               \/ \E c \in Clients, op \in {"open", "release", "recover"} : Load(c, op, t)
        PROVE  Good
    BY <2>1, <2>8 DEF Edit, Load
  <2>9. ASSUME NEW c \in Clients,
               \/ Inspect(c) \/ Refuse(c) \/ ChangeWorkset(c) \/ ToolFails(c)
               \/ CreateWorkset(c) \/ PreparationFails(c) \/ Abort(c)
        PROVE  Good
    BY <2>1, <2>9 DEF Inspect, Refuse, ChangeWorkset, ToolFails, CreateWorkset, PreparationFails, Abort
  <2>10. CASE UNCHANGED vars
    BY <2>1, <2>10 DEF vars
  <2> QED BY <1>2, <2>3, <2>4, <2>5, <2>6, <2>7, <2>8, <2>9, <2>10 DEF Next, Continue
<1> QED BY <1>1, <1>2

(* No session takes over or removes a durable space.                       *)
THEOREM Durable_IsKept == Spec => DurableIsKept
<1>1. ASSUME TypeOK, [Next]_vars
      PROVE  \A s \in Spaces :
                Exists(s) /\ spaces[s].temporary = None
                  => Exists(s)' /\ spaces'[s].temporary = None
  BY <1>1, DurableStep DEF Exists
<1>2. TypeOK /\ [Next]_vars
        => [\A s \in Spaces :
               Exists(s) /\ spaces[s].temporary = None
                 => Exists(s)' /\ spaces'[s].temporary = None]_vars
  BY <1>1
<1> QED BY <1>2, Typed, PTL DEF Spec, DurableIsKept

-----------------------------------------------------------------------------
(* A session never has two temporary spaces of one worktree.               *)
THEOREM OneDraft_PerSession == Spec => []OneDraftPerSession
<1>1. Init => OneDraftPerSession
  BY DEF Init, OneDraftPerSession, NoSpace
<1>2. ASSUME TypeOK, OneDraftPerSession, [Next]_vars PROVE OneDraftPerSession'
  <2> USE DEF TypeOK, OneDraftPerSession
  <2>1. CASE \E session \in Sessions, w \in Worktrees : Resolve(session, w)
    <3>1. PICK session \in Sessions, w \in Worktrees : Resolve(session, w)
      BY <2>1
    <3>2. \A s \in Spaces : spaces[s].temporary # Descriptor(session, w)
      BY <3>1, WorkingAssumption
         DEF WorkingAssumption, Resolve, Known, Matches, Owns, Descriptor
    <3>3. PICK s \in Spaces : /\ \A t \in Spaces \ {s} : spaces'[t] = spaces[t]
                              /\ spaces'[s].temporary = Descriptor(session, w)
      BY <1>2, <3>1, ResolveMakesOne
    <3>4. ASSUME NEW x \in Spaces, NEW y \in Spaces, x # y,
                 spaces'[x].temporary # None, spaces'[x].temporary = spaces'[y].temporary
          PROVE  FALSE
      BY <1>2, <3>2, <3>3, <3>4
    <3> QED BY <3>4
  <2>2. CASE ~ \E session \in Sessions, w \in Worktrees : Resolve(session, w)
    <3>1. \A s \in Spaces : spaces'[s].temporary \in {None, spaces[s].temporary}
      BY <1>2, <2>2, OnlyResolveDescribes
    <3> QED BY <1>2, <3>1
  <2> QED BY <2>1, <2>2
<1> QED BY <1>1, <1>2, Typed, PTL DEF Spec

-----------------------------------------------------------------------------
\* The successor of a preparation exists and is no session's.
ReservedIsDurable ==
    \A c \in Clients :
        calls[c] \in PrepareCalls =>
            Exists(calls[c].space) /\ spaces[calls[c].space].temporary = None

\* A call that is at a preparation now reserved its successor or was one.
LEMMA PreparationsBegin ==
    ASSUME TypeOK, [Next]_vars, NEW d \in Clients, calls'[d] \in PrepareCalls,
           ~ \E s \in Spaces, successor \in Successors : Reserve(d, s, successor)
    PROVE  calls[d] \in PrepareCalls /\ calls'[d].space = calls[d].space
<1> DEFINE Good == calls[d] \in PrepareCalls /\ calls'[d].space = calls[d].space
<1> USE DEF TypeOK
<1>1. ASSUME calls'[d] = calls[d] PROVE Good
  BY <1>1
<1>2. ASSUME NEW c \in Clients, NEW call, call \notin PrepareCalls,
             calls' = [calls EXCEPT ![c] = call]
      PROVE  Good
  BY <1>1, <1>2
<1>3. ASSUME NEW c \in Clients, NEW op \in {"open", "release", "recover"}, NEW s \in Spaces,
             Load(c, op, s)
      PROVE  Good
  BY <1>1, <1>3 DEF Load, PrepareCalls
<1>4. ASSUME NEW c \in Clients, Inspect(c) \/ ChangeWorkset(c) PROVE Good
  <2>1. calls'[c].op = calls[c].op /\ calls[c].op # "prepare"
    BY <1>4 DEF Inspect, ChangeWorkset, InStep, Advance, ProjectionCalls
  <2>2. c # d
    BY <2>1 DEF PrepareCalls
  <2> QED BY <1>1, <1>4, <2>2 DEF Inspect, ChangeWorkset, Advance
<1>5. ASSUME NEW c \in Clients,
             \/ Refuse(c) \/ ToolFails(c) \/ Abort(c) \/ CommitChange(c) \/ EndPreparation(c)
      PROVE  Good
  BY <1>2, <1>5, CallShapes DEF Refuse, ToolFails, Abort, End, CommitChange, EndPreparation
<1>6. ASSUME NEW c \in Clients, NEW s \in Spaces, NEW successor \in Successors,
             Reserve(c, s, successor), c # d
      PROVE  Good
  BY <1>1, <1>6 DEF Reserve
<1>7. ASSUME NEW c \in Clients, CreateWorkset(c) \/ PreparationFails(c) PROVE Good
  <2>1. calls[c] \in PrepareCalls
    BY <1>7 DEF CreateWorkset, PreparationFails, Preparing
  <2>2. calls'[c].space = calls[c].space
    BY <1>7, <2>1 DEF CreateWorkset, PreparationFails, Advance, PrepareCalls
  <2>3. c # d => calls'[d] = calls[d]
    BY <1>7 DEF CreateWorkset, PreparationFails, Advance
  <2> QED BY <1>1, <2>1, <2>2, <2>3
<1>8. ASSUME NEW s \in Spaces,
             \/ Configure(s) \/ Unconfigure(s) \/ Lock(s) \/ Edit(s)
             \/ \E shape \in Shapes \cup {Bare} : Reshape(s, shape)
      PROVE  Good
  BY <1>1, <1>8 DEF Configure, Unconfigure, Lock, Edit, Reshape, Commit
<1>9. ASSUME NEW session \in Sessions, Close(session) \/ \E w \in Worktrees : Resolve(session, w)
      PROVE  Good
  BY <1>1, <1>9 DEF Close, Resolve, Commit
<1>10. CASE UNCHANGED vars
  BY <1>1, <1>10 DEF vars
<1> QED BY <1>3, <1>4, <1>5, <1>6, <1>7, <1>8, <1>9, <1>10 DEF Next, Continue

LEMMA StepReservedIsDurable ==
    ASSUME TypeOK, ReservedIsDurable, [Next]_vars
    PROVE  ReservedIsDurable'
<1> SUFFICES ASSUME NEW d \in Clients, calls'[d] \in PrepareCalls
             PROVE  /\ spaces'[calls'[d].space].status # "absent"
                    /\ spaces'[calls'[d].space].temporary = None
  BY DEF ReservedIsDurable, Exists
<1> USE DEF TypeOK
<1>1. CASE \E s \in Spaces, successor \in Successors : Reserve(d, s, successor)
  <2>1. PICK s \in Spaces, successor \in Successors : Reserve(d, s, successor)
    BY <1>1
  <2>2. successor \in Spaces /\ calls'[d].space = successor
    BY <2>1 DEF Reserve, Spaces
  <2>3. spaces'[successor] =
          [NoSpace EXCEPT !.status = "preparing", !.shape = spaces[s].shape, !.members = TRUE]
    BY <2>1, <2>2 DEF Reserve
  <2> QED BY <2>2, <2>3 DEF NoSpace
<1>2. CASE ~ \E s \in Spaces, successor \in Successors : Reserve(d, s, successor)
  <2>1. calls[d] \in PrepareCalls /\ calls'[d].space = calls[d].space
    BY <1>2, PreparationsBegin
  <2>2. Exists(calls[d].space) /\ spaces[calls[d].space].temporary = None
    BY <2>1 DEF ReservedIsDurable
  <2>3. calls[d].space \in Spaces
    BY <2>1 DEF PrepareCalls
  <2> QED BY <2>1, <2>2, <2>3, DurableStep
<1> QED BY <1>1, <1>2

\* What a temporary space may be.
Undistinguished(space) ==
    space.temporary # None =>
        /\ space.status \in {"draft", "released"}
        /\ space.projection = None
        /\ ~space.configured

LEMMA EvidenceStep ==
    ASSUME TypeOK, ReservedIsDurable, TemporaryCarriesNoEvidence, [Next]_vars
    PROVE  TemporaryCarriesNoEvidence'
<1> SUFFICES ASSUME NEW s \in Spaces PROVE Undistinguished(spaces'[s])
  BY DEF TemporaryCarriesNoEvidence, Undistinguished
<1> DEFINE Good == Undistinguished(spaces'[s])
<1> USE DEF TypeOK
<1>0. \A t \in Spaces : spaces[t] \in SpaceRecords /\ Undistinguished(spaces[t])
  BY DEF TemporaryCarriesNoEvidence, Undistinguished
<1>1. ASSUME UNCHANGED spaces PROVE Good
  BY <1>0, <1>1
<1>2. ASSUME NEW t \in Spaces, NEW record, Undistinguished(record),
             spaces' = [spaces EXCEPT ![t] = record]
      PROVE  Good
  BY <1>0, <1>2
<1>3. ASSUME NEW session \in Sessions, NEW w \in Worktrees, Resolve(session, w) PROVE Good
  <2>1. PICK t \in Spaces : /\ \A x \in Spaces \ {t} : spaces'[x] = spaces[x]
                            /\ spaces'[t].status = "draft" /\ spaces'[t].projection = None
                            /\ ~spaces'[t].configured
    BY <1>3, ResolveMakesOne
  <2>2. Undistinguished(spaces'[t])
    BY <2>1 DEF Undistinguished
  <2> QED BY <1>0, <2>1, <2>2
<1>4. ASSUME NEW session \in Sessions, Close(session) PROVE Good
  <2>1. CASE ~Owns(session, s)
    BY <1>0, <1>4, <2>1 DEF Close
  <2>2. CASE Owns(session, s) /\ Disposable(s)
    BY <1>4, <2>2 DEF Close, NoSpace, Undistinguished
  <2>3. CASE Owns(session, s) /\ ~Disposable(s)
    <3>1. spaces'[s] = [spaces[s] EXCEPT !.temporary = None]
      BY <1>4, <2>3 DEF Close
    <3> QED BY <1>0, <3>1 DEF SpaceRecords, Undistinguished
  <2> QED BY <2>1, <2>2, <2>3
<1>5. ASSUME NEW t \in Spaces, NEW shape \in Shapes \cup {Bare}, Reshape(t, shape) PROVE Good
  BY <1>0, <1>2, <1>5 DEF Reshape, Commit, SpaceRecords, Undistinguished
<1>6. ASSUME NEW t \in Spaces, Configure(t) PROVE Good
  BY <1>0, <1>2, <1>6 DEF Configure, Commit, SpaceRecords, Undistinguished
<1>7. ASSUME NEW t \in Spaces, Unconfigure(t) PROVE Good
  BY <1>0, <1>2, <1>7 DEF Unconfigure, Commit, SpaceRecords, Undistinguished
<1>8. ASSUME NEW t \in Spaces, Lock(t) PROVE Good
  <2>1. Locked(t).temporary = None
    BY <1>0 DEF Locked, SpaceRecords
  <2> QED BY <1>2, <1>8, <2>1 DEF Lock, Commit, Undistinguished
<1>9. ASSUME NEW t \in Spaces, NEW c \in Clients, NEW successor \in Successors,
             Reserve(c, t, successor)
      PROVE  Good
  <2> DEFINE record == [NoSpace EXCEPT !.status = "preparing", !.shape = spaces[t].shape, !.members = TRUE]
  <2>1. successor \in Spaces /\ record.temporary = None
    BY DEF Spaces, NoSpace
  <2>2. spaces' = [spaces EXCEPT ![successor] = record]
    BY <1>9 DEF Reserve
  <2> HIDE DEF record
  <2> QED BY <1>2, <2>1, <2>2 DEF Undistinguished
<1>10. ASSUME NEW c \in Clients, CommitChange(c) PROVE Good
  <2>1. calls[c].space \in Spaces
    BY <1>10 DEF CommitChange, InStep, ProjectionCalls
  <2>2. CASE calls[c].op = "open"
    <3>1. Outcome(c) = [spaces[calls[c].space] EXCEPT !.projection = calls[c].view, !.temporary = None]
      BY <2>2 DEF Outcome
    <3>2. Outcome(c).temporary = None
      BY <1>0, <2>1, <3>1 DEF SpaceRecords
    <3> QED BY <1>2, <1>10, <2>1, <3>2 DEF CommitChange, Undistinguished
  <2>3. CASE calls[c].op # "open"
    <3>1. Outcome(c) = [spaces[calls[c].space] EXCEPT !.status = "released", !.projection = None]
      BY <2>3 DEF Outcome
    <3>2. Undistinguished(Outcome(c))
      BY <1>0, <2>1, <3>1 DEF SpaceRecords, Undistinguished
    <3> QED BY <1>2, <1>10, <2>1, <3>2 DEF CommitChange
  <2> QED BY <2>2, <2>3
<1>11. ASSUME NEW c \in Clients, EndPreparation(c) PROVE Good
  <2>1. PICK status \in Ends(c) : spaces' = [spaces EXCEPT ![calls[c].space] = Prepared(c, status)]
    BY <1>11 DEF EndPreparation
  <2>2. calls[c] \in PrepareCalls /\ calls[c].space \in Spaces
    BY <2>1 DEF Ends, Preparing, PrepareCalls
  <2>3. spaces[calls[c].space].temporary = None
    BY <2>2 DEF ReservedIsDurable
  <2>4. Prepared(c, status).temporary = None
    BY <1>0, <2>2, <2>3 DEF Prepared, SpaceRecords
  <2> QED BY <1>2, <2>1, <2>2, <2>4 DEF Undistinguished
<1>12. ASSUME NEW t \in Spaces,
             \/ Edit(t)
             \/ \E c \in Clients, op \in {"open", "release", "recover"} : Load(c, op, t)
      PROVE  Good
  BY <1>1, <1>12 DEF Edit, Load
<1>13. ASSUME NEW c \in Clients,
             \/ Inspect(c) \/ Refuse(c) \/ ChangeWorkset(c) \/ ToolFails(c)
             \/ CreateWorkset(c) \/ PreparationFails(c) \/ Abort(c)
      PROVE  Good
  BY <1>1, <1>13 DEF Inspect, Refuse, ChangeWorkset, ToolFails, CreateWorkset, PreparationFails, Abort
<1>14. CASE UNCHANGED vars
  BY <1>1, <1>14 DEF vars
<1> HIDE DEF Good
<1>15. ASSUME NEW c \in Clients, Continue(c) PROVE Good
  BY <1>10, <1>11, <1>13, <1>15 DEF Continue
<1>16. ASSUME NEW session \in Sessions, Close(session) \/ \E w \in Worktrees : Resolve(session, w)
       PROVE  Good
  BY <1>3, <1>4, <1>16
<1>17. Next => Good
  BY <1>5, <1>6, <1>7, <1>8, <1>9, <1>12, <1>15, <1>16 DEF Next
<1> QED BY <1>14, <1>17 DEF Good

(* What a session can lose holds no lease, workset or configuration.       *)
THEOREM Temporary_CarriesNoEvidence == Spec => []TemporaryCarriesNoEvidence
<1> DEFINE Inv == ReservedIsDurable /\ TemporaryCarriesNoEvidence
<1>1. Init => Inv
  BY CallShapes DEF Init, ReservedIsDurable, TemporaryCarriesNoEvidence, NoSpace
<1>2. TypeOK /\ Inv /\ [Next]_vars => Inv'
  BY StepReservedIsDurable, EvidenceStep
<1>3. Inv => TemporaryCarriesNoEvidence
  OBVIOUS
<1> HIDE DEF Inv
<1> QED BY <1>1, <1>2, <1>3, Typed, PTL DEF Spec

-----------------------------------------------------------------------------
(* The record of a space and its workset agree, whatever opens, releases,  *)
(* recovers and prepares it at once, for any number of clients.            *)
(*                                                                         *)
(* A call changes a workset before it commits, so the two are apart in     *)
(* between.  A call whose generation has passed cannot commit any more:    *)
(* its end will disturb the space, and nothing is claimed until then.  Of  *)
(* two calls that have both changed the workset, only one can commit.      *)
(* What remains is a call that is alone, and at most one preparation.      *)


\* The call has changed the workset of s, and not committed that.
Changes(call, s) ==
    /\ call \in ProjectionCalls
    /\ call.step = "commit"
    /\ call.op = "open" <=> call.recorded = None
    /\ call.space = s

\* The call has made the workset of its successor s.
Made(call, s) == call \in PrepareCalls /\ call.created /\ call.space = s

\* What a change leaves.
Left(call) == IF call.op = "open" THEN call.view ELSE None

Quiet(ops, s) == \A c \in Clients : ~Changes(ops[c], s)

\* Client c can still commit, and nobody else has changed the workset.
Alone(ops, passed, c, s) ==
    /\ Changes(ops[c], s)
    /\ c \notin passed
    /\ \A d \in Clients : Changes(ops[d], s) => d = c

\* The workset while a preparation is going to record it.
AccountedMade(workset, projection, ops, passed, s) ==
    \A p \in Clients : Made(ops[p], s) =>
        /\ Quiet(ops, s) => workset = ops[p].view /\ projection = None
        /\ \A c \in Clients :
              Alone(ops, passed, c, s) => workset = ops[p].view /\ ops[c].op # "open"

\* The workset while no preparation is.
AccountedPlain(workset, projection, ops, passed, s) ==
    (\A p \in Clients : ~Made(ops[p], s)) =>
        /\ Quiet(ops, s) => workset = projection
        /\ \A c \in Clients : Alone(ops, passed, c, s) => workset = Left(ops[c])

Accounted(workset, projection, ops, passed, s) ==
    /\ AccountedMade(workset, projection, ops, passed, s)
    /\ AccountedPlain(workset, projection, ops, passed, s)

WorksetsAccounted ==
    \A s \in Spaces \ disturbed :
        Accounted(worksets[s], spaces[s].projection, calls, outdated, s)

\* What a call knows of its space as long as its generation has not passed.
CallsKnowRecords ==
    \A c \in Clients : calls[c] \in ProjectionCalls =>
        /\ c \notin outdated =>
              /\ Exists(calls[c].space)
              /\ calls[c].recorded = spaces[calls[c].space].projection
        /\ calls[c].op = "open" => calls[c].view \in Views
        /\ calls[c].step = "change" => (calls[c].op = "open" <=> calls[c].recorded = None)

AbsentIsBlank == \A s \in Spaces : ~Exists(s) => spaces[s].projection = None

OnePreparation ==
    \A c, d \in Clients :
        calls[c] \in PrepareCalls /\ calls[d] \in PrepareCalls /\ calls[c].space = calls[d].space
            => c = d

WorksetInv ==
    /\ TypeOK
    /\ ReservedIsDurable
    /\ TemporaryCarriesNoEvidence
    /\ CallsKnowRecords
    /\ AbsentIsBlank
    /\ OnePreparation
    /\ WorksetsAccounted

-----------------------------------------------------------------------------
(* Steps that leave a workset, its record and the calls on it alone.       *)

\* As far as s is concerned the two calls are the same.
Alike(a, b, s) ==
    /\ Changes(a, s) <=> Changes(b, s)
    /\ Made(a, s) <=> Made(b, s)
    /\ Changes(a, s) \/ Made(a, s) => a.view = b.view /\ a.op = b.op

LEMMA Unmoved ==
    ASSUME NEW s, NEW workset, NEW projection, NEW before, NEW after, NEW passed, NEW passed2,
           Accounted(workset, projection, before, passed, s),
           \A c \in Clients : Alike(before[c], after[c], s),
           \A c \in Clients : Changes(after[c], s) /\ c \in passed => c \in passed2
    PROVE  Accounted(workset, projection, after, passed2, s)
<1>1. Quiet(after, s) => Quiet(before, s)
  BY DEF Quiet, Alike
<1>2. \A c \in Clients : Alone(after, passed2, c, s) => Alone(before, passed, c, s)
  BY DEF Alone, Alike
<1>3. \A c \in Clients : Changes(after[c], s) => Left(after[c]) = Left(before[c])
  BY DEF Left, Alike
<1>4. AccountedMade(workset, projection, after, passed2, s)
  <2> SUFFICES ASSUME NEW p \in Clients, Made(after[p], s)
               PROVE  /\ Quiet(after, s) => workset = after[p].view /\ projection = None
                      /\ \A c \in Clients : Alone(after, passed2, c, s)
                            => workset = after[p].view /\ after[c].op # "open"
    BY DEF AccountedMade
  <2>1. Made(before[p], s) /\ before[p].view = after[p].view
    BY DEF Alike
  <2>2. /\ Quiet(before, s) => workset = before[p].view /\ projection = None
        /\ \A c \in Clients : Alone(before, passed, c, s)
              => workset = before[p].view /\ before[c].op # "open"
    BY <2>1 DEF Accounted, AccountedMade
  <2>3. \A c \in Clients : Alone(after, passed2, c, s) => after[c].op = before[c].op
    BY <1>2 DEF Alike, Alone
  <2> QED BY <1>1, <1>2, <2>1, <2>2, <2>3
<1>5. AccountedPlain(workset, projection, after, passed2, s)
  <2> SUFFICES ASSUME \A p \in Clients : ~Made(after[p], s)
               PROVE  /\ Quiet(after, s) => workset = projection
                      /\ \A c \in Clients : Alone(after, passed2, c, s) => workset = Left(after[c])
    BY DEF AccountedPlain
  <2>1. \A p \in Clients : ~Made(before[p], s)
    BY DEF Alike
  <2>2. /\ Quiet(before, s) => workset = projection
        /\ \A c \in Clients : Alone(before, passed, c, s) => workset = Left(before[c])
    BY <2>1 DEF Accounted, AccountedPlain
  <2>3. \A c \in Clients : Alone(after, passed2, c, s) => Changes(after[c], s)
    BY DEF Alone
  <2> QED BY <1>1, <1>2, <1>3, <2>2, <2>3
<1> QED BY <1>4, <1>5 DEF Accounted

LEMMA OneMoves ==
    ASSUME TypeOK, NEW s, NEW c \in Clients, NEW call, calls' = [calls EXCEPT ![c] = call],
           Alike(calls[c], call, s)
    PROVE  \A d \in Clients : Alike(calls[d], calls'[d], s)
BY DEF TypeOK, Alike

LEMMA IdleIsNoMatter ==
    ASSUME NEW s
    PROVE  ~Changes(Idle, s) /\ ~Made(Idle, s)
BY CallShapes DEF Changes, Made

\* What prepares, loads and commits in one step keeps every projection.
LEMMA ProjectionKept ==
    ASSUME TypeOK, TemporaryCarriesNoEvidence, AbsentIsBlank, NEW s \in Spaces,
           \/ \E session \in Sessions : Close(session)
           \/ \E session \in Sessions, w \in Worktrees : Resolve(session, w)
           \/ \E t \in Spaces, shape \in Shapes \cup {Bare} : Reshape(t, shape)
           \/ \E t \in Spaces : Configure(t) \/ Unconfigure(t) \/ Lock(t)
           \/ \E c \in Clients, t \in Spaces, successor \in Successors : Reserve(c, t, successor)
    PROVE  /\ spaces'[s].projection = spaces[s].projection
           /\ outdated' = Observers /\ UNCHANGED <<worksets, disturbed>>
<1> DEFINE Good == /\ spaces'[s].projection = spaces[s].projection
                   /\ outdated' = Observers /\ UNCHANGED <<worksets, disturbed>>
<1> USE DEF TypeOK
<1>0. \A t \in Spaces : spaces[t] \in SpaceRecords
  OBVIOUS
<1>1. ASSUME NEW session \in Sessions, Close(session) PROVE Good
  <2>1. CASE ~Owns(session, s)
    BY <1>1, <2>1 DEF Close
  <2>2. CASE Owns(session, s) /\ Disposable(s)
    BY <1>1, <2>2 DEF Close, NoSpace, Disposable
  <2>3. CASE Owns(session, s) /\ ~Disposable(s)
    <3>1. spaces'[s] = [spaces[s] EXCEPT !.temporary = None]
      BY <1>1, <2>3 DEF Close
    <3> QED BY <1>0, <1>1, <3>1 DEF Close, SpaceRecords
  <2> QED BY <2>1, <2>2, <2>3
<1>2. ASSUME NEW session \in Sessions, NEW w \in Worktrees, Resolve(session, w) PROVE Good
  <2>1. PICK t \in Spaces : /\ \A x \in Spaces \ {t} : spaces'[x] = spaces[x]
                            /\ spaces'[t].projection = None
                            /\ ~Exists(t) \/ spaces[t].temporary # None
    BY <1>2, ResolveMakesOne
  <2>2. spaces[t].projection = None
    BY <2>1 DEF TemporaryCarriesNoEvidence, AbsentIsBlank
  <2> QED BY <1>2, <2>1, <2>2 DEF Resolve, Commit
<1>3. ASSUME NEW t \in Spaces, NEW record, record.projection = spaces[t].projection, Commit(t, record)
      PROVE  Good
  BY <1>3 DEF Commit
<1>4. ASSUME NEW t \in Spaces, NEW shape \in Shapes \cup {Bare}, Reshape(t, shape) PROVE Good
  BY <1>0, <1>3, <1>4 DEF Reshape, SpaceRecords
<1>5. ASSUME NEW t \in Spaces, Configure(t) PROVE Good
  BY <1>0, <1>3, <1>5 DEF Configure, SpaceRecords
<1>6. ASSUME NEW t \in Spaces, Unconfigure(t) PROVE Good
  BY <1>0, <1>3, <1>6 DEF Unconfigure, SpaceRecords
<1>7. ASSUME NEW t \in Spaces, Lock(t) PROVE Good
  <2>1. Locked(t).projection = spaces[t].projection
    BY <1>0 DEF Locked, SpaceRecords
  <2> QED BY <1>3, <1>7, <2>1 DEF Lock
<1>8. ASSUME NEW c \in Clients, NEW t \in Spaces, NEW successor \in Successors,
             Reserve(c, t, successor)
      PROVE  Good
  <2>1. successor \in Spaces /\ spaces[successor].projection = None
    BY <1>8 DEF Reserve, Spaces, AbsentIsBlank
  <2>2. spaces'[successor].projection = None
    BY <1>8, <2>1 DEF Reserve, NoSpace
  <2>3. s # successor => spaces'[s] = spaces[s]
    BY <1>8, <2>1 DEF Reserve
  <2> QED BY <1>8, <2>1, <2>2, <2>3 DEF Reserve
<1> QED BY <1>1, <1>2, <1>4, <1>5, <1>6, <1>7, <1>8

-----------------------------------------------------------------------------
(* What the records and calls keep.                                        *)

LEMMA StepAbsentIsBlank ==
    ASSUME TypeOK, TemporaryCarriesNoEvidence, AbsentIsBlank, CallsKnowRecords, [Next]_vars
    PROVE  AbsentIsBlank'
<1> SUFFICES ASSUME NEW s \in Spaces, spaces'[s].status = "absent"
             PROVE  spaces'[s].projection = None
  BY DEF AbsentIsBlank, Exists
<1> DEFINE Good == spaces'[s].projection = None
<1> USE DEF TypeOK
<1>0. spaces[s] \in SpaceRecords
  OBVIOUS
<1>1. ASSUME spaces'[s] = spaces[s] PROVE Good
  BY <1>1 DEF AbsentIsBlank, Exists
<1>2. ASSUME NEW session \in Sessions, Close(session) PROVE Good
  <2>1. spaces'[s].projection = spaces[s].projection
    BY <1>2, ProjectionKept
  <2>2. CASE ~Owns(session, s)
    BY <1>1, <1>2, <2>2 DEF Close
  <2>3. CASE Owns(session, s) /\ Disposable(s)
    BY <2>1, <2>3 DEF Disposable
  <2>4. CASE Owns(session, s) /\ ~Disposable(s)
    <3>1. spaces'[s] = [spaces[s] EXCEPT !.temporary = None]
      BY <1>2, <2>4 DEF Close
    <3>2. spaces[s].status = "absent"
      BY <1>0, <3>1 DEF SpaceRecords
    <3> QED BY <2>1, <3>2 DEF AbsentIsBlank, Exists
  <2> QED BY <2>2, <2>3, <2>4
<1>3. ASSUME NEW session \in Sessions, NEW w \in Worktrees, Resolve(session, w) PROVE Good
  <2>1. PICK t \in Spaces : /\ \A x \in Spaces \ {t} : spaces'[x] = spaces[x]
                            /\ spaces'[t].projection = None
    BY <1>3, ResolveMakesOne
  <2> QED BY <1>1, <2>1
<1>4. ASSUME NEW t \in Spaces, NEW record,
             record.status = spaces[t].status \/ record.status # "absent",
             record.projection = spaces[t].projection, Commit(t, record)
      PROVE  Good
  <2>1. CASE t = s
    BY <1>4, <2>1 DEF Commit, AbsentIsBlank, Exists
  <2>2. CASE t # s
    BY <1>1, <1>4, <2>2 DEF Commit
  <2> QED BY <2>1, <2>2
<1>5. ASSUME NEW t \in Spaces,
             \/ Configure(t) \/ Unconfigure(t) \/ Lock(t)
             \/ \E shape \in Shapes \cup {Bare} : Reshape(t, shape)
      PROVE  Good
  <2>0. spaces[t] \in SpaceRecords
    OBVIOUS
  <2>1. CASE Configure(t)
    BY <1>4, <2>0, <2>1 DEF Configure, SpaceRecords
  <2>2. CASE Unconfigure(t)
    BY <1>4, <2>0, <2>2 DEF Unconfigure, SpaceRecords
  <2>3. CASE Lock(t)
    <3>1. Locked(t).projection = spaces[t].projection /\ Locked(t).status = "locked"
      BY <2>0 DEF Locked, SpaceRecords
    <3> QED BY <1>4, <2>3, <3>1 DEF Lock
  <2>4. ASSUME NEW shape \in Shapes \cup {Bare}, Reshape(t, shape) PROVE Good
    BY <1>4, <2>0, <2>4 DEF Reshape, SpaceRecords
  <2> QED BY <1>5, <2>1, <2>2, <2>3, <2>4
<1>6. ASSUME NEW c \in Clients, NEW t \in Spaces, NEW successor \in Successors,
             Reserve(c, t, successor)
      PROVE  Good
  <2>1. successor \in Spaces
    BY DEF Spaces
  <2>2. spaces'[successor].projection = None
    BY <1>6, <2>1 DEF Reserve, NoSpace
  <2>3. s # successor => spaces'[s] = spaces[s]
    BY <1>6, <2>1 DEF Reserve
  <2> QED BY <1>1, <2>2, <2>3
<1>7. ASSUME NEW c \in Clients, CommitChange(c) PROVE Good
  <2>1. calls[c].space \in Spaces /\ spaces[calls[c].space].status # "absent"
    BY <1>7 DEF CommitChange, InStep, UpToDate, CallsKnowRecords, Exists, ProjectionCalls
  <2>2. spaces[calls[c].space] \in SpaceRecords
    BY <2>1
  <2>3. Outcome(c).status # "absent"
    <3>1. CASE calls[c].op = "open"
      <4>1. Outcome(c) = [spaces[calls[c].space] EXCEPT !.projection = calls[c].view, !.temporary = None]
        BY <3>1 DEF Outcome
      <4> QED BY <2>1, <2>2, <4>1 DEF SpaceRecords
    <3>2. CASE calls[c].op # "open"
      <4>1. Outcome(c) = [spaces[calls[c].space] EXCEPT !.status = "released", !.projection = None]
        BY <3>2 DEF Outcome
      <4> QED BY <2>2, <4>1 DEF SpaceRecords
    <3> QED BY <3>1, <3>2
  <2>4. calls[c].space # s
    BY <1>7, <2>1, <2>3 DEF CommitChange
  <2> QED BY <1>1, <1>7, <2>1, <2>4 DEF CommitChange
<1>8. ASSUME NEW c \in Clients, EndPreparation(c) PROVE Good
  <2>1. PICK status \in Ends(c) : spaces' = [spaces EXCEPT ![calls[c].space] = Prepared(c, status)]
    BY <1>8 DEF EndPreparation
  <2>2. calls[c].space \in Spaces /\ status # "absent"
    BY <2>1 DEF Ends, Preparing, PrepareCalls
  <2>3. spaces[calls[c].space] \in SpaceRecords
    BY <2>2
  <2>4. Prepared(c, status).status # "absent"
    BY <2>2, <2>3 DEF Prepared, SpaceRecords
  <2>5. calls[c].space # s
    BY <2>1, <2>2, <2>4
  <2> QED BY <1>1, <2>1, <2>2, <2>5
<1>9. ASSUME NEW t \in Spaces,
             \/ Edit(t)
             \/ \E c \in Clients, op \in {"open", "release", "recover"} : Load(c, op, t)
      PROVE  Good
  BY <1>1, <1>9 DEF Edit, Load
<1>10. ASSUME NEW c \in Clients,
             \/ Inspect(c) \/ Refuse(c) \/ ChangeWorkset(c) \/ ToolFails(c)
             \/ CreateWorkset(c) \/ PreparationFails(c) \/ Abort(c)
      PROVE  Good
  BY <1>1, <1>10 DEF Inspect, Refuse, ChangeWorkset, ToolFails, CreateWorkset, PreparationFails, Abort
<1>11. CASE UNCHANGED vars
  BY <1>1, <1>11 DEF vars
<1> QED BY <1>2, <1>3, <1>5, <1>6, <1>7, <1>8, <1>9, <1>10, <1>11 DEF Next, Continue

\* Two clients never prepare one successor.
LEMMA StepOnePreparation ==
    ASSUME TypeOK, ReservedIsDurable, OnePreparation, [Next]_vars
    PROVE  OnePreparation'
<1> SUFFICES ASSUME NEW c \in Clients, NEW d \in Clients, c # d,
                    calls'[c] \in PrepareCalls, calls'[d] \in PrepareCalls,
                    calls'[c].space = calls'[d].space
             PROVE  FALSE
  BY DEF OnePreparation
<1>1. ASSUME NEW x \in Clients, NEW y \in Clients, x # y, calls'[y] \in PrepareCalls,
             calls'[x].space = calls'[y].space,
             \E s \in Spaces, successor \in Successors : Reserve(x, s, successor)
      PROVE  FALSE
  <2>1. PICK s \in Spaces, successor \in Successors : Reserve(x, s, successor)
    BY <1>1
  <2>2. calls'[y] = calls[y] /\ calls'[x].space = successor
    BY <1>1, <2>1 DEF Reserve, TypeOK
  <2>3. Exists(successor)
    BY <1>1, <2>2 DEF ReservedIsDurable
  <2> QED BY <2>1, <2>3 DEF Reserve
<1>2. /\ ~ \E s \in Spaces, successor \in Successors : Reserve(c, s, successor)
      /\ ~ \E s \in Spaces, successor \in Successors : Reserve(d, s, successor)
  BY <1>1
<1>3. /\ calls[c] \in PrepareCalls /\ calls'[c].space = calls[c].space
      /\ calls[d] \in PrepareCalls /\ calls'[d].space = calls[d].space
  BY <1>2, PreparationsBegin
<1> QED BY <1>3 DEF OnePreparation

\* What holds of one call when its generation has not passed.
Knows(call, current, records) ==
    call \in ProjectionCalls =>
        /\ current =>
              /\ records[call.space].status # "absent"
              /\ call.recorded = records[call.space].projection
        /\ call.op = "open" => call.view \in Views
        /\ call.step = "change" => (call.op = "open" <=> call.recorded = None)

LEMMA StepCallsKnowRecords ==
    ASSUME TypeOK, CallsKnowRecords, [Next]_vars
    PROVE  CallsKnowRecords'
<1> SUFFICES ASSUME NEW d \in Clients PROVE Knows(calls'[d], d \notin outdated', spaces')
  BY DEF CallsKnowRecords, Knows, Exists
<1> DEFINE Good == Knows(calls'[d], d \notin outdated', spaces')
<1> USE DEF TypeOK
<1>0. Knows(calls[d], d \notin outdated, spaces)
  BY DEF CallsKnowRecords, Knows, Exists
<1>1. ASSUME calls'[d] = calls[d], outdated' = Observers PROVE Good
  BY <1>0, <1>1 DEF Knows, Observers
<1>2. ASSUME calls'[d] = calls[d], UNCHANGED spaces, d \in outdated => d \in outdated' PROVE Good
  BY <1>0, <1>2 DEF Knows
<1>3. ASSUME calls'[d] \notin ProjectionCalls PROVE Good
  BY <1>3 DEF Knows
<1>4. ASSUME NEW session \in Sessions, Close(session) \/ \E w \in Worktrees : Resolve(session, w)
      PROVE  Good
  BY <1>1, <1>4 DEF Close, Resolve, Commit
<1>5. ASSUME NEW t \in Spaces,
             \/ Configure(t) \/ Unconfigure(t) \/ Lock(t)
             \/ \E shape \in Shapes \cup {Bare} : Reshape(t, shape)
      PROVE  Good
  BY <1>1, <1>5 DEF Configure, Unconfigure, Lock, Reshape, Commit
<1>6. ASSUME NEW t \in Spaces, Edit(t) PROVE Good
  BY <1>2, <1>6 DEF Edit
<1>7. ASSUME NEW c \in Clients, NEW op \in {"open", "release", "recover"}, NEW t \in Spaces,
             Load(c, op, t)
      PROVE  Good
  <2>1. CASE c # d
    BY <1>2, <1>7, <2>1 DEF Load
  <2>2. CASE c = d
    <3>1. calls'[d] = [op |-> IF op = "open" THEN op ELSE "remove", step |-> "inspect", space |-> t,
                       recorded |-> spaces[t].projection,
                       view |-> IF op = "open" THEN View(t) ELSE None]
      BY <1>7, <2>2 DEF Load
    <3>2. Exists(t) /\ (op = "open" => spaces[t].shape # Bare)
      BY <1>7 DEF Load, Loadable, Plannable
    <3>3. spaces[t].shape \in Shapes \cup {Bare} /\ spaces[t].members \in BOOLEAN
      BY DEF SpaceRecords
    <3>4. op = "open" => View(t) \in Views
      BY <3>2, <3>3, FoldersAreViews DEF View
    <3>5. UNCHANGED spaces
      BY <1>7 DEF Load
    <3> QED BY <3>1, <3>2, <3>4, <3>5 DEF Knows, Exists
  <2> QED BY <2>1, <2>2
<1>8. ASSUME NEW c \in Clients, NEW t \in Spaces, NEW successor \in Successors,
             Reserve(c, t, successor)
      PROVE  Good
  <2>1. CASE c # d
    BY <1>1, <1>8, <2>1 DEF Reserve
  <2>2. CASE c = d
    BY <1>3, <1>8, <2>2 DEF Reserve, ProjectionCalls
  <2> QED BY <2>1, <2>2
<1>9. ASSUME NEW c \in Clients, Inspect(c) \/ ChangeWorkset(c) PROVE Good
  <2>1. CASE c # d
    BY <1>2, <1>9, <2>1 DEF Inspect, ChangeWorkset, Advance
  <2>2. CASE c = d
    <3>1. calls[d] \in ProjectionCalls /\ UNCHANGED <<spaces, outdated>>
      BY <1>9, <2>2 DEF Inspect, ChangeWorkset, InStep
    <3>2. PICK step : calls'[d] = [calls[d] EXCEPT !.step = step]
      BY <1>9, <2>2 DEF Inspect, ChangeWorkset, Advance
    <3>3. /\ calls'[d].op = calls[d].op /\ calls'[d].space = calls[d].space
          /\ calls'[d].recorded = calls[d].recorded /\ calls'[d].view = calls[d].view
      BY <3>1, <3>2 DEF ProjectionCalls
    <3>4. calls'[d].step = "change" => (calls[d].op = "open" <=> calls[d].recorded = None)
      <4>1. CASE Inspect(d)
        BY <3>1, <4>1 DEF Inspect, Advance, Absent, Current, ProjectionCalls
      <4>2. CASE ChangeWorkset(d)
        BY <3>1, <4>2 DEF ChangeWorkset, Advance, ProjectionCalls
      <4> QED BY <1>9, <2>2, <4>1, <4>2
    <3> QED BY <1>0, <3>1, <3>3, <3>4 DEF Knows
  <2> QED BY <2>1, <2>2
<1>10. ASSUME NEW c \in Clients, Refuse(c) \/ ToolFails(c) \/ Abort(c) PROVE Good
  <2>1. CASE c # d
    BY <1>2, <1>10, <2>1 DEF Refuse, ToolFails, Abort, End
  <2>2. CASE c = d
    BY <1>3, <1>10, <2>2, CallShapes DEF Refuse, ToolFails, Abort, End
  <2> QED BY <2>1, <2>2
<1>11. ASSUME NEW c \in Clients, CommitChange(c) \/ EndPreparation(c) PROVE Good
  <2>1. CASE c # d
    <3>1. calls'[d] = calls[d] /\ outdated' = Observers \ {c}
      BY <1>11, <2>1 DEF CommitChange, EndPreparation
    <3> QED BY <1>0, <2>1, <3>1 DEF Knows, Observers
  <2>2. CASE c = d
    BY <1>3, <1>11, <2>2, CallShapes DEF CommitChange, EndPreparation
  <2> QED BY <2>1, <2>2
<1>12. ASSUME NEW c \in Clients, CreateWorkset(c) \/ PreparationFails(c) PROVE Good
  <2>1. CASE c # d
    BY <1>2, <1>12, <2>1 DEF CreateWorkset, PreparationFails, Advance
  <2>2. CASE c = d
    <3>1. calls[d].op = "prepare" /\ calls'[d].op = calls[d].op
      BY <1>12, <2>2 DEF CreateWorkset, PreparationFails, Preparing, PrepareCalls, Advance
    <3> QED BY <1>3, <3>1 DEF ProjectionCalls
  <2> QED BY <2>1, <2>2
<1>13. CASE UNCHANGED vars
  BY <1>2, <1>13 DEF vars
<1> HIDE DEF Good
<1>14. ASSUME NEW c \in Clients, Continue(c) PROVE Good
  BY <1>9, <1>10, <1>11, <1>12, <1>14 DEF Continue
<1>15. Next => Good
  BY <1>4, <1>5, <1>6, <1>7, <1>8, <1>14 DEF Next
<1> QED BY <1>13, <1>15 DEF Good

-----------------------------------------------------------------------------
(* The four steps that move a workset or its record.                       *)

\* A changed workset is what its call is going to record, if it still can.
LEMMA ChangeIsAccounted ==
    ASSUME WorksetInv, NEW s \in Spaces, s \notin disturbed,
           NEW c \in Clients, ChangeWorkset(c), calls[c].space = s
    PROVE  Accounted(worksets'[s], spaces'[s].projection, calls', outdated', s)
<1> USE DEF WorksetInv, TypeOK
<1>1. /\ calls[c] \in ProjectionCalls /\ calls[c].step = "change"
      /\ UNCHANGED <<spaces, outdated>>
      /\ calls' = [calls EXCEPT ![c].step = "commit"]
  BY DEF ChangeWorkset, InStep, Advance
<1>2. /\ calls'[c].op = calls[c].op /\ calls'[c].view = calls[c].view
      /\ calls'[c].recorded = calls[c].recorded /\ calls'[c].space = s
      /\ calls'[c].step = "commit" /\ calls'[c] \in ProjectionCalls
  BY <1>1 DEF ProjectionCalls
<1>3. calls[c].op = "open" <=> calls[c].recorded = None
  BY <1>1 DEF CallsKnowRecords
<1>4. Changes(calls'[c], s) /\ ~Changes(calls[c], s)
  BY <1>1, <1>2, <1>3 DEF Changes
<1>5. ~Made(calls'[c], s) /\ ~Made(calls[c], s)
  BY <1>1, <1>2, CallShapes DEF Made
<1>6. \A d \in Clients \ {c} : calls'[d] = calls[d]
  BY <1>1
<1>7. ~Quiet(calls', s)
  BY <1>4 DEF Quiet
<1>8. ASSUME NEW x \in Clients, Alone(calls', outdated', x, s)
      PROVE  x = c /\ c \notin outdated /\ Quiet(calls, s)
  BY <1>1, <1>4, <1>6, <1>8 DEF Alone, Quiet
<1>9. /\ worksets'[s] = Left(calls'[c])
      /\ calls[c].op = "open" => worksets[s] = None
  BY <1>2 DEF ChangeWorkset, Left
<1>10. Accounted(worksets[s], spaces[s].projection, calls, outdated, s)
  BY DEF WorksetsAccounted
<1>11. AccountedMade(worksets'[s], spaces'[s].projection, calls', outdated', s)
  <2> SUFFICES ASSUME NEW p \in Clients, Made(calls'[p], s),
                      NEW x \in Clients, Alone(calls', outdated', x, s)
               PROVE  FALSE
    BY <1>7 DEF AccountedMade
  <2>1. Made(calls[p], s)
    BY <1>5, <1>6
  <2>2. worksets[s] = calls[p].view /\ spaces[s].projection = None
    BY <1>8, <1>10, <2>1 DEF Accounted, AccountedMade
  <2>3. calls[p].view # None
    BY <2>1, WorkingAssumption DEF WorkingAssumption, Made, PrepareCalls
  <2>4. calls[c].recorded = spaces[s].projection
    BY <1>1, <1>8 DEF CallsKnowRecords
  <2> QED BY <1>3, <1>9, <2>2, <2>3, <2>4
<1>12. AccountedPlain(worksets'[s], spaces'[s].projection, calls', outdated', s)
  BY <1>7, <1>8, <1>9 DEF AccountedPlain
<1> QED BY <1>11, <1>12 DEF Accounted

\* A preparation finds no workset, so what is recorded is going to be nothing.
LEMMA CreationIsAccounted ==
    ASSUME WorksetInv, OnePreparation', NEW s \in Spaces, s \notin disturbed,
           NEW c \in Clients, CreateWorkset(c), calls[c].space = s
    PROVE  Accounted(worksets'[s], spaces'[s].projection, calls', outdated', s)
<1> USE DEF WorksetInv, TypeOK
<1>1. /\ calls[c] \in PrepareCalls /\ UNCHANGED <<spaces, outdated>>
      /\ worksets[s] = None /\ worksets'[s] = calls[c].view
      /\ calls' = [calls EXCEPT ![c].step = "publish", ![c].created = TRUE]
  BY DEF CreateWorkset, Preparing
<1>2. calls'[c] = [calls[c] EXCEPT !.step = "publish", !.created = TRUE]
  BY <1>1
<1>3. calls'[c] \in PrepareCalls /\ calls'[c].view = calls[c].view /\ calls'[c].space = s
      /\ calls'[c].created
  BY <1>1, <1>2 DEF PrepareCalls
<1>4. \A d \in Clients \ {c} : calls'[d] = calls[d]
  BY <1>1
<1>5. Made(calls'[c], s) /\ ~Changes(calls'[c], s) /\ ~Changes(calls[c], s)
  BY <1>1, <1>3, CallShapes DEF Made, Changes
<1>6. calls[c].view \in Views /\ calls[c].view # None
  BY <1>1, WorkingAssumption DEF WorkingAssumption, PrepareCalls
<1>7. Accounted(worksets[s], spaces[s].projection, calls, outdated, s)
  BY DEF WorksetsAccounted
<1>8. \A p \in Clients : Made(calls[p], s) => p = c
  BY <1>1 DEF Made, OnePreparation
<1>9. Quiet(calls', s) => Quiet(calls, s)
  BY <1>4, <1>5 DEF Quiet
<1>10. \A x \in Clients : Alone(calls', outdated', x, s) => Alone(calls, outdated, x, s) /\ x # c
  BY <1>1, <1>4, <1>5 DEF Alone
<1>11. Quiet(calls, s) => spaces[s].projection = None
  <2>1. CASE Made(calls[c], s)
    BY <1>7, <2>1 DEF Accounted, AccountedMade
  <2>2. CASE ~Made(calls[c], s)
    BY <1>1, <1>7, <1>8, <2>2 DEF Accounted, AccountedPlain
  <2> QED BY <2>1, <2>2
<1>12. ASSUME NEW x \in Clients, Alone(calls, outdated, x, s) PROVE calls[x].op # "open"
  <2>1. CASE Made(calls[c], s)
    BY <1>7, <1>12, <2>1 DEF Accounted, AccountedMade
  <2>2. CASE ~Made(calls[c], s)
    <3>1. Left(calls[x]) = None
      BY <1>1, <1>7, <1>8, <1>12, <2>2 DEF Accounted, AccountedPlain
    <3>2. calls[x].op = "open" => calls[x].view \in Views
      BY <1>12 DEF Alone, Changes, CallsKnowRecords
    <3> QED BY <3>1, <3>2, WorkingAssumption DEF WorkingAssumption, Left
  <2> QED BY <2>1, <2>2
<1>13. \A p \in Clients : Made(calls'[p], s) => p = c
  BY <1>3 DEF Made, OnePreparation
<1>14. AccountedMade(worksets'[s], spaces'[s].projection, calls', outdated', s)
  <2> SUFFICES /\ Quiet(calls', s) =>
                    worksets'[s] = calls'[c].view /\ spaces'[s].projection = None
               /\ \A x \in Clients : Alone(calls', outdated', x, s) =>
                    worksets'[s] = calls'[c].view /\ calls'[x].op # "open"
    BY <1>13 DEF AccountedMade
  <2>1. Quiet(calls', s) => spaces'[s].projection = None
    BY <1>1, <1>9, <1>11
  <2>2. \A x \in Clients : Alone(calls', outdated', x, s) => calls'[x].op # "open"
    BY <1>4, <1>10, <1>12
  <2> QED BY <1>1, <1>3, <2>1, <2>2
<1>15. AccountedPlain(worksets'[s], spaces'[s].projection, calls', outdated', s)
  BY <1>5 DEF AccountedPlain
<1> QED BY <1>14, <1>15 DEF Accounted

\* A commit makes the generation of every other call pass.
LEMMA CommitLeavesNoneAlone ==
    ASSUME TypeOK, NEW s, NEW c \in Clients, calls' = [calls EXCEPT ![c] = Idle],
           outdated' = Observers \ {c}
    PROVE  /\ \A x \in Clients : ~Alone(calls', outdated', x, s)
           /\ \A d \in Clients \ {c} : calls'[d] = calls[d]
           /\ ~Made(calls'[c], s)
<1> USE DEF TypeOK
<1>1. calls'[c] = Idle /\ \A d \in Clients \ {c} : calls'[d] = calls[d]
  OBVIOUS
<1>2. ~Changes(calls'[c], s) /\ ~Made(calls'[c], s)
  BY <1>1, IdleIsNoMatter
<1>3. ASSUME NEW x \in Clients, Alone(calls', outdated', x, s) PROVE FALSE
  <2>1. x # c /\ calls[x] \in ProjectionCalls
    BY <1>1, <1>2, <1>3 DEF Alone, Changes
  <2> QED BY <1>3, <2>1 DEF Alone, Observers
<1> QED BY <1>1, <1>2, <1>3

\* The commit of a change, and of a call that changed nothing.
LEMMA CommitIsAccounted ==
    ASSUME WorksetInv, NEW s \in Spaces, s \notin disturbed',
           NEW c \in Clients, CommitChange(c), calls[c].space = s
    PROVE  Accounted(worksets'[s], spaces'[s].projection, calls', outdated', s)
<1> USE DEF WorksetInv, TypeOK
<1>1. /\ calls[c] \in ProjectionCalls /\ calls[c].step = "commit" /\ c \notin outdated
      /\ calls' = [calls EXCEPT ![c] = Idle] /\ outdated' = Observers \ {c}
      /\ UNCHANGED worksets /\ spaces'[s] = Outcome(c)
  BY DEF CommitChange, InStep, UpToDate
<1>2. /\ \A x \in Clients : ~Alone(calls', outdated', x, s)
      /\ \A d \in Clients \ {c} : calls'[d] = calls[d]
      /\ ~Made(calls'[c], s)
  BY <1>1, CommitLeavesNoneAlone
<1>3. ~Made(calls[c], s)
  BY <1>1, CallShapes DEF Made
<1>4. spaces'[s].projection = Left(calls[c])
  <2>1. spaces[s] \in SpaceRecords
    OBVIOUS
  <2>2. CASE calls[c].op = "open"
    <3>1. Outcome(c) = [spaces[s] EXCEPT !.projection = calls[c].view, !.temporary = None]
      BY <2>2 DEF Outcome
    <3> QED BY <1>1, <2>1, <2>2, <3>1 DEF Left, SpaceRecords
  <2>3. CASE calls[c].op # "open"
    <3>1. Outcome(c) = [spaces[s] EXCEPT !.status = "released", !.projection = None]
      BY <2>3 DEF Outcome
    <3> QED BY <1>1, <2>1, <2>3, <3>1 DEF Left, SpaceRecords
  <2> QED BY <2>2, <2>3
<1>5. s \notin disturbed
  BY DEF CommitChange
<1>6. Accounted(worksets[s], spaces[s].projection, calls, outdated, s)
  BY <1>5 DEF WorksetsAccounted
<1>7. Changed(c) <=> Changes(calls[c], s)
  BY <1>1 DEF Changed, InStep, Changes
<1>8. \A p \in Clients : Made(calls'[p], s) <=> Made(calls[p], s)
  BY <1>2, <1>3
<1>9. ASSUME Quiet(calls', s)
      PROVE  /\ \A p \in Clients : Made(calls[p], s) =>
                   worksets[s] = calls[p].view /\ spaces'[s].projection = None
             /\ (\A p \in Clients : ~Made(calls[p], s)) => worksets[s] = spaces'[s].projection
  <2>1. \A d \in Clients : Changes(calls[d], s) => d = c
    BY <1>2, <1>9 DEF Quiet
  <2>2. CASE Changes(calls[c], s)
    <3>1. Alone(calls, outdated, c, s)
      BY <1>1, <2>1, <2>2 DEF Alone
    <3>2. (\A p \in Clients : ~Made(calls[p], s)) => worksets[s] = Left(calls[c])
      BY <1>6, <3>1 DEF Accounted, AccountedPlain
    <3>3. \A p \in Clients : Made(calls[p], s) =>
             worksets[s] = calls[p].view /\ calls[c].op # "open"
      BY <1>6, <3>1 DEF Accounted, AccountedMade
    <3> QED BY <1>4, <3>2, <3>3 DEF Left
  <2>3. CASE ~Changes(calls[c], s)
    <3>1. Quiet(calls, s)
      BY <2>1, <2>3 DEF Quiet
    <3>2. calls[c].recorded = Outcome(c).projection
      BY <1>7, <2>3 DEF CommitChange
    <3>3. spaces'[s].projection = spaces[s].projection
      BY <1>1, <3>2 DEF CallsKnowRecords
    <3> QED BY <1>6, <3>1, <3>3 DEF Accounted, AccountedMade, AccountedPlain
  <2> QED BY <2>2, <2>3
<1>10. AccountedMade(worksets'[s], spaces'[s].projection, calls', outdated', s)
  BY <1>1, <1>2, <1>8, <1>9 DEF AccountedMade
<1>11. AccountedPlain(worksets'[s], spaces'[s].projection, calls', outdated', s)
  BY <1>1, <1>2, <1>8, <1>9 DEF AccountedPlain
<1> QED BY <1>10, <1>11 DEF Accounted

\* The end of a preparation records the workset that it made.
LEMMA PreparationIsAccounted ==
    ASSUME WorksetInv, NEW s \in Spaces, s \notin disturbed,
           NEW c \in Clients, EndPreparation(c), calls[c].space = s
    PROVE  Accounted(worksets'[s], spaces'[s].projection, calls', outdated', s)
<1> USE DEF WorksetInv, TypeOK
<1>1. PICK status \in Ends(c) : spaces' = [spaces EXCEPT ![s] = Prepared(c, status)]
  BY DEF EndPreparation
<1>2. /\ calls[c] \in PrepareCalls /\ UNCHANGED worksets
      /\ calls' = [calls EXCEPT ![c] = Idle] /\ outdated' = Observers \ {c}
  BY <1>1 DEF EndPreparation, Ends, Preparing
<1>3. /\ \A x \in Clients : ~Alone(calls', outdated', x, s)
      /\ \A d \in Clients \ {c} : calls'[d] = calls[d]
      /\ ~Made(calls'[c], s)
  BY <1>2, CommitLeavesNoneAlone
<1>4. spaces'[s].projection =
        IF calls[c].created THEN calls[c].view ELSE spaces[s].projection
  <2>1. spaces[s] \in SpaceRecords
    OBVIOUS
  <2> QED BY <1>1, <2>1 DEF Prepared, SpaceRecords
<1>5. Accounted(worksets[s], spaces[s].projection, calls, outdated, s)
  BY DEF WorksetsAccounted
<1>6. \A p \in Clients : Made(calls[p], s) => p = c
  BY <1>2 DEF Made, OnePreparation
<1>7. Quiet(calls', s) => Quiet(calls, s)
  BY <1>2, <1>3, CallShapes DEF Quiet, Changes
<1>8. Quiet(calls, s) => worksets[s] = spaces'[s].projection
  <2>1. CASE calls[c].created
    <3>1. Made(calls[c], s)
      BY <1>2, <2>1 DEF Made
    <3> QED BY <1>4, <1>5, <2>1, <3>1 DEF Accounted, AccountedMade
  <2>2. CASE ~calls[c].created
    <3>1. \A p \in Clients : ~Made(calls[p], s)
      BY <1>6, <2>2 DEF Made
    <3> QED BY <1>4, <1>5, <2>2, <3>1 DEF Accounted, AccountedPlain
  <2> QED BY <2>1, <2>2
<1>9. AccountedPlain(worksets'[s], spaces'[s].projection, calls', outdated', s)
  BY <1>2, <1>3, <1>7, <1>8 DEF AccountedPlain
<1>10. AccountedMade(worksets'[s], spaces'[s].projection, calls', outdated', s)
  BY <1>3, <1>6 DEF AccountedMade
<1> QED BY <1>9, <1>10 DEF Accounted

-----------------------------------------------------------------------------
(* Every step.                                                             *)

LEMMA StepWorksetsAccounted ==
    ASSUME WorksetInv, OnePreparation', [Next]_vars
    PROVE  WorksetsAccounted'
<1> SUFFICES ASSUME NEW s \in Spaces, s \notin disturbed'
             PROVE  Accounted(worksets'[s], spaces'[s].projection, calls', outdated', s)
  BY DEF WorksetsAccounted
<1> DEFINE Good == Accounted(worksets'[s], spaces'[s].projection, calls', outdated', s)
<1> USE DEF WorksetInv, TypeOK
<1>0. ASSUME s \notin disturbed, worksets'[s] = worksets[s],
             spaces'[s].projection = spaces[s].projection,
             \A d \in Clients : Alike(calls[d], calls'[d], s),
             \A d \in Clients : Changes(calls'[d], s) /\ d \in outdated => d \in outdated'
      PROVE  Good
  <2>1. Accounted(worksets[s], spaces[s].projection, calls, outdated, s)
    BY <1>0 DEF WorksetsAccounted
  <2> QED BY <1>0, <2>1, Unmoved
<1>1. ASSUME NEW c \in Clients, NEW call, calls' = [calls EXCEPT ![c] = call],
             Alike(calls[c], call, s), s \notin disturbed, worksets'[s] = worksets[s],
             spaces'[s].projection = spaces[s].projection,
             \A d \in Clients \ {c} : Changes(calls[d], s) /\ d \in outdated => d \in outdated',
             Changes(call, s) => outdated' = outdated
      PROVE  Good
  <2>1. \A d \in Clients : Alike(calls[d], calls'[d], s)
    BY <1>1, OneMoves
  <2>2. \A d \in Clients : Changes(calls'[d], s) /\ d \in outdated => d \in outdated'
    BY <1>1
  <2> QED BY <1>0, <1>1, <2>1, <2>2
<1>2. \A d \in Clients : Changes(calls[d], s) => d \in Observers
  BY DEF Changes, Observers
<1>3. \A d \in Clients : Alike(calls[d], calls[d], s)
  BY DEF Alike
<1>4. ASSUME UNCHANGED <<worksets, calls, disturbed>>, outdated' = Observers,
             spaces'[s].projection = spaces[s].projection
      PROVE  Good
  BY <1>0, <1>2, <1>3, <1>4
<1>5. ASSUME NEW session \in Sessions, Close(session) \/ \E w \in Worktrees : Resolve(session, w)
      PROVE  Good
  <2>1. UNCHANGED calls
    BY <1>5 DEF Close, Resolve, Commit
  <2> QED BY <1>4, <1>5, <2>1, ProjectionKept
<1>6. ASSUME NEW t \in Spaces,
             \/ Configure(t) \/ Unconfigure(t) \/ Lock(t)
             \/ \E shape \in Shapes \cup {Bare} : Reshape(t, shape)
      PROVE  Good
  <2>1. UNCHANGED calls
    BY <1>6 DEF Configure, Unconfigure, Lock, Reshape, Commit
  <2> QED BY <1>4, <1>6, <2>1, ProjectionKept
<1>7. ASSUME NEW t \in Spaces, Edit(t) PROVE Good
  <2>1. t # s /\ s \notin disturbed
    BY <1>7 DEF Edit
  <2> QED BY <1>0, <1>3, <1>7, <2>1 DEF Edit
<1>8. ASSUME NEW c \in Clients, NEW op \in {"open", "release", "recover"}, NEW t \in Spaces,
             Load(c, op, t)
      PROVE  Good
  <2> DEFINE call == [op |-> IF op = "open" THEN op ELSE "remove", step |-> "inspect", space |-> t,
                      recorded |-> spaces[t].projection,
                      view |-> IF op = "open" THEN View(t) ELSE None]
  <2>1. call.step # "commit" /\ call.op # "prepare"
    OBVIOUS
  <2>2. calls' = [calls EXCEPT ![c] = call] /\ calls[c] = Idle
    BY <1>8 DEF Load
  <2> HIDE DEF call
  <2>3. ~Changes(call, s) /\ ~Made(call, s)
    BY <2>1 DEF Changes, Made, PrepareCalls
  <2>4. Alike(calls[c], call, s)
    BY <2>2, <2>3, IdleIsNoMatter DEF Alike
  <2> QED BY <1>1, <1>8, <2>2, <2>4 DEF Load
<1>9. ASSUME NEW c \in Clients, NEW t \in Spaces, NEW successor \in Successors,
             Reserve(c, t, successor)
      PROVE  Good
  <2> DEFINE call == [op |-> "prepare", step |-> "create", space |-> successor,
                      view |-> Folders[<<spaces[t].shape, TRUE>>], created |-> FALSE]
  <2>1. ~call.created /\ call.op = "prepare"
    OBVIOUS
  <2>2. calls' = [calls EXCEPT ![c] = call] /\ calls[c] = Idle
    BY <1>9 DEF Reserve
  <2> HIDE DEF call
  <2>3. ~Changes(call, s) /\ ~Made(call, s)
    BY <2>1 DEF Changes, Made, ProjectionCalls
  <2>4. Alike(calls[c], call, s)
    BY <2>2, <2>3, IdleIsNoMatter DEF Alike
  <2>5. /\ spaces'[s].projection = spaces[s].projection
        /\ outdated' = Observers /\ UNCHANGED <<worksets, disturbed>>
    BY <1>9, ProjectionKept
  <2> QED BY <1>1, <1>2, <2>2, <2>3, <2>4, <2>5
<1>10. ASSUME NEW c \in Clients, Inspect(c) PROVE Good
  <2>1. /\ calls[c] \in ProjectionCalls /\ calls[c].step = "inspect"
        /\ UNCHANGED <<spaces, worksets, outdated, disturbed>>
    BY <1>10 DEF Inspect, InStep
  <2>2. PICK step : calls' = [calls EXCEPT ![c] = [calls[c] EXCEPT !.step = step]]
    BY <1>10 DEF Inspect, Advance
  <2> DEFINE call == [calls[c] EXCEPT !.step = step]
  <2>3. call.op = calls[c].op /\ call.recorded = calls[c].recorded /\ call.step = step
    BY <2>1 DEF ProjectionCalls
  <2>4. step = "commit" => ~(calls[c].op = "open" <=> calls[c].recorded = None)
    <3>1. calls'[c].step = step
      BY <2>2, <2>3
    <3>2. CASE calls[c].op = "open"
      BY <1>10, <2>1, <3>1, <3>2 DEF Inspect, Advance, Current, ProjectionCalls
    <3>3. CASE calls[c].op # "open"
      BY <1>10, <2>1, <3>1, <3>3 DEF Inspect, Advance, Current, ProjectionCalls
    <3> QED BY <3>2, <3>3
  <2>5. calls' = [calls EXCEPT ![c] = call]
    BY <2>2
  <2> HIDE DEF call
  <2>6. ~Changes(call, s) /\ ~Changes(calls[c], s)
    BY <2>1, <2>3, <2>4 DEF Changes
  <2>7. ~Made(call, s) /\ ~Made(calls[c], s)
    BY <2>1, <2>3, CallShapes DEF Made, ProjectionCalls, PrepareCalls
  <2>8. Alike(calls[c], call, s)
    BY <2>6, <2>7 DEF Alike
  <2> QED BY <1>1, <2>1, <2>5, <2>8
<1>11. ASSUME NEW c \in Clients, calls' = [calls EXCEPT ![c] = Idle],
              UNCHANGED <<spaces, worksets>>, outdated' = outdated \ {c}, s \notin disturbed,
              ~Changes(calls[c], s), ~Made(calls[c], s)
       PROVE  Good
  <2>1. Alike(calls[c], Idle, s)
    BY <1>11, IdleIsNoMatter DEF Alike
  <2> QED BY <1>1, <1>11, <2>1, IdleIsNoMatter
<1>12. ASSUME NEW c \in Clients, Refuse(c) \/ ToolFails(c) PROVE Good
  <2>1. calls[c] \in ProjectionCalls /\ calls[c].step # "commit"
    BY <1>12 DEF Refuse, ToolFails, InStep
  <2>2. ~Changes(calls[c], s) /\ ~Made(calls[c], s)
    BY <2>1, CallShapes DEF Changes, Made
  <2> QED BY <1>11, <1>12, <2>2 DEF Refuse, ToolFails, End
<1>13. ASSUME NEW c \in Clients, Abort(c) PROVE Good
  <2>1. s \notin disturbed /\ (Unrecorded(c) => calls[c].space # s)
    BY <1>13 DEF Abort
  <2>2. ~Changes(calls[c], s) /\ ~Made(calls[c], s)
    BY <2>1 DEF Unrecorded, Changed, InStep, Changes, Made
  <2> QED BY <1>11, <1>13, <2>1, <2>2 DEF Abort, End
<1>14. ASSUME NEW c \in Clients, ChangeWorkset(c) PROVE Good
  <2>0. s \notin disturbed
    BY <1>14 DEF ChangeWorkset
  <2>1. CASE calls[c].space = s
    BY <1>14, <2>0, <2>1, ChangeIsAccounted
  <2>2. CASE calls[c].space # s
    <3>1. /\ calls[c] \in ProjectionCalls /\ UNCHANGED <<spaces, outdated>>
          /\ worksets'[s] = worksets[s]
          /\ calls' = [calls EXCEPT ![c] = [calls[c] EXCEPT !.step = "commit"]]
      BY <1>14, <2>2 DEF ChangeWorkset, InStep, Advance
    <3> DEFINE call == [calls[c] EXCEPT !.step = "commit"]
    <3>2. call.space # s
      BY <2>2, <3>1 DEF ProjectionCalls
    <3>3. calls' = [calls EXCEPT ![c] = call]
      BY <3>1
    <3> HIDE DEF call
    <3>4. Alike(calls[c], call, s)
      BY <2>2, <3>2 DEF Alike, Changes, Made
    <3> QED BY <1>1, <2>0, <3>1, <3>3, <3>4
  <2> QED BY <2>1, <2>2
<1>15. ASSUME NEW c \in Clients, CreateWorkset(c) PROVE Good
  <2>0. s \notin disturbed
    BY <1>15 DEF CreateWorkset
  <2>1. CASE calls[c].space = s
    BY <1>15, <2>0, <2>1, CreationIsAccounted
  <2>2. CASE calls[c].space # s
    <3> DEFINE call == [calls[c] EXCEPT !.step = "publish", !.created = TRUE]
    <3>1. /\ calls[c] \in PrepareCalls /\ UNCHANGED <<spaces, outdated>>
          /\ worksets'[s] = worksets[s]
          /\ calls' = [calls EXCEPT ![c] = call]
      BY <1>15, <2>2 DEF CreateWorkset, Preparing
    <3>2. call.space # s
      BY <2>2, <3>1 DEF PrepareCalls
    <3> HIDE DEF call
    <3>3. Alike(calls[c], call, s)
      BY <2>2, <3>2 DEF Alike, Changes, Made
    <3> QED BY <1>1, <2>0, <3>1, <3>3
  <2> QED BY <2>1, <2>2
<1>16. ASSUME NEW c \in Clients, PreparationFails(c) PROVE Good
  <2> DEFINE call == [calls[c] EXCEPT !.step = "fail"]
  <2>1. /\ calls[c] \in PrepareCalls /\ UNCHANGED <<spaces, worksets, outdated, disturbed>>
        /\ calls' = [calls EXCEPT ![c] = call]
    BY <1>16 DEF PreparationFails, Preparing, Advance
  <2>2. /\ call \in PrepareCalls /\ call.space = calls[c].space /\ call.view = calls[c].view
        /\ call.created = calls[c].created /\ call.op = calls[c].op
    BY <2>1 DEF PrepareCalls
  <2> HIDE DEF call
  <2>3. Alike(calls[c], call, s)
    BY <2>1, <2>2, CallShapes DEF Alike, Changes, Made
  <2> QED BY <1>1, <2>1, <2>3
<1>17. ASSUME NEW c \in Clients, s \notin disturbed, UNCHANGED worksets, calls[c].space # s,
              spaces'[s] = spaces[s],
              calls' = [calls EXCEPT ![c] = Idle], outdated' = Observers \ {c}
       PROVE  Good
  <2>1. Alike(calls[c], Idle, s)
    BY <1>17, IdleIsNoMatter DEF Alike, Changes, Made
  <2> QED BY <1>1, <1>2, <1>17, <2>1, IdleIsNoMatter
<1>18. ASSUME NEW c \in Clients, CommitChange(c) PROVE Good
  <2>1. CASE calls[c].space = s
    BY <1>18, <2>1, CommitIsAccounted
  <2>2. CASE calls[c].space # s
    BY <1>17, <1>18, <2>2 DEF CommitChange
  <2> QED BY <2>1, <2>2
<1>19. ASSUME NEW c \in Clients, EndPreparation(c) PROVE Good
  <2>0. s \notin disturbed
    BY <1>19 DEF EndPreparation
  <2>1. CASE calls[c].space = s
    BY <1>19, <2>0, <2>1, PreparationIsAccounted
  <2>2. CASE calls[c].space # s
    BY <1>17, <1>19, <2>0, <2>2 DEF EndPreparation
  <2> QED BY <2>1, <2>2
<1>20. CASE UNCHANGED vars
  BY <1>0, <1>3, <1>20 DEF vars
<1> HIDE DEF Good
<1>21. ASSUME NEW c \in Clients, Continue(c) PROVE Good
  BY <1>10, <1>12, <1>13, <1>14, <1>15, <1>16, <1>18, <1>19, <1>21 DEF Continue
<1>22. Next => Good
  BY <1>5, <1>6, <1>7, <1>8, <1>9, <1>21 DEF Next
<1> QED BY <1>20, <1>22 DEF Good

(* Record and workset agree whenever no call is between changing the one   *)
(* and committing the other, and nothing outside the protocol came between *)
(* them, however many clients open, release, recover and prepare.          *)
THEOREM Projection_MatchesRecord == Spec => []ProjectionMatchesRecord
<1>1. Init => WorksetInv
  <2> SUFFICES ASSUME Init PROVE WorksetInv
    OBVIOUS
  <2>1. \A c \in Clients : calls[c] = Idle
    BY DEF Init
  <2>2. \A c \in Clients, s \in Spaces : ~Changes(calls[c], s) /\ ~Made(calls[c], s)
    BY <2>1, IdleIsNoMatter
  <2>3. \A s \in Spaces : spaces[s].projection = None /\ spaces[s].temporary = None /\ worksets[s] = None
    BY DEF Init, NoSpace
  <2>4. WorksetsAccounted
    BY <2>2, <2>3 DEF WorksetsAccounted, Accounted, AccountedMade, AccountedPlain, Quiet, Alone
  <2>5. ReservedIsDurable /\ CallsKnowRecords /\ OnePreparation
    BY <2>1, CallShapes DEF ReservedIsDurable, CallsKnowRecords, OnePreparation
  <2>6. AbsentIsBlank /\ TemporaryCarriesNoEvidence
    BY <2>3 DEF AbsentIsBlank, TemporaryCarriesNoEvidence
  <2> QED BY <2>4, <2>5, <2>6, InitTypes DEF WorksetInv
<1>2. WorksetInv /\ [Next]_vars => WorksetInv'
  <2> SUFFICES ASSUME WorksetInv, [Next]_vars PROVE WorksetInv'
    OBVIOUS
  <2>1. TypeOK' /\ ReservedIsDurable' /\ TemporaryCarriesNoEvidence'
    BY StepTypes, StepReservedIsDurable, EvidenceStep DEF WorksetInv
  <2>2. CallsKnowRecords' /\ AbsentIsBlank' /\ OnePreparation'
    BY StepCallsKnowRecords, StepAbsentIsBlank, StepOnePreparation DEF WorksetInv
  <2>3. WorksetsAccounted'
    BY <2>2, StepWorksetsAccounted
  <2> QED BY <2>1, <2>2, <2>3 DEF WorksetInv
<1>3. WorksetInv => ProjectionMatchesRecord
  <2> SUFFICES ASSUME WorksetInv, NEW s \in Spaces, s \notin disturbed, ~Unsettled(s)
               PROVE  worksets[s] = spaces[s].projection
    BY DEF ProjectionMatchesRecord
  <2>1. \A c \in Clients : ~Changes(calls[c], s) /\ ~Made(calls[c], s)
    BY CallShapes DEF Unsettled, Unrecorded, Changed, InStep, Changes, Made
  <2> QED BY <2>1 DEF WorksetInv, WorksetsAccounted, Accounted, AccountedPlain, Quiet
<1> QED BY <1>1, <1>2, <1>3, PTL DEF Spec
=============================================================================
