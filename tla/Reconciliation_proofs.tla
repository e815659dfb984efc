----------------------- MODULE Reconciliation_proofs ------------------------
(***************************************************************************)
(* Proofs that reconcile_apply integrates the members of a cohort after    *)
(* their providers and records only what is there, for any members,        *)
(* dependencies, callers and strategies.                                   *)
(*                                                                         *)
(* A branch only ever gains changes, so what a call found integrated stays *)
(* integrated while the call is between its steps, whatever others do: the *)
(* inductive invariant is that every call in flight has integrated the     *)
(* members it no longer has to, and that the providers of the member it is *)
(* at are among them; the same is kept for a merge that was left to the    *)
(* user.                                                                   *)
(***************************************************************************)
EXTENDS Reconciliation, TLAPS

\* The work of a member is in a branch.
Has(r, branches) == \E b \in Branches : "work" \in branches[r][b]

\* The work of a member's providers is in their branches.
Unblocked(r, branches) ==
    \A provider \in Members : <<r, provider>> \in Dependencies => Has(provider, branches)

\* The work of a member has arrived: where nobody switches the destination
\* checkout, in the destination.
Arrived(r, branches) ==
    /\ Has(r, branches)
    /\ r \notin Switched => "work" \in branches[r]["main"]

\* A branch contains a result: where nobody switches the destination checkout,
\* the destination, and the result contains the work.
Held(r, result, branches) ==
    /\ \E b \in Branches : result \subseteq branches[r][b]
    /\ r \notin Switched => "work" \in result /\ result \subseteq branches[r]["main"]

\* What a call in flight knows of the branches.
Sound(call, branches) ==
    /\ \A r \in Members \ call.remaining : Has(r, branches)
    /\ call.step # "preview" =>
          /\ call.member \in Members
          /\ Unblocked(call.member, branches)
          /\ call.strategy \in Strategies
    /\ call.step \in {"check", "merge", "rebase", "forward"} => call.destination \in Commits
    /\ call.step \in {"inspect", "record"} => Arrived(call.member, branches)
    /\ call.step = "record" => call.result \in Commits /\ Held(call.member, call.result, branches)

SourcesHaveWork == \A r \in Members : "work" \in source[r]

MergesAreUnblocked == \A r \in Members : merging[r] # None => Unblocked(r, refs)

CallsAreSound == \A c \in Callers : calls[c] # Idle => Sound(calls[c], refs)

UnswitchedStay == \A r \in Members \ Switched : checkout[r] = "main"

IInv ==
    /\ TypeOK
    /\ SourcesHaveWork
    /\ MergesAreUnblocked
    /\ CallsAreSound
    /\ UnswitchedStay
    /\ ResultIsThere

Grown(branches, later) ==
    \A r \in Members, b \in Branches : branches[r][b] \subseteq later[r][b]

-----------------------------------------------------------------------------
LEMMA NoneIsNoCommit == None \notin Commits
BY ReconciliationAssumption DEF ReconciliationAssumption

LEMMA WorkIsChange == {"work"} \in Commits
BY DEF Commits, Changes

LEMMA CallsAreNotIdle == Idle \notin Calls
BY DEF Idle, Calls

LEMMA HasPersists ==
    ASSUME NEW branches, NEW later, Grown(branches, later), NEW r \in Members, Has(r, branches)
    PROVE  Has(r, later)
BY DEF Grown, Has

LEMMA UnblockedPersists ==
    ASSUME NEW branches, NEW later, Grown(branches, later), NEW r, Unblocked(r, branches)
    PROVE  Unblocked(r, later)
BY HasPersists DEF Unblocked

LEMMA HeldPersists ==
    ASSUME NEW branches, NEW later, Grown(branches, later), NEW r \in Members, NEW result,
           Held(r, result, branches)
    PROVE  Held(r, result, later)
<1>1. "main" \in Branches
  BY DEF Branches
<1> QED BY <1>1 DEF Grown, Held

LEMMA ArrivedPersists ==
    ASSUME NEW branches, NEW later, Grown(branches, later), NEW r \in Members,
           Arrived(r, branches)
    PROVE  Arrived(r, later)
<1>1. "main" \in Branches
  BY DEF Branches
<1> QED BY <1>1, HasPersists DEF Grown, Arrived

LEMMA SoundPersists ==
    ASSUME NEW branches, NEW later, Grown(branches, later), NEW call, Sound(call, branches)
    PROVE  Sound(call, later)
<1>1. \A r \in Members \ call.remaining : Has(r, later)
  BY HasPersists DEF Sound
<1>2. call.step # "preview" => Unblocked(call.member, later)
  BY UnblockedPersists DEF Sound
<1>3. call.step = "record" => Held(call.member, call.result, later)
  BY HeldPersists DEF Sound
<1>4. call.step \in {"inspect", "record"} => Arrived(call.member, later)
  BY ArrivedPersists DEF Sound
<1> QED BY <1>1, <1>2, <1>3, <1>4 DEF Sound

-----------------------------------------------------------------------------
(* Branches only grow.                                                     *)

LEMMA BranchChange ==
    ASSUME NEW branches \in [Members -> [Branches -> Commits]], NEW later,
           NEW r \in Members, NEW b \in Branches, NEW commit \in Commits,
           branches[r][b] \subseteq commit, later = [branches EXCEPT ![r][b] = commit]
    PROVE  later \in [Members -> [Branches -> Commits]] /\ Grown(branches, later)
BY DEF Grown

LEMMA Unions ==
    ASSUME NEW a \in Commits, NEW b \in Commits
    PROVE  a \cup b \in Commits
BY DEF Commits

LEMMA StepRefs ==
    ASSUME IInv, [Next]_vars
    PROVE  refs' \in [Members -> [Branches -> Commits]] /\ Grown(refs, refs')
<1> DEFINE Good == refs' \in [Members -> [Branches -> Commits]] /\ Grown(refs, refs')
<1> USE DEF IInv, TypeOK
<1>0. ASSUME UNCHANGED refs PROVE Good
  BY <1>0 DEF Grown
<1>b. ASSUME NEW r \in Members, NEW b \in Branches, NEW change \in Commits,
             refs' = [refs EXCEPT ![r][b] = refs[r][b] \cup change]
      PROVE  Good
  <2>1. refs \in [Members -> [Branches -> Commits]]
    OBVIOUS
  <2>2. refs[r][b] \in Commits
    OBVIOUS
  <2>3. refs[r][b] \cup change \in Commits
    BY <2>2, Unions
  <2>4. refs[r][b] \subseteq refs[r][b] \cup change
    OBVIOUS
  <2> HIDE DEF IInv
  <2> QED BY <1>b, <2>1, <2>3, <2>4, BranchChange
<1>1. ASSUME NEW c \in Callers, Merge(c) \/ FastForward(c) PROVE Good
  <2> DEFINE r == calls[c].member
  <2>1. r \in Members
    BY <1>1 DEF Merge, FastForward, At, CallsAreSound, Sound
  <2>2. source[r] \in Commits /\ checkout[r] \in Branches
    BY <2>1
  <2>3. refs' = [refs EXCEPT ![r][checkout[r]] = refs[r][checkout[r]] \cup source[r]]
    BY <1>1 DEF Merge, FastForward, Head
  <2> HIDE DEF r
  <2> QED BY <1>b, <2>1, <2>2, <2>3
<1>2. ASSUME NEW r \in Members, Drift(r) PROVE Good
  <2>1. refs' = [refs EXCEPT ![r]["main"] = refs[r]["main"] \cup {"upstream"}]
    BY <1>2 DEF Drift
  <2>2. "main" \in Branches /\ {"upstream"} \in Commits
    BY DEF Branches, Commits, Changes
  <2> QED BY <1>b, <2>1, <2>2
<1>3. ASSUME NEW r \in Members, ResolveMerge(r) PROVE Good
  <2>1. CASE refs' = [refs EXCEPT ![r][checkout[r]] = refs[r][checkout[r]] \cup merging[r]]
    <3>1. merging[r] \in Commits /\ checkout[r] \in Branches
      BY <1>3 DEF ResolveMerge
    <3> QED BY <1>b, <2>1, <3>1
  <2> QED BY <1>0, <1>3, <2>1 DEF ResolveMerge
<1>4. ASSUME NEW c \in Callers,
             \/ Begin(c) \/ Preview(c) \/ Check(c) \/ MergeConflict(c) \/ Rebase(c)
             \/ RebaseConflict(c) \/ Inspect(c) \/ Record(c) \/ Stop(c)
      PROVE  Good
  BY <1>0, <1>4 DEF Begin, Preview, Check, MergeConflict, Rebase, RebaseConflict, Inspect, Record,
     Stop, git
<1>5. ASSUME NEW r \in Members,
             AbandonMember(r) \/ CleanupWorktree(r) \/ Switch(r) \/ ResolveRebase(r)
      PROVE  Good
  BY <1>0, <1>5 DEF AbandonMember, CleanupWorktree, Switch, ResolveRebase, git
<1>6. CASE Release
  BY <1>0, <1>6 DEF Release, git
<1>7. CASE UNCHANGED vars
  BY <1>0, <1>7 DEF vars, git
<1> QED BY <1>1, <1>2, <1>3, <1>4, <1>5, <1>6, <1>7 DEF Next, Apply

-----------------------------------------------------------------------------
(* The calls.                                                              *)

\* A step of a call leaves it idle, or a sound call.
LEMMA ApplyIsSound ==
    ASSUME IInv, NEW c \in Callers, Apply(c), Grown(refs, refs')
    PROVE  \E call \in {Idle} \cup Calls :
              calls' = [calls EXCEPT ![c] = call] /\ (call # Idle => Sound(call, refs'))
<1> DEFINE Good == \E call \in {Idle} \cup Calls :
                       calls' = [calls EXCEPT ![c] = call] /\ (call # Idle => Sound(call, refs'))
<1> USE DEF IInv, TypeOK
<1>0. ASSUME calls' = [calls EXCEPT ![c] = Idle] PROVE Good
  BY <1>0
<1>1. calls[c] # Idle => calls[c] \in Calls /\ Sound(calls[c], refs) /\ Sound(calls[c], refs')
  BY SoundPersists DEF CallsAreSound
<1>2. CASE Begin(c)
  <2>1. Upcoming(Members) \in Calls
    BY DEF Upcoming, Calls
  <2>2. Sound(Upcoming(Members), refs')
    BY DEF Upcoming, Sound
  <2> QED BY <1>2, <2>1, <2>2 DEF Begin
<1>3. CASE Preview(c)
  <2>1. PICK r \in Ready(calls[c].remaining), strategy \in Strategies :
          calls' = [calls EXCEPT ![c].step = "check", ![c].member = r, ![c].strategy = strategy,
                                 ![c].destination = refs[r]["main"]]
    BY <1>3 DEF Preview
  <2>2. calls[c] \in Calls /\ Sound(calls[c], refs')
    BY <1>1, <1>3 DEF Preview, At
  <2>3. r \in calls[c].remaining /\ r \in Members
    BY <2>1, <2>2 DEF Ready, Calls
  <2>4. Unblocked(r, refs')
    BY <2>1, <2>2 DEF Ready, Sound, Unblocked
  <2> DEFINE call == [calls[c] EXCEPT !.step = "check", !.member = r, !.strategy = strategy,
                                     !.destination = refs[r]["main"]]
  <2>5. refs[r]["main"] \in Commits
    BY <2>3 DEF Branches
  <2>6. call \in Calls
    BY <2>2, <2>3, <2>5 DEF Calls
  <2>7. /\ call.remaining = calls[c].remaining /\ call.step = "check" /\ call.member = r
        /\ call.strategy = strategy /\ call.destination = refs[r]["main"]
    BY <2>2 DEF Calls
  <2>8. calls' = [calls EXCEPT ![c] = call]
    BY <2>1
  <2> HIDE DEF call
  <2>9. Sound(call, refs')
    BY <2>2, <2>3, <2>4, <2>5, <2>7 DEF Sound
  <2> QED BY <2>6, <2>8, <2>9
<1>4. CASE Check(c)
  <2>1. calls[c] \in Calls /\ Sound(calls[c], refs') /\ calls[c].step = "check"
    BY <1>1, <1>4 DEF Check, At
  <2>2. calls[c].strategy \in {"merge", "rebase"}
    BY <2>1, ReconciliationAssumption DEF Sound, ReconciliationAssumption
  <2> DEFINE call == [calls[c] EXCEPT !.step = calls[c].strategy]
  <2>3. call \in Calls
    BY <2>1, <2>2 DEF Calls
  <2>4. /\ call.remaining = calls[c].remaining /\ call.step = calls[c].strategy
        /\ call.member = calls[c].member /\ call.strategy = calls[c].strategy
        /\ call.destination = calls[c].destination
    BY <2>1 DEF Calls
  <2>5. calls' = [calls EXCEPT ![c] = call]
    BY <1>4 DEF Check
  <2> HIDE DEF call
  <2>6. Sound(call, refs')
    BY <2>1, <2>2, <2>4 DEF Sound
  <2> QED BY <2>3, <2>5, <2>6
<1>5. CASE Merge(c) \/ FastForward(c)
  <2> DEFINE r == calls[c].member
             merged == Head(r) \cup source[r]
             call == [calls[c] EXCEPT !.step = "inspect", !.destination = None]
  <2>1. calls[c] \in Calls /\ Sound(calls[c], refs') /\ calls[c].step # "preview"
    BY <1>1, <1>5 DEF Merge, FastForward, At
  <2>2. r \in Members
    BY <2>1 DEF Sound
  <2>3. checkout[r] \in Branches
    BY <2>2
  <2>4. Arrived(r, refs')
    <3>1. refs' = [refs EXCEPT ![r][checkout[r]] = merged]
      BY <1>5 DEF Merge, FastForward
    <3>2. refs'[r][checkout[r]] = merged
      BY <2>2, <2>3, <3>1
    <3>3. "work" \in merged
      BY <2>2 DEF SourcesHaveWork
    <3>4. r \notin Switched => checkout[r] = "main"
      BY <2>2 DEF UnswitchedStay
    <3> QED BY <2>3, <3>2, <3>3, <3>4 DEF Arrived, Has
  <2>5. call \in Calls
    BY <2>1 DEF Calls
  <2>6. /\ call.remaining = calls[c].remaining /\ call.step = "inspect" /\ call.member = r
        /\ call.strategy = calls[c].strategy
    BY <2>1 DEF Calls
  <2>7. calls' = [calls EXCEPT ![c] = call]
    BY <1>5 DEF Merge, FastForward
  <2> HIDE DEF call, merged
  <2>8. Sound(call, refs')
    BY <2>1, <2>4, <2>6 DEF Sound
  <2> QED BY <2>5, <2>7, <2>8
<1>9. CASE Inspect(c)
  <2> DEFINE r == calls[c].member
             call == [calls[c] EXCEPT !.step = "record", !.result = Head(r)]
  <2>1. /\ calls[c] \in Calls /\ Sound(calls[c], refs') /\ calls[c].step = "inspect"
        /\ refs' = refs
    BY <1>1, <1>9 DEF Inspect, At, git
  <2>2. r \in Members /\ Arrived(r, refs')
    BY <2>1 DEF Sound
  <2>3. checkout[r] \in Branches /\ Head(r) = refs'[r][checkout[r]] /\ Head(r) \in Commits
    BY <2>1, <2>2 DEF Head
  <2>4. Held(r, Head(r), refs')
    <3>1. r \notin Switched => checkout[r] = "main"
      BY <2>2 DEF UnswitchedStay
    <3> QED BY <2>2, <2>3, <3>1 DEF Held, Arrived
  <2>5. call \in Calls
    BY <2>1, <2>3 DEF Calls
  <2>6. /\ call.remaining = calls[c].remaining /\ call.step = "record" /\ call.member = r
        /\ call.strategy = calls[c].strategy /\ call.result = Head(r)
    BY <2>1 DEF Calls
  <2>7. calls' = [calls EXCEPT ![c] = call]
    BY <1>9 DEF Inspect
  <2> HIDE DEF call
  <2>8. Sound(call, refs')
    BY <2>1, <2>2, <2>3, <2>4, <2>6 DEF Sound
  <2> QED BY <2>5, <2>7, <2>8
<1>6. CASE Rebase(c)
  <2>1. calls[c] \in Calls /\ Sound(calls[c], refs') /\ calls[c].step = "rebase"
    BY <1>1, <1>6 DEF Rebase, At
  <2> DEFINE call == [calls[c] EXCEPT !.step = "forward"]
  <2>2. call \in Calls
    BY <2>1 DEF Calls
  <2>3. /\ call.remaining = calls[c].remaining /\ call.step = "forward"
        /\ call.member = calls[c].member /\ call.strategy = calls[c].strategy
        /\ call.destination = calls[c].destination
    BY <2>1 DEF Calls
  <2>4. calls' = [calls EXCEPT ![c] = call]
    BY <1>6 DEF Rebase
  <2> HIDE DEF call
  <2>5. Sound(call, refs')
    BY <2>1, <2>3 DEF Sound
  <2> QED BY <2>2, <2>4, <2>5
<1>7. CASE Record(c)
  <2> DEFINE left == calls[c].remaining \ {calls[c].member}
  <2>1. calls[c] \in Calls /\ Sound(calls[c], refs') /\ calls[c].step = "record"
    BY <1>1, <1>7 DEF Record, At
  <2>2. Has(calls[c].member, refs')
    BY <2>1 DEF Sound, Arrived
  <2>3. \A r \in Members \ left : Has(r, refs')
    BY <2>1, <2>2 DEF Sound
  <2>4. Upcoming(left) \in Calls
    BY <2>1 DEF Upcoming, Calls
  <2>5. Sound(Upcoming(left), refs')
    BY <2>3 DEF Upcoming, Sound
  <2>6. calls' = [calls EXCEPT ![c] = IF left = {} THEN Idle ELSE Upcoming(left)]
    BY <1>7 DEF Record
  <2> HIDE DEF left
  <2> QED BY <2>4, <2>5, <2>6
<1>8. CASE MergeConflict(c) \/ RebaseConflict(c) \/ Stop(c)
  BY <1>0, <1>8 DEF MergeConflict, RebaseConflict, Stop
<1> QED BY <1>2, <1>3, <1>4, <1>5, <1>6, <1>7, <1>8, <1>9 DEF Apply

LEMMA StepCalls ==
    ASSUME IInv, [Next]_vars, Grown(refs, refs')
    PROVE  calls' \in [Callers -> {Idle} \cup Calls] /\ CallsAreSound'
<1> USE DEF IInv, TypeOK
<1>0. \A c \in Callers : calls[c] # Idle => Sound(calls[c], refs')
  BY SoundPersists DEF CallsAreSound
<1>1. ASSUME NEW c \in Callers, Apply(c)
      PROVE  calls' \in [Callers -> {Idle} \cup Calls] /\ CallsAreSound'
  <2>1. PICK call \in {Idle} \cup Calls :
          calls' = [calls EXCEPT ![c] = call] /\ (call # Idle => Sound(call, refs'))
    BY <1>1, ApplyIsSound
  <2>2. calls' \in [Callers -> {Idle} \cup Calls]
    BY <2>1
  <2>3. ASSUME NEW d \in Callers, calls'[d] # Idle PROVE Sound(calls'[d], refs')
    BY <1>0, <2>1, <2>3
  <2> QED BY <2>2, <2>3 DEF CallsAreSound
<1>2. CASE UNCHANGED calls
  BY <1>0, <1>2 DEF CallsAreSound
<1>3. Release \/ (\E r \in Members :
                    \/ AbandonMember(r) \/ CleanupWorktree(r) \/ Drift(r)
                    \/ Switch(r) \/ ResolveMerge(r) \/ ResolveRebase(r))
        => UNCHANGED calls
  BY DEF Release, AbandonMember, CleanupWorktree, Drift, Switch, ResolveMerge, ResolveRebase
<1>4. UNCHANGED vars => UNCHANGED calls
  BY DEF vars
<1> QED BY <1>1, <1>2, <1>3, <1>4 DEF Next

-----------------------------------------------------------------------------
(* The sources, the merges and rebases left to the user, the records.      *)

LEMMA StepSources ==
    ASSUME IInv, [Next]_vars
    PROVE  source' \in [Members -> Commits] /\ SourcesHaveWork'
<1> DEFINE Good == source' \in [Members -> Commits] /\ \A r \in Members : "work" \in source'[r]
<1> USE DEF IInv, TypeOK
<1>0. ASSUME UNCHANGED source PROVE Good
  BY <1>0 DEF SourcesHaveWork
<1>1. ASSUME NEW r \in Members, NEW change \in Commits,
             source' = [source EXCEPT ![r] = source[r] \cup change]
      PROVE  Good
  <2>1. source[r] \cup change \in Commits
    BY Unions
  <2> QED BY <1>1, <2>1 DEF SourcesHaveWork
<1>2. ASSUME NEW c \in Callers, Rebase(c) PROVE Good
  <2>1. calls[c].member \in Members /\ calls[c].destination \in Commits
    BY <1>2 DEF Rebase, At, CallsAreSound, Sound
  <2> QED BY <1>1, <1>2, <2>1 DEF Rebase
<1>3. ASSUME NEW r \in Members, ResolveRebase(r) PROVE Good
  BY <1>0, <1>1, <1>3 DEF ResolveRebase
<1>4. ASSUME NEW c \in Callers,
             \/ Begin(c) \/ Preview(c) \/ Check(c) \/ Merge(c) \/ MergeConflict(c)
             \/ RebaseConflict(c) \/ FastForward(c) \/ Inspect(c) \/ Record(c) \/ Stop(c)
      PROVE  Good
  BY <1>0, <1>4
     DEF Begin, Preview, Check, Merge, MergeConflict, RebaseConflict, FastForward, Inspect,
         Record, Stop, git
<1>5. ASSUME NEW r \in Members,
             AbandonMember(r) \/ CleanupWorktree(r) \/ Drift(r) \/ Switch(r) \/ ResolveMerge(r)
      PROVE  Good
  BY <1>0, <1>5 DEF AbandonMember, CleanupWorktree, Drift, Switch, ResolveMerge, git
<1>6. Release \/ UNCHANGED vars => Good
  BY <1>0 DEF Release, vars, git
<1>7. Good
  BY <1>2, <1>3, <1>4, <1>5, <1>6 DEF Next, Apply
<1> QED BY <1>7 DEF SourcesHaveWork

LEMMA StepMerging ==
    ASSUME IInv, [Next]_vars, Grown(refs, refs')
    PROVE  merging' \in [Members -> {None} \cup Commits] /\ MergesAreUnblocked'
<1> DEFINE Good == /\ merging' \in [Members -> {None} \cup Commits]
                   /\ \A r \in Members : merging'[r] # None => Unblocked(r, refs')
<1> USE DEF IInv, TypeOK
<1>0. \A r \in Members : merging[r] # None => Unblocked(r, refs')
  BY UnblockedPersists DEF MergesAreUnblocked
<1>1. ASSUME UNCHANGED merging PROVE Good
  BY <1>0, <1>1
<1>2. ASSUME NEW c \in Callers, MergeConflict(c) PROVE Good
  <2>1. calls[c].member \in Members /\ Unblocked(calls[c].member, refs)
    BY <1>2 DEF MergeConflict, At, CallsAreSound, Sound
  <2>2. Unblocked(calls[c].member, refs')
    BY <2>1, UnblockedPersists
  <2>3. source[calls[c].member] \in Commits
    BY <2>1
  <2> QED BY <1>0, <1>2, <2>1, <2>2, <2>3 DEF MergeConflict
<1>3. ASSUME NEW r \in Members, ResolveMerge(r) PROVE Good
  BY <1>0, <1>3 DEF ResolveMerge
<1>4. ASSUME NEW c \in Callers,
             \/ Begin(c) \/ Preview(c) \/ Check(c) \/ Merge(c) \/ Rebase(c)
             \/ RebaseConflict(c) \/ FastForward(c) \/ Inspect(c) \/ Record(c) \/ Stop(c)
      PROVE  Good
  BY <1>1, <1>4
     DEF Begin, Preview, Check, Merge, Rebase, RebaseConflict, FastForward, Inspect,
         Record, Stop, git
<1>5. ASSUME NEW r \in Members,
             AbandonMember(r) \/ CleanupWorktree(r) \/ Drift(r) \/ Switch(r) \/ ResolveRebase(r)
      PROVE  Good
  BY <1>1, <1>5 DEF AbandonMember, CleanupWorktree, Drift, Switch, ResolveRebase, git
<1>6. Release \/ UNCHANGED vars => Good
  BY <1>1 DEF Release, vars, git
<1>7. Good
  BY <1>2, <1>3, <1>4, <1>5, <1>6 DEF Next, Apply
<1> QED BY <1>7 DEF MergesAreUnblocked

LEMMA StepBounds ==
    ASSUME IInv, [Next]_vars
    PROVE  /\ checkout' \in [Members -> Branches] /\ UnswitchedStay'
           /\ rebasing' \in [Members -> {None} \cup Commits]
           /\ present' \in SUBSET Members
<1> USE DEF IInv, TypeOK
<1>1. checkout' \in [Members -> Branches]
  BY DEF Next, Apply, Release, AbandonMember, CleanupWorktree, Drift, Switch, ResolveMerge,
     ResolveRebase, Begin, Preview, Check, Merge, MergeConflict, Rebase, RebaseConflict,
     FastForward, Inspect, Record, Stop, vars, git
<1>2. present' \in SUBSET Members
  BY DEF Next, Apply, Release, AbandonMember, CleanupWorktree, Drift, Switch, ResolveMerge,
     ResolveRebase, Begin, Preview, Check, Merge, MergeConflict, Rebase, RebaseConflict,
     FastForward, Inspect, Record, Stop, vars, git
<1>3. ASSUME NEW c \in Callers, RebaseConflict(c)
      PROVE  rebasing' \in [Members -> {None} \cup Commits]
  <2>1. calls[c].member \in Members /\ calls[c].destination \in Commits
    BY <1>3 DEF RebaseConflict, At, CallsAreSound, Sound
  <2> QED BY <1>3, <2>1 DEF RebaseConflict
<1>4. rebasing' \in [Members -> {None} \cup Commits]
  BY <1>3 DEF Next, Apply, Release, AbandonMember, CleanupWorktree, Drift, Switch, ResolveMerge,
     ResolveRebase, Begin, Preview, Check, Merge, MergeConflict, Rebase,
     FastForward, Inspect, Record, Stop, vars, git
<1>5. checkout' = checkout \/ \E r \in Members : Switch(r)
  BY DEF Next, Apply, Release, AbandonMember, CleanupWorktree, Drift, ResolveMerge,
     ResolveRebase, Begin, Preview, Check, Merge, MergeConflict, Rebase, RebaseConflict,
     FastForward, Inspect, Record, Stop, vars, git
<1>6. ASSUME NEW r \in Members, Switch(r)
      PROVE  \A x \in Members \ Switched : checkout'[x] = checkout[x]
  BY <1>6 DEF Switch
<1>7. UnswitchedStay'
  BY <1>5, <1>6 DEF UnswitchedStay
<1> QED BY <1>1, <1>2, <1>4, <1>7

\* A record is of a result that is there.
Founded(r, record, branches) ==
    record.status = "reconciled" => Held(r, record.result, branches)

LEMMA StepRecords ==
    ASSUME IInv, [Next]_vars, Grown(refs, refs')
    PROVE  records' \in [Members -> Records] /\ ResultIsThere'
<1> DEFINE Good == /\ records' \in [Members -> Records]
                   /\ \A r \in Members : Founded(r, records'[r], refs')
<1> USE DEF IInv, TypeOK
<1>0. \A r \in Members : Founded(r, records[r], refs')
  <2>1. \A r \in Members : Founded(r, records[r], refs)
    BY DEF ResultIsThere, Founded, Held
  <2> HIDE DEF IInv
  <2> QED BY <2>1, HeldPersists DEF Founded
<1>1. ASSUME UNCHANGED records PROVE Good
  BY <1>0, <1>1
<1>2. ASSUME NEW r \in Members, NEW record \in Records, Founded(r, record, refs'),
             records' = [records EXCEPT ![r] = record]
      PROVE  Good
  BY <1>0, <1>2
<1>3. ASSUME NEW c \in Callers, Record(c) PROVE Good
  <2> DEFINE r == calls[c].member
             record == [status |-> "reconciled", result |-> calls[c].result]
  <2>1. /\ r \in Members /\ calls[c].result \in Commits
        /\ Held(r, calls[c].result, refs)
    BY <1>3 DEF Record, At, CallsAreSound, Sound
  <2>2. record \in Records
    BY <2>1 DEF Records
  <2>3. Founded(r, record, refs')
    BY <2>1, HeldPersists DEF Founded
  <2>4. records' = [records EXCEPT ![r] = IF records[r].status = "none" THEN records[r] ELSE record]
    BY <1>3 DEF Record
  <2>5. records[r] \in Records /\ Founded(r, records[r], refs')
    BY <1>0, <2>1
  <2> HIDE DEF r, record
  <2> QED BY <1>2, <2>1, <2>2, <2>3, <2>4, <2>5
<1>4. ASSUME NEW r \in Members, AbandonMember(r) PROVE Good
  <2>1. records[r] \in Records
    OBVIOUS
  <2>2. [records[r] EXCEPT !.status = "abandoned"] \in Records
    BY <2>1 DEF Records
  <2>3. Founded(r, [records[r] EXCEPT !.status = "abandoned"], refs')
    BY <2>1 DEF Records, Founded
  <2> QED BY <1>2, <1>4, <2>2, <2>3 DEF AbandonMember
<1>5. CASE Release
  <2>1. [NoRecord EXCEPT !.status = "pending"] \in Records
    BY DEF NoRecord, Records
  <2>2. [NoRecord EXCEPT !.status = "pending"].status = "pending"
    BY DEF NoRecord
  <2>3. Good
    BY <1>5, <2>1, <2>2 DEF Release, Founded
  <2> QED BY <2>3 DEF ResultIsThere, Founded, Held
<1>6. ASSUME NEW c \in Callers,
             \/ Begin(c) \/ Preview(c) \/ Check(c) \/ Merge(c) \/ MergeConflict(c) \/ Rebase(c)
             \/ RebaseConflict(c) \/ FastForward(c) \/ Inspect(c) \/ Stop(c)
      PROVE  Good
  BY <1>1, <1>6
     DEF Begin, Preview, Check, Merge, MergeConflict, Rebase, RebaseConflict, FastForward, Inspect,
         Stop
<1>7. ASSUME NEW r \in Members,
             CleanupWorktree(r) \/ Drift(r) \/ Switch(r) \/ ResolveMerge(r) \/ ResolveRebase(r)
      PROVE  Good
  BY <1>1, <1>7 DEF CleanupWorktree, Drift, Switch, ResolveMerge, ResolveRebase
<1>8. CASE UNCHANGED vars
  BY <1>1, <1>8 DEF vars, ResultIsThere, Founded, Held
<1>9. Good => records' \in [Members -> Records] /\ ResultIsThere'
  BY DEF ResultIsThere, Founded, Held
<1> HIDE DEF Good
<1> QED BY <1>3, <1>4, <1>5, <1>6, <1>7, <1>8, <1>9 DEF Next, Apply

-----------------------------------------------------------------------------
LEMMA InitIInv ==
    ASSUME Init
    PROVE  IInv
<1>1. TypeOK
  BY WorkIsChange DEF Init, TypeOK, Branches, Commits, NoRecord, Records
<1>2. /\ SourcesHaveWork /\ MergesAreUnblocked /\ CallsAreSound
      /\ UnswitchedStay /\ ResultIsThere
  BY DEF Init, SourcesHaveWork, MergesAreUnblocked, CallsAreSound, UnswitchedStay,
         ResultIsThere, NoRecord
<1> QED BY <1>1, <1>2 DEF IInv

LEMMA StepIInv ==
    ASSUME IInv, [Next]_vars
    PROVE  IInv'
<1>1. TypeOK'
  BY StepRefs, StepCalls, StepSources, StepMerging, StepBounds, StepRecords DEF TypeOK
<1> QED BY <1>1, StepRefs, StepCalls, StepSources, StepMerging, StepBounds, StepRecords DEF IInv

LEMMA Inductive == Spec => []IInv
BY InitIInv, StepIInv, PTL DEF Spec

(* A branch of the repository contains the result of a reconciled record;  *)
(* where nobody switches the destination checkout, that branch is the      *)
(* destination and the result contains the work.                           *)
THEOREM Result_IsThere == Spec => []ResultIsThere
<1>1. IInv => ResultIsThere
  BY DEF IInv
<1> QED BY <1>1, Inductive, PTL

(* Whatever Git, the user and other sessions do, a branch stays a set of   *)
(* changes, a record keeps its form and a call is in one of its steps.     *)
THEOREM ReconciliationTypes == Spec => []TypeOK
BY Inductive, PTL DEF IInv

-----------------------------------------------------------------------------
(* The refinement of Cohort.                                               *)

Mapped == [r \in Members |-> records[r].status]

LEMMA IntegratedHas ==
    \A r \in Members : r \in Integrated <=> Has(r, refs)
BY DEF Integrated, Has

\* A step that adds a member's work integrates the member, if its providers
\* are there.
LEMMA IntegrationStep ==
    ASSUME IInv, NEW r \in Members, NEW b \in Branches, NEW change \in Commits,
           refs' = [refs EXCEPT ![r][b] = refs[r][b] \cup change],
           "work" \in change => Unblocked(r, refs), UNCHANGED records
    PROVE  Promise!Integrate(r) \/ UNCHANGED Promise!vars
<1> USE DEF IInv, TypeOK
<1>1. UNCHANGED Mapped
  BY DEF Mapped
<1>2. CASE "work" \in change
  <2>1. Integrated' = Integrated \cup {r}
    <3>1. ASSUME NEW x \in Members PROVE x \in Integrated' <=> x \in Integrated \/ x = r
      <4>1. CASE x = r
        <5>1. "work" \in refs'[r][b]
          BY <1>2
        <5> QED BY <4>1, <5>1 DEF Integrated
      <4>2. CASE x # r
        <5>1. refs'[x] = refs[x]
          BY <4>2
        <5> QED BY <4>2, <5>1 DEF Integrated
      <4> QED BY <4>1, <4>2
    <3> QED BY <3>1 DEF Integrated
  <2>2. \A provider \in Members : <<r, provider>> \in Dependencies => provider \in Integrated
    BY <1>2, IntegratedHas DEF Unblocked
  <2> QED BY <1>1, <2>1, <2>2 DEF Promise!Integrate, Mapped
<1>3. CASE "work" \notin change
  <2>1. ASSUME NEW x \in Members, NEW d \in Branches
        PROVE  "work" \in refs'[x][d] <=> "work" \in refs[x][d]
    BY <1>3
  <2>2. Integrated' = Integrated
    BY <2>1 DEF Integrated
  <2> QED BY <1>1, <2>2 DEF Promise!vars, Mapped
<1> QED BY <1>2, <1>3

LEMMA CohortStep ==
    ASSUME IInv, [Next]_vars
    PROVE  [Promise!Next]_(Promise!vars)
<1> DEFINE Good == Promise!Next \/ UNCHANGED Promise!vars
<1> USE DEF IInv, TypeOK
<1>0. ASSUME UNCHANGED <<refs, records>> PROVE Good
  BY <1>0 DEF Promise!vars, Integrated
<1>1. ASSUME NEW c \in Callers, Merge(c) \/ FastForward(c) PROVE Good
  <2> DEFINE r == calls[c].member
  <2>1. r \in Members /\ Unblocked(r, refs)
    BY <1>1 DEF Merge, FastForward, At, CallsAreSound, Sound
  <2>2. source[r] \in Commits /\ checkout[r] \in Branches
    BY <2>1
  <2>3. refs' = [refs EXCEPT ![r][checkout[r]] = refs[r][checkout[r]] \cup source[r]]
    BY <1>1 DEF Merge, FastForward, Head
  <2>4. UNCHANGED records
    BY <1>1 DEF Merge, FastForward
  <2> HIDE DEF r, IInv
  <2>5. Promise!Integrate(r) \/ UNCHANGED Promise!vars
    BY <2>1, <2>2, <2>3, <2>4, IntegrationStep
  <2> QED BY <2>1, <2>5 DEF Promise!Next
<1>2. ASSUME NEW r \in Members, Drift(r) PROVE Good
  <2>1. "main" \in Branches /\ {"upstream"} \in Commits
    BY DEF Branches, Commits, Changes
  <2>2. refs' = [refs EXCEPT ![r]["main"] = refs[r]["main"] \cup {"upstream"}]
    BY <1>2 DEF Drift
  <2>3. UNCHANGED records
    BY <1>2 DEF Drift
  <2> HIDE DEF IInv
  <2> QED BY <2>1, <2>2, <2>3, IntegrationStep DEF Promise!Next
<1>3. ASSUME NEW r \in Members, ResolveMerge(r) PROVE Good
  <2>1. CASE refs' = [refs EXCEPT ![r][checkout[r]] = refs[r][checkout[r]] \cup merging[r]]
    <3>1. merging[r] \in Commits /\ checkout[r] \in Branches /\ Unblocked(r, refs)
      BY <1>3 DEF ResolveMerge, MergesAreUnblocked
    <3>2. UNCHANGED records
      BY <1>3 DEF ResolveMerge
    <3> HIDE DEF IInv
    <3> QED BY <2>1, <3>1, <3>2, IntegrationStep DEF Promise!Next
  <2>2. CASE UNCHANGED refs
    BY <1>0, <1>3, <2>2 DEF ResolveMerge
  <2> QED BY <1>3, <2>1, <2>2 DEF ResolveMerge
<1>4. ASSUME NEW c \in Callers, Record(c) PROVE Good
  <2>0. calls[c].member \in Members /\ Has(calls[c].member, refs)
    BY <1>4 DEF Record, At, CallsAreSound, Sound, Arrived
  <2>1. PICK r \in Members : r = calls[c].member /\ Has(r, refs)
    BY <2>0
  <2>2. r \in Integrated
    BY <2>1, IntegratedHas
  <2>3. Integrated' = Integrated
    BY <1>4 DEF Record, git, Integrated
  <2>4. records' = [records EXCEPT ![r] = IF records[r].status = "none" THEN records[r]
                       ELSE [status |-> "reconciled", result |-> calls[c].result]]
    BY <1>4, <2>1 DEF Record
  <2>5. CASE records[r].status = "none"
    <3>1. records' = records
      BY <2>1, <2>4, <2>5
    <3> QED BY <2>3, <3>1 DEF Promise!vars
  <2>6. CASE records[r].status # "none"
    <3>1. Mapped' = [Mapped EXCEPT ![r] = "reconciled"]
      BY <2>1, <2>4, <2>6 DEF Mapped
    <3>2. Promise!Record(r)
      BY <2>2, <2>3, <3>1 DEF Promise!Record, Mapped
    <3> QED BY <2>1, <3>2 DEF Promise!Next
  <2> QED BY <2>5, <2>6
<1>5. ASSUME NEW r \in Members, AbandonMember(r) PROVE Good
  <2>1. Integrated' = Integrated
    BY <1>5 DEF AbandonMember, git, Integrated
  <2>2. records[r] \in Records
    OBVIOUS
  <2>3. Mapped' = [Mapped EXCEPT ![r] = "abandoned"]
    BY <1>5, <2>2 DEF AbandonMember, Mapped, Records
  <2>4. Mapped[r] # "none"
    BY <1>5 DEF AbandonMember, Mapped
  <2>5. Promise!Abandon(r)
    BY <2>1, <2>3, <2>4 DEF Promise!Abandon, Mapped
  <2> QED BY <2>5 DEF Promise!Next
<1>6. CASE Release
  <2>1. Integrated' = Integrated
    BY <1>6 DEF Release, git, Integrated
  <2>2. Mapped' = [r \in Members |-> "pending"]
    BY <1>6 DEF Release, Mapped, NoRecord
  <2>3. Promise!Owe
    BY <2>1, <2>2 DEF Promise!Owe, Mapped
  <2> QED BY <2>3 DEF Promise!Next
<1>7. ASSUME NEW c \in Callers,
             \/ Begin(c) \/ Preview(c) \/ Check(c) \/ MergeConflict(c) \/ Rebase(c)
             \/ RebaseConflict(c) \/ Inspect(c) \/ Stop(c)
      PROVE  Good
  BY <1>0, <1>7
     DEF Begin, Preview, Check, MergeConflict, Rebase, RebaseConflict, Inspect, Stop, git
<1>8. ASSUME NEW r \in Members, CleanupWorktree(r) \/ Switch(r) \/ ResolveRebase(r) PROVE Good
  BY <1>0, <1>8 DEF CleanupWorktree, Switch, ResolveRebase
<1>9. UNCHANGED vars => Good
  BY <1>0 DEF vars, git
<1>10. (\E c \in Callers : Apply(c)) => Good
  BY <1>1, <1>4, <1>7 DEF Apply
<1>11. Good
  <2> HIDE DEF Good
  <2>1. Release => Good
    BY <1>6 DEF Good
  <2> QED BY <1>2, <1>3, <1>5, <1>8, <1>9, <1>10, <2>1 DEF Next
<1> QED BY <1>11

(* reconcile_apply integrates providers first and records what is there:   *)
(* it implements Cohort.                                                   *)
THEOREM Implements_Cohort == Spec => ImplementsCohort
<1>1. Init => Promise!Init
  BY DEF Init, Promise!Init, Integrated, NoRecord
<1>2. IInv /\ [Next]_vars => [Promise!Next]_(Promise!vars)
  BY CohortStep
<1> QED BY <1>1, <1>2, Inductive, PTL DEF Spec, ImplementsCohort, Promise!Spec

(* Under overlapping calls, conflicts, drift and retries: once the work of *)
(* a consumer has reached its repository, or its record says so, the work  *)
(* of every provider in the cohort has reached the provider's repository.  *)
THEOREM Providers_AreThere == Spec => []Promise!ProvidersAreThere
<1>1. Promise!Init => Promise!ProvidersAreThere
  BY DEF Promise!Init, Promise!ProvidersAreThere
<1>2. Promise!ProvidersAreThere /\ [Promise!Next]_(Promise!vars) => Promise!ProvidersAreThere'
  BY DEF Promise!ProvidersAreThere, Promise!vars, Promise!Next, Promise!Integrate,
         Promise!Record, Promise!Abandon, Promise!Owe
<1> QED
  BY <1>1, <1>2, Implements_Cohort, PTL DEF ImplementsCohort, Promise!Spec
=============================================================================
