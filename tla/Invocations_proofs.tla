------------------------- MODULE Invocations_proofs -------------------------
(***************************************************************************)
(* Proofs of what module Invocations promises of outcomes and journals,    *)
(* for any clients, any plans of handlers and any retention.               *)
(***************************************************************************)
EXTENDS Invocations, FiniteSetTheorems, TLAPS

-----------------------------------------------------------------------------
(* Types.                                                                  *)

\* A call whose handler runs.
Handlings ==
    [step : {"handler", "batch", "journal"}, plan : Seq(Batches), todo : Seq(Stores),
     written : Seq(Stores), noted : Seq(Stores), done : Seq(Stores), completed : Seq(Stores),
     recovery : {"unneeded", "none", "written", "failed"}, journal : Seq(Stores)]

\* A call whose handler has ended, and whose outcome is not recorded.
Endings == [step : {"outcome"}, written : Seq(Stores), noted : Seq(Stores)]

Entries == [file : Files, mtime : Nat]

Fillings == [step : {"fill"}, file : Files, written : Seq(Stores), noted : Seq(Stores)]

Filled == [step : {"filled"}, file : Files]

Listings == [step : {"stat"}, left : SUBSET Files, seen : SUBSET Entries]

Prunings == [step : {"prune"}, excess : SUBSET Entries]

CallRecords ==
    {Idle} \cup Handlings \cup Endings \cup Fillings \cup Filled \cup Listings \cup Prunings

TypeOK ==
    /\ calls \in [Clients -> CallRecords]
    /\ created \in 0 .. MaxOutcomes
    /\ mtime \in [Files -> Nat]
    /\ clock \in Nat
    /\ since \in [Files -> SUBSET Files]

(* Which record a call is, is told by its step.                            *)
LEMMA StepTellsRecord ==
    ASSUME NEW call \in CallRecords
    PROVE  /\ call.step \in {"handler", "batch", "journal"} => call \in Handlings
           /\ call.step = "outcome" => call \in Endings
           /\ call.step = "fill" => call \in Fillings
           /\ call.step = "filled" => call \in Filled
           /\ call.step = "stat" => call \in Listings
           /\ call.step = "prune" => call \in Prunings
           /\ call.step = "idle" <=> call = Idle
  BY DEF CallRecords, Idle, Handlings, Endings, Fillings, Filled, Listings, Prunings

-----------------------------------------------------------------------------
(* What outcomes and journals tell.                                        *)

(* A call has noted what it has written.  A batch has collected what it    *)
(* has written, until it fails; then what it collected, and what its       *)
(* journal names, may lack a last configuration write.                     *)
TellsItsWrites(call) ==
    /\ call.step \in {"handler", "batch", "journal", "outcome", "fill"} =>
          call.noted = call.written
    /\ call.step = "batch" => call.completed = call.done
    /\ call.step = "journal" => call.done \in {call.completed, Append(call.completed, "config")}
    /\ call.step = "handler" =>
          /\ call.recovery = "written" =>
                call.done \in {call.journal, Append(call.journal, "config")}
          /\ call.recovery = "none" => call.done \in {<<>>, <<"config">>}
    /\ call.step \in {"batch", "journal"} => call.recovery = "unneeded"

HandlersTell == \A c \in Clients : TellsItsWrites(calls[c])

-----------------------------------------------------------------------------
(* What the files and their times tell.                                    *)

(* Time has not passed the clock, and a file that has not been created     *)
(* does not exist.                                                         *)
TimesArePast ==
    /\ \A f \in Files : mtime[f] <= clock
    /\ \A f \in Outcomes : f <= created

(* A file that is newer than another was written since the other was       *)
(* begun.                                                                  *)
NewerIsSince ==
    \A f, g \in Outcomes : mtime[g] > mtime[f] => g \in since[f]

(* What a call has looked at, its times as they were then: a file is older *)
(* only than what was written since it was begun, by the times seen, by    *)
(* the present ones, and by one against the other.                         *)
SeenInOrder(seen) ==
    /\ \A e \in seen : e.file <= created /\ e.mtime <= clock
    /\ \A e, other \in seen : e.file = other.file => e = other
    /\ \A e \in seen : \A f \in Outcomes : e.mtime > mtime[f] => e.file \in since[f]
    /\ \A e \in seen : e.file \in Outcomes =>
          \A g \in Outcomes \ {e.file} : mtime[g] > e.mtime => g \in since[e.file]
    /\ \A e, other \in seen :
          e.file \in Outcomes /\ other.mtime > e.mtime => other.file \in since[e.file]

ListingsInOrder ==
    \A c \in Clients : calls[c].step = "stat" =>
        /\ IsFiniteSet(calls[c].seen)
        /\ \A e \in calls[c].seen : e.file \notin calls[c].left
        /\ SeenInOrder(calls[c].seen)

(* What a call is going to remove, if it still is there, is old enough.    *)
OldEnough(excess) ==
    \A e \in excess :
        /\ e.file <= created
        /\ e.file \in Outcomes => Cardinality(since[e.file]) >= Retention

ExcessIsOld ==
    \A c \in Clients : calls[c].step = "prune" => OldEnough(calls[c].excess)

FilesInv == TypeOK /\ TimesArePast /\ NewerIsSince /\ ListingsInOrder /\ ExcessIsOld

-----------------------------------------------------------------------------
(* Type correctness.                                                       *)

Handler(c) ==
    \/ Invoke(c) \/ LeaveBlock(c) \/ Write(c) \/ RefreshFails(c) \/ WriteFails(c)
    \/ BatchReturns(c) \/ Journal(c) \/ JournalFails(c) \/ HandlerEnds(c)

Retaining(c) ==
    \/ CreateOutcome(c) \/ FillOutcome(c) \/ FillFails(c) \/ Glob(c) \/ Stat(c) \/ Sort(c)
    \/ Prune(c) \/ Return(c)

(* A call is replaced by a record of its type, and no other call changes.  *)
LEMMA CallReplaced ==
    ASSUME calls \in [Clients -> CallRecords], NEW c \in Clients, NEW call \in CallRecords,
           calls' = [calls EXCEPT ![c] = call]
    PROVE  /\ calls' \in [Clients -> CallRecords]
           /\ calls'[c] = call
           /\ \A d \in Clients \ {c} : calls'[d] = calls[d]
  OBVIOUS

\* The call that each step of a handler leaves.
Invoked(plan) ==
    [step |-> "handler", plan |-> plan, todo |-> <<>>, written |-> <<>>, noted |-> <<>>,
     done |-> <<>>, completed |-> <<>>, recovery |-> "unneeded", journal |-> <<>>]

BlockLeft(call) ==
    [call EXCEPT !.step = "batch", !.plan = Tail(@), !.todo = Head(call.plan), !.done = <<>>,
                 !.completed = <<>>, !.recovery = "unneeded", !.journal = <<>>]

Written(call, store) ==
    [call EXCEPT !.todo = Tail(@), !.written = Append(@, store), !.noted = Append(@, store),
                 !.done = Append(@, store), !.completed = Append(@, store)]

Unreadable(call) ==
    [call EXCEPT !.step = "journal", !.written = Append(@, "config"), !.noted = Noted(call),
                 !.done = Append(@, "config")]

Journalled(call) ==
    [call EXCEPT !.step = "handler", !.journal = Collected(call),
                 !.recovery = IF Collected(call) = <<>> THEN "none" ELSE "written"]

Ended(call) == [step |-> "outcome", written |-> call.written, noted |-> call.noted]

(* The handler of a call replaces that call by one of its type that tells  *)
(* its writes if the former did, and touches no file.                      *)
LEMMA HandlerReplaces ==
    ASSUME TypeOK, NEW c \in Clients, Handler(c)
    PROVE  /\ \E call \in Handlings \cup Endings :
                /\ calls' = [calls EXCEPT ![c] = call]
                /\ TellsItsWrites(calls[c]) => TellsItsWrites(call)
           /\ UNCHANGED files
<1> DEFINE before == calls[c]
           Good(call) == /\ call \in Handlings \cup Endings
                         /\ calls' = [calls EXCEPT ![c] = call]
                         /\ TellsItsWrites(before) => TellsItsWrites(call)
<1>1. calls \in [Clients -> CallRecords] /\ before \in CallRecords
  BY DEF TypeOK
<1>2. UNCHANGED files
  BY DEF Handler, Invoke, LeaveBlock, Write, RefreshFails, WriteFails, BatchReturns, Journal,
         JournalFails, HandlerEnds
<1>3. "config" \in Stores /\ <<>> \in Seq(Stores)
  BY DEF Stores
<1>4. ASSUME before.step \in {"handler", "batch", "journal"}
      PROVE  before \in Handlings
  BY <1>1, <1>4, StepTellsRecord
<1> HIDE DEF before
<1>5. ASSUME Invoke(c) PROVE \E call : Good(call)
  <2>1. PICK plan \in Plans : calls' = [calls EXCEPT ![c] = Invoked(plan)]
    BY <1>5 DEF Invoke, Invoked
  <2>2. plan \in Seq(Batches)
    BY InvocationAssumption
  <2>3. Invoked(plan) \in Handlings
    BY <1>3, <2>2 DEF Handlings, Invoked
  <2>4. TellsItsWrites(Invoked(plan))
    BY DEF TellsItsWrites, Invoked
  <2> QED
    BY <2>1, <2>3, <2>4
<1>6. ASSUME LeaveBlock(c) PROVE \E call : Good(call)
  <2>1. before \in Handlings /\ before.step = "handler" /\ before.plan # <<>>
    BY <1>4, <1>6 DEF LeaveBlock, At, before
  <2>2. Head(before.plan) \in Batches /\ Tail(before.plan) \in Seq(Batches)
    BY <2>1 DEF Handlings
  <2>3. Head(before.plan) \in Seq(Stores)
    BY <2>2 DEF Batches
  <2>4. BlockLeft(before) \in Handlings
    BY <1>3, <2>1, <2>2, <2>3 DEF Handlings, BlockLeft
  <2>5. calls' = [calls EXCEPT ![c] = BlockLeft(before)]
    BY <1>1, <1>6 DEF LeaveBlock, BlockLeft, before
  <2>6. TellsItsWrites(before) => TellsItsWrites(BlockLeft(before))
    BY <2>1 DEF TellsItsWrites, BlockLeft, Handlings
  <2> QED
    BY <2>4, <2>5, <2>6
<1>7. ASSUME Write(c) PROVE \E call : Good(call)
  <2>1. before \in Handlings /\ before.step = "batch" /\ before.todo # <<>>
    BY <1>4, <1>7 DEF Write, Writing, At, before
  <2>2. PICK store \in Stores : store = Head(before.todo)
    BY <2>1 DEF Handlings
  <2>3. /\ Tail(before.todo) \in Seq(Stores)
        /\ Append(before.written, store) \in Seq(Stores)
        /\ Append(before.noted, store) \in Seq(Stores)
        /\ Append(before.done, store) \in Seq(Stores)
        /\ Append(before.completed, store) \in Seq(Stores)
    BY <2>1 DEF Handlings
  <2>4. Written(before, store) \in Handlings
    BY <2>1, <2>3 DEF Handlings, Written
  <2>5. calls' = [calls EXCEPT ![c] = Written(before, store)]
    BY <1>1, <1>7, <2>2 DEF Write, Written, before
  <2>6. TellsItsWrites(before) => TellsItsWrites(Written(before, store))
    BY <2>1 DEF TellsItsWrites, Written, Handlings
  <2> QED
    BY <2>4, <2>5, <2>6
<1>8. ASSUME RefreshFails(c) PROVE \E call : Good(call)
  <2>1. before \in Handlings /\ before.step = "batch"
    BY <1>4, <1>8 DEF RefreshFails, Writing, At, before
  <2>2. /\ Append(before.written, "config") \in Seq(Stores)
        /\ Append(before.noted, "config") \in Seq(Stores)
        /\ Append(before.done, "config") \in Seq(Stores)
    BY <1>3, <2>1 DEF Handlings
  <2>3. Unreadable(before) \in Handlings
    BY <2>1, <2>2 DEF Handlings, Unreadable, Noted
  <2>4. calls' = [calls EXCEPT ![c] = Unreadable(before)]
    BY <1>1, <1>8 DEF RefreshFails, Unreadable, before
  <2>5. TellsItsWrites(before) => TellsItsWrites(Unreadable(before))
    BY <2>1 DEF TellsItsWrites, Unreadable, Noted, Handlings
  <2> QED
    BY <2>3, <2>4, <2>5
<1>9. ASSUME WriteFails(c) PROVE \E call : Good(call)
  <2> DEFINE call == [before EXCEPT !.step = "journal"]
  <2>1. before \in Handlings /\ before.step = "batch"
    BY <1>4, <1>9 DEF WriteFails, Writing, At, before
  <2>2. call \in Handlings
    BY <2>1 DEF Handlings
  <2>3. calls' = [calls EXCEPT ![c] = call]
    BY <1>1, <1>9 DEF WriteFails, before
  <2>4. TellsItsWrites(before) => TellsItsWrites(call)
    BY <2>1 DEF TellsItsWrites, Handlings
  <2> QED
    BY <2>2, <2>3, <2>4
<1>10. ASSUME BatchReturns(c) PROVE \E call : Good(call)
  <2> DEFINE call == [before EXCEPT !.step = "handler"]
  <2>1. before \in Handlings /\ before.step = "batch"
    BY <1>4, <1>10 DEF BatchReturns, At, before
  <2>2. call \in Handlings
    BY <2>1 DEF Handlings
  <2>3. calls' = [calls EXCEPT ![c] = call]
    BY <1>1, <1>10 DEF BatchReturns, before
  <2>4. TellsItsWrites(before) => TellsItsWrites(call)
    BY <2>1 DEF TellsItsWrites, Handlings
  <2> QED
    BY <2>2, <2>3, <2>4
<1>11. ASSUME Journal(c) PROVE \E call : Good(call)
  <2>1. before \in Handlings /\ before.step = "journal"
    BY <1>4, <1>11 DEF Journal, At, before
  <2>2. Journalled(before) \in Handlings
    BY <2>1 DEF Handlings, Journalled, Collected
  <2>3. calls' = [calls EXCEPT ![c] = Journalled(before)]
    BY <1>1, <1>11 DEF Journal, Journalled, before
  <2>4. TellsItsWrites(before) => TellsItsWrites(Journalled(before))
    <3>1. Append(<<>>, "config") = <<"config">>
      OBVIOUS
    <3> QED
      BY <2>1, <3>1 DEF TellsItsWrites, Journalled, Collected, Handlings
  <2> QED
    BY <2>2, <2>3, <2>4
<1>12. ASSUME JournalFails(c) PROVE \E call : Good(call)
  <2> DEFINE call == [before EXCEPT !.step = "handler", !.recovery = "failed"]
  <2>1. before \in Handlings /\ before.step = "journal"
    BY <1>4, <1>12 DEF JournalFails, At, before
  <2>2. call \in Handlings
    BY <2>1 DEF Handlings
  <2>3. calls' = [calls EXCEPT ![c] = call]
    BY <1>1, <1>12 DEF JournalFails, before
  <2>4. TellsItsWrites(before) => TellsItsWrites(call)
    BY <2>1 DEF TellsItsWrites, Handlings
  <2> QED
    BY <2>2, <2>3, <2>4
<1>13. ASSUME HandlerEnds(c) PROVE \E call : Good(call)
  <2>1. before \in Handlings /\ before.step = "handler"
    BY <1>4, <1>13 DEF HandlerEnds, At, before
  <2>2. Ended(before) \in Endings
    BY <2>1 DEF Handlings, Endings, Ended
  <2>3. calls' = [calls EXCEPT ![c] = Ended(before)]
    BY <1>13 DEF HandlerEnds, Ended, before
  <2>4. TellsItsWrites(before) => TellsItsWrites(Ended(before))
    BY <2>1 DEF TellsItsWrites, Ended
  <2> QED
    BY <2>2, <2>3, <2>4
<1>14. \E call : Good(call)
  BY <1>5, <1>6, <1>7, <1>8, <1>9, <1>10, <1>11, <1>12, <1>13 DEF Handler
<1> QED
  BY <1>2, <1>14 DEF before

(* Writing a file keeps the types.                                         *)
LEMMA TouchTypes ==
    ASSUME TypeOK, NEW f \in Files, Touch(f)
    PROVE  /\ mtime' \in [Files -> Nat]
           /\ clock' \in Nat
           /\ since' \in [Files -> SUBSET Files]
  BY DEF TypeOK, Touch

(* The recording of an outcome replaces one call by one of its type, and   *)
(* files keep their types.                                                 *)
LEMMA RetainingReplaces ==
    ASSUME TypeOK, NEW c \in Clients, Retaining(c)
    PROVE  /\ \E call \in CallRecords : calls' = [calls EXCEPT ![c] = call]
           /\ TypeOK'
<1>1. /\ calls \in [Clients -> CallRecords] /\ calls[c] \in CallRecords
      /\ Idle \in CallRecords
  BY DEF TypeOK, CallRecords
<1>2. ASSUME NEW call \in CallRecords, calls' = [calls EXCEPT ![c] = call], UNCHANGED files
      PROVE  TypeOK'
  BY <1>1, <1>2 DEF TypeOK, files
<1>3. CASE CreateOutcome(c)
  <2> DEFINE call == [step |-> "fill", file |-> created + 1,
                      written |-> calls[c].written, noted |-> calls[c].noted]
  <2>1. calls[c] \in Endings
    BY <1>1, <1>3, StepTellsRecord DEF CreateOutcome, At
  <2>2. created + 1 \in Files /\ created' \in 0 .. MaxOutcomes
    BY <1>3, InvocationAssumption DEF CreateOutcome, TypeOK, Files
  <2>3. call \in CallRecords
    BY <2>1, <2>2 DEF CallRecords, Endings, Fillings
  <2>4. calls' = [calls EXCEPT ![c] = call]
    BY <1>3 DEF CreateOutcome
  <2>5. calls' \in [Clients -> CallRecords]
    BY <1>1, <2>3, <2>4
  <2>6. Touch(created + 1)
    BY <1>3 DEF CreateOutcome
  <2> QED
    BY <2>2, <2>3, <2>4, <2>5, <2>6, TouchTypes DEF TypeOK
<1>4. CASE FillOutcome(c)
  <2>1. calls[c] \in Fillings
    BY <1>1, <1>4, StepTellsRecord DEF FillOutcome, At
  <2>2. calls[c].file \in Files
    BY <2>1 DEF Fillings
  <2>3. [step |-> "filled", file |-> calls[c].file] \in CallRecords
    BY <2>2 DEF CallRecords, Filled
  <2>4. /\ calls' = [calls EXCEPT ![c] = [step |-> "filled", file |-> calls[c].file]]
        /\ created' = created
    BY <1>4 DEF FillOutcome
  <2>5. calls' \in [Clients -> CallRecords]
    BY <1>1, <2>3, <2>4
  <2>6. Touch(calls[c].file) \/ UNCHANGED <<mtime, clock, since>>
    BY <1>4 DEF FillOutcome
  <2> QED
    BY <2>2, <2>3, <2>4, <2>5, <2>6, TouchTypes DEF TypeOK
<1>5. CASE Glob(c)
  <2>1. [step |-> "stat", left |-> Outcomes, seen |-> {}] \in CallRecords
    BY DEF CallRecords, Listings, Outcomes
  <2> QED
    BY <1>2, <1>5, <2>1 DEF Glob
<1>6. CASE Stat(c)
  <2>1. calls[c] \in Listings
    BY <1>1, <1>6, StepTellsRecord DEF Stat, At
  <2>2. PICK f \in calls[c].left :
          calls' = [calls EXCEPT ![c] =
              IF f \in Outcomes
                THEN [step |-> "stat", left |-> calls[c].left \ {f},
                      seen |-> calls[c].seen \cup {[file |-> f, mtime |-> mtime[f]]}]
                ELSE Idle]
    BY <1>6 DEF Stat
  <2>3. [file |-> f, mtime |-> mtime[f]] \in Entries
    BY <2>1 DEF Listings, Entries, TypeOK
  <2>4. [step |-> "stat", left |-> calls[c].left \ {f},
         seen |-> calls[c].seen \cup {[file |-> f, mtime |-> mtime[f]]}] \in CallRecords
    BY <2>1, <2>3 DEF CallRecords, Listings
  <2>5. UNCHANGED files
    BY <1>6 DEF Stat
  <2> QED
    BY <1>1, <1>2, <2>2, <2>4, <2>5
<1>7. CASE Sort(c)
  <2>1. calls[c] \in Listings
    BY <1>1, <1>7, StepTellsRecord DEF Sort, At
  <2>2. Excess(calls[c].seen) \subseteq Entries
    BY <2>1 DEF Excess, Listings
  <2>3. [step |-> "prune", excess |-> Excess(calls[c].seen)] \in CallRecords
    BY <2>2 DEF CallRecords, Prunings
  <2> QED
    BY <1>2, <1>7, <2>3 DEF Sort
<1>8. CASE Prune(c)
  <2>1. calls[c] \in Prunings
    BY <1>1, <1>8, StepTellsRecord DEF Prune, At
  <2>2. PICK entry \in Oldest(calls[c].excess) :
          IF entry.file \in Outcomes
            THEN /\ mtime' = [mtime EXCEPT ![entry.file] = 0]
                 /\ since' = [since EXCEPT ![entry.file] = {}]
                 /\ calls' = [calls EXCEPT ![c].excess = @ \ {entry}]
            ELSE /\ calls' = [calls EXCEPT ![c] = Idle]
                 /\ UNCHANGED <<mtime, since>>
    BY <1>8 DEF Prune
  <2>3. created' = created /\ clock' = clock
    BY <1>8 DEF Prune
  <2>4. CASE entry.file \in Outcomes
    <3> DEFINE call == [calls[c] EXCEPT !.excess = @ \ {entry}]
    <3>1. call \in CallRecords
      BY <2>1 DEF CallRecords, Prunings
    <3>2. calls' = [calls EXCEPT ![c] = call]
      BY <1>1, <2>2, <2>4
    <3>3. calls' \in [Clients -> CallRecords]
      BY <1>1, <3>1, <3>2
    <3>4. mtime' \in [Files -> Nat] /\ since' \in [Files -> SUBSET Files]
      BY <2>2, <2>4 DEF TypeOK
    <3> QED
      BY <2>3, <3>1, <3>2, <3>3, <3>4 DEF TypeOK
  <2>5. CASE entry.file \notin Outcomes
    <3>1. calls' = [calls EXCEPT ![c] = Idle] /\ UNCHANGED files
      BY <2>2, <2>3, <2>5 DEF files
    <3> QED
      BY <1>1, <1>2, <3>1
  <2> QED
    BY <2>4, <2>5
<1>9. CASE Return(c)
  BY <1>1, <1>2, <1>9 DEF Return
<1>10. CASE FillFails(c)
  <2>1. calls[c].file \in Files
    BY <1>1, <1>10, StepTellsRecord DEF FillFails, At, Fillings, Filled
  <2>2. /\ calls' = [calls EXCEPT ![c] = Idle]
        /\ mtime' \in [Files -> Nat] /\ since' \in [Files -> SUBSET Files]
        /\ UNCHANGED <<created, clock>>
    BY <1>10, <2>1 DEF FillFails, TypeOK
  <2>3. calls' \in [Clients -> CallRecords]
    BY <1>1, <2>2
  <2> QED
    BY <1>1, <2>2, <2>3 DEF TypeOK
<1> QED
  BY <1>3, <1>4, <1>5, <1>6, <1>7, <1>8, <1>9, <1>10 DEF Retaining

(* Every step is one of a handler, of the recording of an outcome, or a    *)
(* death.                                                                  *)
LEMMA StepsOfCalls ==
    ASSUME [Next]_vars
    PROVE  \/ \E c \in Clients : Handler(c) \/ Retaining(c) \/ Die(c)
           \/ UNCHANGED vars
  BY DEF Next, Handler, Retaining

LEMMA TypeOKStep ==
    ASSUME TypeOK, [Next]_vars
    PROVE  TypeOK'
<1>1. ASSUME NEW c \in Clients, Handler(c)
      PROVE  TypeOK'
  <2>1. PICK call \in Handlings \cup Endings : calls' = [calls EXCEPT ![c] = call]
    BY <1>1, HandlerReplaces
  <2>2. UNCHANGED files
    BY <1>1, HandlerReplaces
  <2>3. calls' \in [Clients -> CallRecords]
    BY <2>1 DEF TypeOK, CallRecords
  <2> QED
    BY <2>2, <2>3 DEF TypeOK, files
<1>2. ASSUME NEW c \in Clients, Die(c)
      PROVE  TypeOK'
  <2>1. calls' \in [Clients -> CallRecords]
    BY <1>2 DEF Die, TypeOK, CallRecords
  <2> QED
    BY <1>2, <2>1 DEF Die, TypeOK, files
<1>3. CASE UNCHANGED vars
  BY <1>3 DEF TypeOK, vars, files
<1> QED
  BY <1>1, <1>2, <1>3, StepsOfCalls, RetainingReplaces

(* Calls keep the type of the step they are in, outcome files are among    *)
(* those created, and their times and histories are typed, for any plans   *)
(* of handlers and any overlap of calls.                                   *)
THEOREM InvocationTypes == Spec => []TypeOK
<1>1. Init => TypeOK
  BY InvocationAssumption DEF Init, TypeOK, CallRecords
<1>2. TypeOK /\ [Next]_vars => TypeOK'
  BY TypeOKStep
<1> QED
  BY <1>1, <1>2, PTL DEF Spec

-----------------------------------------------------------------------------
(* Outcomes and journals tell what was written.                            *)

LEMMA TellsReplaced ==
    ASSUME TypeOK, HandlersTell, NEW c \in Clients, NEW call, TellsItsWrites(call),
           calls' = [calls EXCEPT ![c] = call]
    PROVE  HandlersTell'
<1>1. ASSUME NEW d \in Clients
      PROVE  calls'[d] \in {calls[d], call} /\ TellsItsWrites(calls[d])
  BY DEF TypeOK, HandlersTell
<1>2. ASSUME NEW d \in Clients
      PROVE  TellsItsWrites(calls'[d])
  BY <1>1
<1> QED
  BY <1>2 DEF HandlersTell, TellsItsWrites

(* A handler keeps what it notes and collects in step with what it writes. *)
LEMMA HandlerTells ==
    ASSUME TypeOK, HandlersTell, NEW c \in Clients, Handler(c)
    PROVE  HandlersTell'
<1>1. PICK call \in Handlings \cup Endings :
        /\ calls' = [calls EXCEPT ![c] = call]
        /\ TellsItsWrites(calls[c]) => TellsItsWrites(call)
  BY HandlerReplaces
<1>2. TellsItsWrites(call)
  BY <1>1 DEF HandlersTell
<1> QED
  BY <1>1, <1>2, TellsReplaced

(* The recording of an outcome takes over what its handler tells.          *)
LEMMA RetainingTells ==
    ASSUME TypeOK, HandlersTell, NEW c \in Clients, Retaining(c)
    PROVE  HandlersTell'
<1>1. calls \in [Clients -> CallRecords] /\ calls[c] \in CallRecords
  BY DEF TypeOK
<1>2. ASSUME NEW call, TellsItsWrites(call), calls' = [calls EXCEPT ![c] = call]
      PROVE  HandlersTell'
  BY <1>2, TellsReplaced
<1>3. TellsItsWrites(Idle)
  BY DEF TellsItsWrites, Idle
<1>4. CASE CreateOutcome(c)
  <2>1. PICK call : call = [step |-> "fill", file |-> created + 1,
                            written |-> calls[c].written, noted |-> calls[c].noted]
    OBVIOUS
  <2>2. calls[c].noted = calls[c].written
    BY <1>4 DEF CreateOutcome, At, HandlersTell, TellsItsWrites
  <2>3. TellsItsWrites(call)
    BY <2>1, <2>2 DEF TellsItsWrites
  <2> QED
    BY <1>2, <1>4, <2>1, <2>3 DEF CreateOutcome
<1>5. CASE FillOutcome(c)
  BY <1>2, <1>5 DEF FillOutcome, TellsItsWrites
<1>6. CASE FillFails(c)
  BY <1>2, <1>3, <1>6 DEF FillFails
<1>7. CASE Glob(c)
  BY <1>2, <1>7 DEF Glob, TellsItsWrites
<1>8. CASE Stat(c)
  BY <1>2, <1>3, <1>8 DEF Stat, TellsItsWrites
<1>9. CASE Sort(c)
  BY <1>2, <1>9 DEF Sort, TellsItsWrites
<1>10. CASE Prune(c)
  <2>1. ASSUME NEW entry, calls' = [calls EXCEPT ![c].excess = @ \ {entry}]
        PROVE  HandlersTell'
    <3> DEFINE call == [calls[c] EXCEPT !.excess = @ \ {entry}]
    <3>1. calls[c] \in Prunings
      BY <1>1, <1>10, StepTellsRecord DEF Prune, At
    <3>2. call.step = "prune"
      BY <3>1 DEF Prunings
    <3>3. TellsItsWrites(call)
      BY <3>2 DEF TellsItsWrites
    <3> QED
      BY <1>1, <1>2, <2>1, <3>3
  <2> QED
    BY <1>2, <1>3, <1>10, <2>1 DEF Prune
<1>11. CASE Return(c)
  BY <1>2, <1>3, <1>11 DEF Return
<1> QED
  BY <1>4, <1>5, <1>6, <1>7, <1>8, <1>9, <1>10, <1>11 DEF Retaining

LEMMA HandlersTellStep ==
    ASSUME TypeOK, HandlersTell, [Next]_vars
    PROVE  HandlersTell'
<1>1. ASSUME NEW c \in Clients, Die(c)
      PROVE  HandlersTell'
  BY <1>1, TellsReplaced DEF Die, TellsItsWrites, Idle
<1>2. CASE UNCHANGED vars
  BY <1>2 DEF HandlersTell, TellsItsWrites, vars
<1> QED
  BY <1>1, <1>2, StepsOfCalls, HandlerTells, RetainingTells

LEMMA TellingAlways == Spec => [](TypeOK /\ HandlersTell)
<1>1. Init => HandlersTell
  BY DEF Init, Idle, HandlersTell, TellsItsWrites
<1>2. TypeOK /\ HandlersTell /\ [Next]_vars => HandlersTell'
  BY HandlersTellStep
<1> QED
  BY <1>1, <1>2, InvocationTypes, PTL DEF Spec

(* The recorded outcome of an invocation names every write its handler     *)
(* made and no other, whichever write failed, before or after it was       *)
(* published, for any plan of any handler.                                 *)
THEOREM Outcome_TellsWrites == Spec => []OutcomeTellsWrites
<1>1. TypeOK /\ HandlersTell => OutcomeTellsWrites
  BY DEF HandlersTell, TellsItsWrites, OutcomeTellsWrites, At
<1> QED
  BY <1>1, TellingAlways, PTL

(* The journal of a failed batch names what the batch had written, and a   *)
(* failed batch that collected nothing had written nothing, but for a last *)
(* configuration write that was published and could not be read again; no  *)
(* failure after a batch has returned makes it one that failed.            *)
THEOREM Journal_TellsWrites == Spec => []JournalTellsWrites
<1>1. TypeOK /\ HandlersTell => JournalTellsWrites
  BY DEF HandlersTell, TellsItsWrites, JournalTellsWrites, At
<1> QED
  BY <1>1, TellingAlways, PTL

-----------------------------------------------------------------------------
(* Recent outcomes survive.                                                *)

\* A step leaves what is known of the files, and of what calls have seen of
\* them, true.
FilesKept ==
    /\ TimesArePast'
    /\ NewerIsSince'
    /\ \A seen \in SUBSET Entries : SeenInOrder(seen) => SeenInOrder(seen)'
    /\ \A excess \in SUBSET Entries : OldEnough(excess) => OldEnough(excess)'

(* A history is a set of files, of which there are finitely many.          *)
LEMMA HistoriesAreFinite ==
    ASSUME TypeOK
    PROVE  \A f \in Files : IsFiniteSet(since[f])
<1>1. \A f \in Files : since[f] \in SUBSET (1 .. MaxOutcomes)
  BY DEF TypeOK, Files
<1>2. IsFiniteSet(1 .. MaxOutcomes)
  BY FS_Interval, InvocationAssumption
<1> QED
  BY <1>1, <1>2, FS_Subset

(* A step that writes no file keeps what is known of them.                 *)
LEMMA UntouchedKeeps ==
    ASSUME TimesArePast, NewerIsSince, UNCHANGED files
    PROVE  FilesKept
  BY DEF FilesKept, TimesArePast, NewerIsSince, SeenInOrder, OldEnough, Outcomes, files

(* A file that is written becomes the newest, and is seen to be that by    *)
(* each other; a new one was not listed by anyone.                         *)
LEMMA TouchKeeps ==
    ASSUME TypeOK, TimesArePast, NewerIsSince, NEW f \in Files, Touch(f),
           created' \in Nat, created <= created', f <= created',
           f \in Outcomes \/ f > created
    PROVE  FilesKept
<1>1. /\ clock \in Nat /\ clock' = clock + 1 /\ created \in Nat
      /\ \A g \in Files : mtime[g] \in Nat /\ mtime[g] <= clock /\ IsFiniteSet(since[g])
      /\ \A g \in Outcomes : g \in Files /\ g <= created /\ g \in Nat
  BY HistoriesAreFinite, InvocationAssumption
  DEF TypeOK, TimesArePast, Outcomes, Files, Touch
<1>2. /\ mtime'[f] = clock + 1
      /\ \A g \in Files \ {f} : mtime'[g] = mtime[g]
  BY DEF TypeOK, Touch
<1>3. Outcomes' = Outcomes \cup {f}
  BY <1>1, <1>2 DEF Outcomes
<1>4. /\ \A g \in Outcomes \ {f} : since'[g] = since[g] \cup {f}
      /\ since'[f] = since[f]
  BY <1>1 DEF Touch
<1>5. TimesArePast'
  BY <1>1, <1>2, <1>3 DEF TimesArePast
<1>6. NewerIsSince'
  <2> SUFFICES ASSUME NEW a \in Outcomes', NEW b \in Outcomes', mtime'[b] > mtime'[a]
               PROVE  b \in since'[a]
    BY DEF NewerIsSince
  <2>1. a # f
    BY <1>1, <1>2, <1>3
  <2>2. CASE b = f
    BY <1>3, <1>4, <2>1, <2>2
  <2>3. CASE b # f
    BY <1>1, <1>2, <1>3, <1>4, <2>1, <2>3 DEF NewerIsSince
  <2> QED
    BY <2>2, <2>3
<1>7. ASSUME NEW seen \in SUBSET Entries, SeenInOrder(seen)
      PROVE  SeenInOrder(seen)'
  <2>1. \A e \in seen : /\ e.file \in Files /\ e.mtime \in Nat
                        /\ e.file <= created /\ e.mtime <= clock
                        /\ e.file = f => f \in Outcomes
    BY <1>1, <1>7 DEF Entries, SeenInOrder, Files
  <2>2. \A e \in seen : e.file <= created' /\ e.mtime <= clock'
    BY <1>1, <2>1 DEF Files
  <2>3. ASSUME NEW e \in seen, NEW g \in Outcomes', e.mtime > mtime'[g]
        PROVE  e.file \in since'[g]
    <3>1. g # f
      BY <1>1, <1>2, <2>1, <2>3
    <3> QED
      BY <1>1, <1>2, <1>3, <1>4, <1>7, <2>3, <3>1 DEF SeenInOrder
  <2>4. ASSUME NEW e \in seen, e.file \in Outcomes', NEW g \in Outcomes' \ {e.file},
               mtime'[g] > e.mtime
        PROVE  g \in since'[e.file]
    <3>1. e.file \in Outcomes
      BY <1>3, <2>1, <2>4
    <3>2. CASE g = f
      BY <1>4, <2>4, <3>1, <3>2
    <3>3. CASE g # f
      <4>1. g \in Outcomes \ {e.file} /\ mtime[g] > e.mtime
        BY <1>1, <1>2, <1>3, <2>4, <3>3
      <4>2. g \in since[e.file]
        BY <1>7, <3>1, <4>1 DEF SeenInOrder
      <4> QED
        BY <1>4, <3>1, <4>2
    <3> QED
      BY <3>2, <3>3
  <2>5. ASSUME NEW e \in seen, NEW other \in seen, e.file \in Outcomes', other.mtime > e.mtime
        PROVE  other.file \in since'[e.file]
    <3>1. e.file \in Outcomes
      BY <1>3, <2>1, <2>5
    <3>2. other.file \in since[e.file]
      BY <1>7, <2>5, <3>1 DEF SeenInOrder
    <3> QED
      BY <1>4, <3>1, <3>2
  <2> QED
    BY <1>7, <2>2, <2>3, <2>4, <2>5 DEF SeenInOrder
<1>8. ASSUME NEW excess \in SUBSET Entries, OldEnough(excess)
      PROVE  OldEnough(excess)'
  <2> SUFFICES ASSUME NEW e \in excess
               PROVE  /\ e.file <= created'
                      /\ e.file \in Outcomes' => Cardinality(since'[e.file]) >= Retention
    BY DEF OldEnough
  <2>1. e.file \in Files /\ e.file <= created /\ (e.file = f => f \in Outcomes)
    BY <1>1, <1>8 DEF Entries, OldEnough, Files
  <2>2. e.file <= created'
    BY <1>1, <2>1 DEF Files
  <2>3. ASSUME e.file \in Outcomes'
        PROVE  Cardinality(since'[e.file]) >= Retention
    <3>1. e.file \in Outcomes /\ Cardinality(since[e.file]) >= Retention
      BY <1>3, <1>8, <2>1, <2>3 DEF OldEnough
    <3>2. CASE e.file = f
      BY <1>4, <3>1, <3>2
    <3>3. CASE e.file # f
      <4>1. since'[e.file] = since[e.file] \cup {f} /\ IsFiniteSet(since[e.file])
        BY <1>1, <1>4, <3>1, <3>3
      <4>2. IsFiniteSet(since'[e.file])
        BY <4>1, FS_AddElement
      <4>3. /\ Cardinality(since[e.file]) \in Nat /\ Cardinality(since'[e.file]) \in Nat
            /\ Cardinality(since[e.file]) <= Cardinality(since'[e.file])
        BY <4>1, <4>2, FS_Subset, FS_CardinalityType
      <4> QED
        BY <3>1, <4>3, InvocationAssumption
    <3> QED
      BY <3>2, <3>3
  <2> QED
    BY <2>2, <2>3
<1> QED
  BY <1>5, <1>6, <1>7, <1>8 DEF FilesKept

(* Of a file that is removed nothing more is said.                         *)
LEMMA RemovalKeeps ==
    ASSUME TypeOK, TimesArePast, NewerIsSince, NEW f \in Files,
           mtime' = [mtime EXCEPT ![f] = 0], since' = [since EXCEPT ![f] = {}],
           UNCHANGED <<created, clock>>
    PROVE  FilesKept
<1>1. Outcomes' = Outcomes \ {f}
  BY DEF TypeOK, Outcomes
<1>2. /\ \A g \in Outcomes' : mtime'[g] = mtime[g] /\ since'[g] = since[g]
      /\ \A g \in Files : mtime'[g] <= clock
  BY <1>1 DEF TypeOK, Outcomes, TimesArePast
<1>3. TimesArePast' /\ NewerIsSince'
  BY <1>1, <1>2 DEF TimesArePast, NewerIsSince
<1>4. ASSUME NEW seen \in SUBSET Entries, SeenInOrder(seen)
      PROVE  SeenInOrder(seen)'
  BY <1>1, <1>2, <1>4 DEF SeenInOrder
<1>5. ASSUME NEW excess \in SUBSET Entries, OldEnough(excess)
      PROVE  OldEnough(excess)'
  BY <1>1, <1>2, <1>5 DEF OldEnough
<1> QED
  BY <1>3, <1>4, <1>5 DEF FilesKept

\* What ListingsInOrder and ExcessIsOld say of one call.
InOrder(call) ==
    /\ call.step = "stat" =>
          /\ IsFiniteSet(call.seen)
          /\ \A e \in call.seen : e.file \notin call.left
          /\ SeenInOrder(call.seen)
    /\ call.step = "prune" => OldEnough(call.excess)

(* When a step keeps what is known of the files, only the call that takes  *)
(* it has to be looked at.                                                 *)
LEMMA OrderReplaced ==
    ASSUME FilesInv, FilesKept, NEW c \in Clients, NEW call,
           InOrder(call)', calls' = [calls EXCEPT ![c] = call]
    PROVE  ListingsInOrder' /\ ExcessIsOld'
<1>1. \A d \in Clients \ {c} : calls'[d] = calls[d]
  BY DEF FilesInv, TypeOK
<1>2. calls'[c] = call
  BY DEF FilesInv, TypeOK
<1>3. ASSUME NEW d \in Clients
      PROVE  InOrder(calls[d])'
  <2>1. CASE d = c
    BY <1>2, <2>1 DEF InOrder, SeenInOrder, OldEnough
  <2>2. CASE d # c
    <3>1. PICK other \in CallRecords : other = calls[d]
      BY DEF FilesInv, TypeOK
    <3>2. InOrder(other)
      BY <3>1 DEF FilesInv, ListingsInOrder, ExcessIsOld, InOrder
    <3>3. other.step = "stat" => other.seen \in SUBSET Entries
      BY StepTellsRecord DEF Listings
    <3>4. other.step = "prune" => other.excess \in SUBSET Entries
      BY StepTellsRecord DEF Prunings
    <3>5. InOrder(other)'
      BY <3>2, <3>3, <3>4 DEF InOrder, FilesKept
    <3>6. calls'[d] = other
      BY <1>1, <2>2, <3>1
    <3> QED
      BY <3>5, <3>6 DEF InOrder, SeenInOrder, OldEnough
  <2> QED
    BY <2>1, <2>2
<1> QED
  BY <1>3 DEF InOrder, ListingsInOrder, ExcessIsOld

(* What a call has seen stays in order when it looks at one more file.     *)
LEMMA SeenGrows ==
    ASSUME FilesInv, NEW seen \in SUBSET Entries, SeenInOrder(seen), NEW f \in Outcomes,
           \A e \in seen : e.file # f
    PROVE  SeenInOrder(seen \cup {[file |-> f, mtime |-> mtime[f]]})
<1> DEFINE new == [file |-> f, mtime |-> mtime[f]]
<1>1. new.file = f /\ new.mtime = mtime[f]
  OBVIOUS
<1>2. /\ f \in Files /\ f <= created /\ mtime[f] <= clock
      /\ \A g \in Outcomes : mtime[g] \in Nat
      /\ \A e \in seen : e.mtime \in Nat
  BY DEF FilesInv, TypeOK, TimesArePast, Outcomes, Entries
<1> HIDE DEF new
<1> SUFFICES SeenInOrder(seen \cup {new})
  BY DEF new
<1>3. \A e \in seen \cup {new} : e.file <= created /\ e.mtime <= clock
  BY <1>1, <1>2 DEF SeenInOrder
<1>4. \A e, other \in seen \cup {new} : e.file = other.file => e = other
  BY <1>1 DEF SeenInOrder
<1>5. \A e \in seen \cup {new} : \A g \in Outcomes : e.mtime > mtime[g] => e.file \in since[g]
  BY <1>1 DEF SeenInOrder, FilesInv, NewerIsSince
<1>6. \A e \in seen \cup {new} : e.file \in Outcomes =>
          \A g \in Outcomes \ {e.file} : mtime[g] > e.mtime => g \in since[e.file]
  BY <1>1 DEF SeenInOrder, FilesInv, NewerIsSince
<1>7. ASSUME NEW e \in seen \cup {new}, NEW other \in seen \cup {new},
             e.file \in Outcomes, other.mtime > e.mtime
      PROVE  other.file \in since[e.file]
  <2>1. CASE e = new
    <3>1. other \in seen
      BY <1>1, <1>2, <1>7, <2>1
    <3> QED
      BY <1>1, <1>7, <2>1, <3>1 DEF SeenInOrder
  <2>2. CASE e \in seen /\ other = new
    BY <1>1, <1>7, <2>2 DEF SeenInOrder
  <2>3. CASE e \in seen /\ other \in seen
    BY <1>7, <2>3 DEF SeenInOrder
  <2> QED
    BY <2>1, <2>2, <2>3
<1> QED
  BY <1>3, <1>4, <1>5, <1>6, <1>7 DEF SeenInOrder

(* An entry with as many newer ones as are retained is of a file since     *)
(* which as many files were written: different entries are of different    *)
(* files.                                                                  *)
LEMMA ExcessIsOldEnough ==
    ASSUME FilesInv, NEW seen \in SUBSET Entries, IsFiniteSet(seen), SeenInOrder(seen)
    PROVE  OldEnough(Excess(seen))
<1> SUFFICES ASSUME NEW e \in seen, Cardinality(Newer(seen, e)) >= Retention, e.file \in Outcomes
             PROVE  Cardinality(since[e.file]) >= Retention
  BY DEF OldEnough, Excess, SeenInOrder
<1> DEFINE newer == Newer(seen, e)
           file == [other \in newer |-> other.file]
<1>1. IsFiniteSet(newer)
  BY FS_Subset DEF Newer
<1>2. \A other \in newer : other \in seen /\ other.file \in since[e.file]
  BY DEF Newer, SeenInOrder
<1>3. file \in Injection(newer, since[e.file])
  <2>1. file \in [newer -> since[e.file]]
    BY <1>2
  <2>2. \A a, b \in newer : file[a] = file[b] => a = b
    BY <1>2 DEF SeenInOrder
  <2> HIDE DEF file, newer
  <2> QED
    BY <2>1, <2>2 DEF Injection, IsInjective
<1>4. IsFiniteSet(since[e.file])
  BY HistoriesAreFinite DEF FilesInv, Outcomes
<1>5. Cardinality(newer) <= Cardinality(since[e.file])
  <2> HIDE DEF file, newer
  <2> QED
    BY <1>3, <1>4, FS_Injection
<1>6. Cardinality(newer) \in Nat /\ Cardinality(since[e.file]) \in Nat
  BY <1>1, <1>4, FS_CardinalityType
<1> QED
  BY <1>5, <1>6, InvocationAssumption

(* Every step of the recording of an outcome keeps what is known of the    *)
(* files and what calls have seen of them.                                 *)
LEMMA RetainingInOrder ==
    ASSUME FilesInv, NEW c \in Clients, Retaining(c)
    PROVE  FilesKept /\ ListingsInOrder' /\ ExcessIsOld'
<1>1. /\ TypeOK /\ TimesArePast /\ NewerIsSince
      /\ calls \in [Clients -> CallRecords] /\ calls[c] \in CallRecords
  BY DEF FilesInv, TypeOK
<1>2. ASSUME UNCHANGED files
      PROVE  FilesKept
  BY <1>1, <1>2, UntouchedKeeps
<1>3. InOrder(Idle)'
  BY DEF InOrder, Idle
<1>4. CASE CreateOutcome(c)
  <2>1. /\ created + 1 \in Files /\ created' = created + 1 /\ created \in Nat
        /\ Touch(created + 1)
    BY <1>1, <1>4, InvocationAssumption DEF CreateOutcome, TypeOK, Files
  <2>2. FilesKept
    BY <1>1, <2>1, TouchKeeps
  <2>4. PICK call : call = [step |-> "fill", file |-> created + 1,
                            written |-> calls[c].written, noted |-> calls[c].noted]
    OBVIOUS
  <2>3. calls' = [calls EXCEPT ![c] = call]
    BY <1>4, <2>4 DEF CreateOutcome
  <2>5. InOrder(call)'
    BY <2>4 DEF InOrder
  <2> QED
    BY <2>2, <2>3, <2>4, <2>5, OrderReplaced
<1>5. CASE FillOutcome(c)
  <2>1. calls[c].file \in Files
    BY <1>1, <1>5, StepTellsRecord DEF FillOutcome, At, Fillings
  <2>2. created' = created /\ created \in Nat
    BY <1>1, <1>5, InvocationAssumption DEF FillOutcome, TypeOK
  <2>3. ASSUME calls[c].file \in Outcomes
        PROVE  FilesKept
    <3>1. Touch(calls[c].file)
      BY <1>5, <2>3 DEF FillOutcome
    <3>2. calls[c].file <= created'
      BY <1>1, <2>2, <2>3 DEF TimesArePast
    <3> QED
      BY <1>1, <2>1, <2>2, <2>3, <3>1, <3>2, TouchKeeps
  <2>4. ASSUME calls[c].file \notin Outcomes
        PROVE  FilesKept
    BY <1>2, <1>5, <2>4 DEF FillOutcome, files
  <2>5. PICK call : call = [step |-> "filled", file |-> calls[c].file]
    OBVIOUS
  <2>6. calls' = [calls EXCEPT ![c] = call] /\ InOrder(call)'
    BY <1>5, <2>5 DEF FillOutcome, InOrder
  <2>7. FilesKept
    BY <2>3, <2>4
  <2> QED
    BY <2>6, <2>7, OrderReplaced
<1>6. CASE Glob(c)
  <2>1. PICK call : call = [step |-> "stat", left |-> Outcomes, seen |-> {}]
    OBVIOUS
  <2>2. calls' = [calls EXCEPT ![c] = call]
    BY <1>6, <2>1 DEF Glob
  <2>3. InOrder(call)'
    BY <2>1, FS_EmptySet DEF InOrder, SeenInOrder
  <2> QED
    BY <1>2, <1>6, <2>2, <2>3, OrderReplaced DEF Glob
<1>7. CASE Stat(c)
  <2>1. calls[c] \in Listings /\ UNCHANGED files
    BY <1>1, <1>7, StepTellsRecord DEF Stat, At
  <2>2. FilesKept
    BY <1>2, <2>1
  <2>3. PICK f \in calls[c].left :
          calls' = [calls EXCEPT ![c] =
              IF f \in Outcomes
                THEN [step |-> "stat", left |-> calls[c].left \ {f},
                      seen |-> calls[c].seen \cup {[file |-> f, mtime |-> mtime[f]]}]
                ELSE Idle]
    BY <1>7 DEF Stat
  <2>4. CASE f \notin Outcomes
    BY <1>3, <2>2, <2>3, <2>4, OrderReplaced
  <2>5. CASE f \in Outcomes
    <3>1. PICK seen, new : /\ new = [file |-> f, mtime |-> mtime[f]]
                           /\ seen = calls[c].seen \cup {new}
      OBVIOUS
    <3>2. PICK call : call = [step |-> "stat", left |-> calls[c].left \ {f}, seen |-> seen]
      OBVIOUS
    <3>3. calls' = [calls EXCEPT ![c] = call]
      BY <2>3, <2>5, <3>1, <3>2
    <3>4. /\ IsFiniteSet(calls[c].seen) /\ SeenInOrder(calls[c].seen)
          /\ \A e \in calls[c].seen : e.file \notin calls[c].left
      BY <2>1 DEF FilesInv, ListingsInOrder, Listings
    <3>5. calls[c].seen \in SUBSET Entries /\ new \in Entries
      BY <1>1, <2>1, <3>1 DEF Listings, Entries, TypeOK
    <3>6. SeenInOrder(seen)
      BY <2>3, <2>5, <3>1, <3>4, <3>5, SeenGrows
    <3>7. SeenInOrder(seen)'
      BY <2>2, <3>1, <3>5, <3>6 DEF FilesKept
    <3>8. IsFiniteSet(seen)
      BY <3>1, <3>4, FS_AddElement
    <3>9. \A e \in seen : e.file \notin calls[c].left \ {f}
      BY <3>1, <3>4
    <3>10. InOrder(call)'
      BY <3>2, <3>7, <3>8, <3>9 DEF InOrder
    <3> QED
      BY <2>2, <3>3, <3>10, OrderReplaced
  <2> QED
    BY <2>4, <2>5
<1>8. CASE Sort(c)
  <2>1. calls[c] \in Listings /\ calls[c].step = "stat" /\ UNCHANGED files
    BY <1>1, <1>8, StepTellsRecord DEF Sort, At
  <2>2. FilesKept
    BY <1>2, <2>1
  <2>3. PICK excess : excess = Excess(calls[c].seen)
    OBVIOUS
  <2>4. OldEnough(excess)
    BY <2>1, <2>3, ExcessIsOldEnough DEF FilesInv, ListingsInOrder, Listings
  <2>5. excess \in SUBSET Entries
    BY <2>1, <2>3 DEF Excess, Listings
  <2>6. OldEnough(excess)'
    BY <2>2, <2>4, <2>5 DEF FilesKept
  <2>7. calls' = [calls EXCEPT ![c] = [step |-> "prune", excess |-> excess]]
    BY <1>8, <2>3 DEF Sort
  <2>8. InOrder([step |-> "prune", excess |-> excess])'
    BY <2>6 DEF InOrder
  <2> QED
    BY <2>2, <2>7, <2>8, OrderReplaced
<1>9. CASE Prune(c)
  <2>1. calls[c] \in Prunings /\ calls[c].step = "prune"
    BY <1>1, <1>9, StepTellsRecord DEF Prune, At
  <2>2. PICK entry \in Oldest(calls[c].excess) :
          IF entry.file \in Outcomes
            THEN /\ mtime' = [mtime EXCEPT ![entry.file] = 0]
                 /\ since' = [since EXCEPT ![entry.file] = {}]
                 /\ calls' = [calls EXCEPT ![c].excess = @ \ {entry}]
            ELSE /\ calls' = [calls EXCEPT ![c] = Idle]
                 /\ UNCHANGED <<mtime, since>>
    BY <1>9 DEF Prune
  <2>3. UNCHANGED <<created, clock>>
    BY <1>9 DEF Prune
  <2>4. CASE entry.file \in Outcomes
    <3>1. entry.file \in Files
      BY <2>4 DEF Outcomes
    <3>2. FilesKept
      BY <1>1, <2>2, <2>3, <2>4, <3>1, RemovalKeeps
    <3>3. PICK call : call = [calls[c] EXCEPT !.excess = @ \ {entry}]
      OBVIOUS
    <3>4. calls' = [calls EXCEPT ![c] = call]
      BY <1>1, <2>2, <2>4, <3>3
    <3>5. /\ call.step = "prune" /\ call.excess = calls[c].excess \ {entry}
          /\ call.excess \in SUBSET Entries
      BY <2>1, <3>3 DEF Prunings
    <3>6. OldEnough(call.excess)
      BY <2>1, <3>5 DEF FilesInv, ExcessIsOld, OldEnough
    <3>7. OldEnough(call.excess)'
      BY <3>2, <3>5, <3>6 DEF FilesKept
    <3>8. InOrder(call)'
      BY <3>5, <3>7 DEF InOrder
    <3> QED
      BY <3>2, <3>4, <3>8, OrderReplaced
  <2>5. CASE entry.file \notin Outcomes
    <3>1. FilesKept
      BY <1>2, <2>2, <2>3, <2>5 DEF files
    <3> QED
      BY <1>3, <2>2, <2>5, <3>1, OrderReplaced
  <2> QED
    BY <2>4, <2>5
<1>10. CASE Return(c)
  <2>1. FilesKept
    BY <1>2, <1>10 DEF Return
  <2> QED
    BY <1>3, <1>10, <2>1, OrderReplaced DEF Return
<1>11. CASE FillFails(c)
  <2>1. calls[c].file \in Files
    BY <1>1, <1>11, StepTellsRecord DEF FillFails, At, Fillings, Filled
  <2>2. FilesKept
    BY <1>1, <1>11, <2>1, RemovalKeeps DEF FillFails
  <2> QED
    BY <1>3, <1>11, <2>2, OrderReplaced DEF FillFails
<1> QED
  BY <1>4, <1>5, <1>6, <1>7, <1>8, <1>9, <1>10, <1>11 DEF Retaining

LEMMA FilesInvStep ==
    ASSUME FilesInv, [Next]_vars
    PROVE  FilesInv'
<1>1. TypeOK'
  BY TypeOKStep DEF FilesInv
<1>2. ASSUME UNCHANGED files
      PROVE  TimesArePast' /\ NewerIsSince' /\ FilesKept
  BY <1>2, UntouchedKeeps DEF FilesKept, FilesInv
<1>3. ASSUME NEW c \in Clients, Handler(c)
      PROVE  FilesInv'
  <2>1. PICK call \in Handlings \cup Endings : calls' = [calls EXCEPT ![c] = call]
    BY <1>3, HandlerReplaces DEF FilesInv
  <2>2. UNCHANGED files
    BY <1>3, HandlerReplaces DEF FilesInv
  <2>3. InOrder(call)'
    BY DEF InOrder, Handlings, Endings
  <2> QED
    BY <1>1, <1>2, <2>1, <2>2, <2>3, OrderReplaced DEF FilesInv
<1>4. ASSUME NEW c \in Clients, Retaining(c)
      PROVE  FilesInv'
  BY <1>1, <1>4, RetainingInOrder DEF FilesInv, FilesKept
<1>5. ASSUME NEW c \in Clients, Die(c)
      PROVE  FilesInv'
  <2>1. InOrder(Idle)'
    BY DEF InOrder, Idle
  <2> QED
    BY <1>1, <1>2, <1>5, <2>1, OrderReplaced DEF Die, FilesInv
<1>6. CASE UNCHANGED vars
  <2>1. UNCHANGED files /\ calls' = calls
    BY <1>6 DEF vars, files
  <2>2. ListingsInOrder' /\ ExcessIsOld'
    BY <2>1 DEF FilesInv, ListingsInOrder, ExcessIsOld, SeenInOrder, OldEnough, Outcomes, files
  <2> QED
    BY <1>1, <1>2, <2>1, <2>2 DEF FilesInv
<1> QED
  BY <1>3, <1>4, <1>5, <1>6, StepsOfCalls

(* However many invocations write, list and remove outcome files at once,  *)
(* and wherever they stop, a file that its own invocation does not take    *)
(* back is removed only when as many files as are to be retained have been *)
(* written since it was begun.                                             *)
THEOREM RecentOutcomes_Survive == Spec => RecentOutcomesSurvive
<1>1. Init => FilesInv
  BY InvocationAssumption
  DEF Init, FilesInv, TypeOK, CallRecords, TimesArePast, NewerIsSince, ListingsInOrder,
      ExcessIsOld, Outcomes, Idle
<1>2. FilesInv /\ [Next]_vars => FilesInv'
  BY FilesInvStep
<1>3. FilesInv /\ [Next]_vars =>
        [\A f \in Outcomes \ Outcomes' :
            TakenBack(f) \/ Cardinality(since[f]) >= Retention]_vars
  <2> SUFFICES ASSUME FilesInv, [Next]_vars, NEW f \in Outcomes \ Outcomes', ~TakenBack(f)
               PROVE  Cardinality(since[f]) >= Retention
    OBVIOUS
  <2>1. ASSUME UNCHANGED files
        PROVE  FALSE
    BY <2>1 DEF files, Outcomes
  <2>2. PICK c \in Clients : Handler(c) \/ Retaining(c) \/ Die(c)
    BY <2>1, StepsOfCalls DEF vars, files
  <2>3. Retaining(c)
    BY <2>1, <2>2, HandlerReplaces DEF Die, FilesInv
  <2>4. ASSUME NEW g \in Files, Touch(g)
        PROVE  FALSE
    BY <2>4 DEF FilesInv, TypeOK, Touch, Outcomes
  <2>5. ~CreateOutcome(c)
    BY <2>4, InvocationAssumption DEF CreateOutcome, FilesInv, TypeOK, Files
  <2>6. ~FillOutcome(c)
    BY <2>1, <2>4 DEF FillOutcome, Outcomes, files
  <2>12. ~FillFails(c)
    <3> SUFFICES ASSUME FillFails(c)
                 PROVE  FALSE
      OBVIOUS
    <3>1. calls[c].file = f
      BY DEF FillFails, FilesInv, TypeOK, Outcomes
    <3>2. calls'[c] = Idle
      BY DEF FillFails, FilesInv, TypeOK
    <3> QED
      BY <3>1, <3>2 DEF FillFails, TakenBack
  <2>7. Prune(c)
    BY <2>1, <2>3, <2>5, <2>6, <2>12 DEF Retaining, Glob, Stat, Sort, Return
  <2>8. calls[c].step = "prune"
    BY <2>7 DEF Prune, At
  <2>9. PICK entry \in Oldest(calls[c].excess) :
          entry.file \in Outcomes /\ mtime' = [mtime EXCEPT ![entry.file] = 0]
    BY <2>1, <2>7 DEF Prune, files
  <2>10. f = entry.file
    BY <2>9 DEF FilesInv, TypeOK, Outcomes
  <2>11. entry \in calls[c].excess
    BY DEF Oldest
  <2> QED
    BY <2>8, <2>9, <2>10, <2>11 DEF FilesInv, ExcessIsOld, OldEnough
<1> QED
  BY <1>1, <1>2, <1>3, PTL DEF Spec, RecentOutcomesSurvive
=============================================================================
