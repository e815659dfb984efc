---------------------------- MODULE Invocations -----------------------------
(***************************************************************************)
(* Invocations of an extension's operations, their managed writes and the  *)
(* recorded outcomes: extension_runtime.py (ExtensionRuntime.invoke and    *)
(* _record_outcome, ManagedBatch, ManagedRecordMapping).                   *)
(*                                                                         *)
(* A handler writes configuration, data and cache records one by one or in *)
(* batches.  A write is what it does to a store; how a configuration write *)
(* compares, validates and replaces is the matter of                       *)
(* ConfigurationPublisher, and one of a record replaces a file.  Either    *)
(* can fail, and a configuration write can be published and still raise,   *)
(* because the reading that follows it fails.  The handler sees what is    *)
(* raised: it goes on, returns or raises itself.                           *)
(***************************************************************************)
EXTENDS Naturals, Sequences, FiniteSets

CONSTANTS
    Clients,        \* bound extensions, each with one invocation at a time
    Plans,          \* what handlers write: sequences of batches
    Retention,
    MaxOutcomes     \* bound: invocations

Stores == {"config", "data", "cache"}

Files == 1 .. MaxOutcomes

\* A batch writes its stores one after the other.  A write made at once is a
\* batch of one, for a batch that fails at its first write keeps no journal.
Batches ==
    {batch \in Seq(Stores) :
        \A i, j \in DOMAIN batch : i < j =>
            /\ batch[j] = "config" => batch[i] = "config"
            /\ batch[i] = "cache" => batch[j] = "cache"}

ASSUME InvocationAssumption ==
    /\ Plans \subseteq Seq(Batches)
    /\ Retention \in Nat \ {0}
    /\ MaxOutcomes \in Nat

VARIABLES
    calls,      \* the invocation of each client
    created,    \* outcome files created so far
    mtime,      \* when each outcome file was last written, 0 when there is none
    clock,      \* the time of the last write; no two have the same
    since       \* history: files written since a file was begun

files == <<created, mtime, clock, since>>

vars == <<calls, files>>

Idle == [step |-> "idle"]

Init ==
    /\ calls = [c \in Clients |-> Idle]
    /\ created = 0
    /\ mtime = [f \in Files |-> 0]
    /\ clock = 0
    /\ since = [f \in Files |-> {}]

-----------------------------------------------------------------------------
(* The handler.                                                            *)

At(c, step) == calls[c] # Idle /\ calls[c].step = step

\* `written` is what the stores have seen, `noted` what the mappings keep as
\* dispositions; `done` and `completed` are what the last batch has written and
\* what it has collected, and `recovery` and `journal` what it left behind.
Invoke(c) ==
    /\ calls[c] = Idle
    /\ \E plan \in Plans :
          calls' = [calls EXCEPT ![c] =
              [step |-> "handler", plan |-> plan, todo |-> <<>>, written |-> <<>>, noted |-> <<>>,
               done |-> <<>>, completed |-> <<>>, recovery |-> "unneeded", journal |-> <<>>]]
    /\ UNCHANGED files

\* The block of a batch is left without an exception, and its writes begin.
LeaveBlock(c) ==
    /\ At(c, "handler") /\ calls[c].plan # <<>>
    /\ calls' = [calls EXCEPT ![c].step = "batch",
                              ![c].plan = Tail(@),
                              ![c].todo = Head(calls[c].plan),
                              ![c].done = <<>>,
                              ![c].completed = <<>>,
                              ![c].recovery = "unneeded",
                              ![c].journal = <<>>]
    /\ UNCHANGED files

\* Mutant: a batch collects a write before it is made.
Collected_Early(call) ==
    IF call.todo # <<>> THEN Append(call.completed, Head(call.todo)) ELSE call.completed

\* What the journal of a batch that fails now names.
Collected(call) == call.completed

Writing(c) == At(c, "batch") /\ calls[c].todo # <<>>

Write(c) ==
    LET store == Head(calls[c].todo)
    IN  /\ Writing(c)
        /\ calls' = [calls EXCEPT ![c].todo = Tail(@),
                                  ![c].written = Append(@, store),
                                  ![c].noted = Append(@, store),
                                  ![c].done = Append(@, store),
                                  ![c].completed = Append(@, store)]
        /\ UNCHANGED files

\* Mutant: a write is noted when its mapping has been read again.
Noted_Refreshed(call) == call.noted

\* The configuration is published and noted, and cannot be read again.
Noted(call) == Append(call.noted, "config")

RefreshFails(c) ==
    /\ Writing(c) /\ Head(calls[c].todo) = "config"
    /\ calls' = [calls EXCEPT ![c].step = "journal",
                              ![c].written = Append(@, "config"),
                              ![c].noted = Noted(calls[c]),
                              ![c].done = Append(@, "config")]
    /\ UNCHANGED files

\* A conflict, a rejected value, a lost race with a deletion, a full disk.
WriteFails(c) ==
    /\ Writing(c)
    /\ calls' = [calls EXCEPT ![c].step = "journal"]
    /\ UNCHANGED files

\* ManagedBatch.__exit__ after its last write; no later failure of the handler
\* is one of this batch.
BatchReturns(c) ==
    /\ At(c, "batch") /\ calls[c].todo = <<>>
    /\ calls' = [calls EXCEPT ![c].step = "handler"]
    /\ UNCHANGED files

\* ManagedBatch.__exit__ after a failed write: what is collected, if anything,
\* goes to a recovery journal, which nothing in the code reads.
Journal(c) ==
    LET collected == Collected(calls[c])
    IN  /\ At(c, "journal")
        /\ calls' = [calls EXCEPT ![c].step = "handler",
                                  ![c].journal = collected,
                                  ![c].recovery = IF collected = <<>> THEN "none" ELSE "written"]
        /\ UNCHANGED files

\* The journal cannot be created, or is removed again because it cannot be
\* filled; the handler sees that error instead.
JournalFails(c) ==
    /\ At(c, "journal") /\ Collected(calls[c]) # <<>>
    /\ calls' = [calls EXCEPT ![c].step = "handler", ![c].recovery = "failed"]
    /\ UNCHANGED files

\* The handler returns or raises, between batches or within the block of one,
\* which then writes nothing.
HandlerEnds(c) ==
    /\ At(c, "handler")
    /\ calls' = [calls EXCEPT ![c] =
          [step |-> "outcome", written |-> calls[c].written, noted |-> calls[c].noted]]
    /\ UNCHANGED files

-----------------------------------------------------------------------------
(* _record_outcome.                                                        *)

Outcomes == {f \in Files : mtime[f] # 0}

\* A file is written: it becomes the newest, and that is seen by the others.
Touch(f) ==
    /\ clock' = clock + 1
    /\ mtime' = [mtime EXCEPT ![f] = clock + 1]
    /\ since' = [g \in Files |-> IF g \in Outcomes \ {f} THEN since[g] \cup {f} ELSE since[g]]

\* _atomic_create makes the file and then fills it.
CreateOutcome(c) ==
    /\ At(c, "outcome")
    /\ created < MaxOutcomes
    /\ created' = created + 1
    /\ Touch(created + 1)
    /\ calls' = [calls EXCEPT ![c] =
          [step |-> "fill", file |-> created + 1,
           written |-> calls[c].written, noted |-> calls[c].noted]]

\* A file that was pruned meanwhile is filled for nobody.
FillOutcome(c) ==
    LET f == calls[c].file
    IN  /\ At(c, "fill")
        /\ IF f \in Outcomes THEN Touch(f) ELSE UNCHANGED <<mtime, clock, since>>
        /\ calls' = [calls EXCEPT ![c] = [step |-> "filled", file |-> f]]
        /\ UNCHANGED created

\* A file that cannot be filled, or cannot be synced after that, is removed
\* again, and the call reports that the outcome was not recorded.
FillFails(c) ==
    LET f == calls[c].file
    IN  /\ At(c, "fill") \/ At(c, "filled")
        /\ mtime' = [mtime EXCEPT ![f] = 0]
        /\ since' = [since EXCEPT ![f] = {}]
        /\ calls' = [calls EXCEPT ![c] = Idle]
        /\ UNCHANGED <<created, clock>>

Glob(c) ==
    /\ At(c, "filled")
    /\ calls' = [calls EXCEPT ![c] = [step |-> "stat", left |-> Outcomes, seen |-> {}]]
    /\ UNCHANGED files

\* The files are looked at one by one.  A listed file that is gone ends the
\* call, which reports that the outcome was not recorded.
Stat(c) ==
    /\ At(c, "stat")
    /\ \E f \in calls[c].left :
          calls' = [calls EXCEPT ![c] =
              IF f \in Outcomes
                THEN [step |-> "stat", left |-> calls[c].left \ {f},
                      seen |-> calls[c].seen \cup {[file |-> f, mtime |-> mtime[f]]}]
                ELSE Idle]
    /\ UNCHANGED files

Newer(seen, entry) == {other \in seen : other.mtime > entry.mtime}

\* Mutant: one too many.
Excess_OneMore(seen) == {entry \in seen : Cardinality(Newer(seen, entry)) >= Retention - 1}

\* The oldest beyond the retention.
Excess(seen) == {entry \in seen : Cardinality(Newer(seen, entry)) >= Retention}

Sort(c) ==
    /\ At(c, "stat") /\ calls[c].left = {}
    /\ calls' = [calls EXCEPT ![c] = [step |-> "prune", excess |-> Excess(calls[c].seen)]]
    /\ UNCHANGED files

Oldest(entries) == {entry \in entries : \A other \in entries : entry.mtime <= other.mtime}

\* The oldest goes first.  One that someone else has removed ends the call,
\* like a file that was gone before.
Prune(c) ==
    /\ At(c, "prune")
    /\ \E entry \in Oldest(calls[c].excess) :
          IF entry.file \in Outcomes
            THEN /\ mtime' = [mtime EXCEPT ![entry.file] = 0]
                 /\ since' = [since EXCEPT ![entry.file] = {}]
                 /\ calls' = [calls EXCEPT ![c].excess = @ \ {entry}]
            ELSE /\ calls' = [calls EXCEPT ![c] = Idle]
                 /\ UNCHANGED <<mtime, since>>
    /\ UNCHANGED <<created, clock>>

Return(c) ==
    /\ At(c, "prune") /\ calls[c].excess = {}
    /\ calls' = [calls EXCEPT ![c] = Idle]
    /\ UNCHANGED files

\* The process dies, or the outcome of the invocation cannot be created, which
\* the call reports.
Die(c) ==
    /\ calls[c] # Idle
    /\ calls' = [calls EXCEPT ![c] = Idle]
    /\ UNCHANGED files

Next ==
    \E c \in Clients :
        \/ Invoke(c)
        \/ LeaveBlock(c)
        \/ Write(c)
        \/ RefreshFails(c)
        \/ WriteFails(c)
        \/ BatchReturns(c)
        \/ Journal(c)
        \/ JournalFails(c)
        \/ HandlerEnds(c)
        \/ CreateOutcome(c)
        \/ FillOutcome(c)
        \/ FillFails(c)
        \/ Glob(c)
        \/ Stat(c)
        \/ Sort(c)
        \/ Prune(c)
        \/ Return(c)
        \/ Die(c)

Spec == Init /\ [][Next]_vars

-----------------------------------------------------------------------------
(* What is recorded as the outcome of an invocation names the writes that  *)
(* its handler made, no fewer when the handler failed, when a batch        *)
(* stopped half-way, and when a write was published by a call that then    *)
(* raised.                                                                 *)
OutcomeTellsWrites ==
    \A c \in Clients : At(c, "fill") => calls[c].noted = calls[c].written

(* What the handler finds after a failed batch tells what the batch had    *)
(* written: a journal names it, in order, and when there is none and none  *)
(* failed to be created, there was nothing - but for a configuration write *)
(* that was published by a call that then raised, which is the last one    *)
(* and is not named.                                                       *)
JournalTellsWrites ==
    \A c \in Clients : At(c, "handler") =>
        LET done == calls[c].done
            journal == calls[c].journal
        IN  /\ calls[c].recovery = "written" => done \in {journal, Append(journal, "config")}
            /\ calls[c].recovery = "none" => done \in {<<>>, <<"config">>}

\* The invocation that made a file removes it, for it could not fill it.
TakenBack(f) ==
    \E c \in Clients :
        /\ At(c, "fill") \/ At(c, "filled")
        /\ calls[c].file = f
        /\ calls'[c] = Idle

(* However invocations list and remove each other's outcomes, one that its *)
(* own invocation does not take back is removed only when as many as are   *)
(* to be retained have been written since it was begun.                    *)
RecentOutcomesSurvive ==
    [][\A f \in Outcomes \ Outcomes' :
          TakenBack(f) \/ Cardinality(since[f]) >= Retention]_vars
=============================================================================
