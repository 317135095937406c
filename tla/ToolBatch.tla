----------------------------- MODULE ToolBatch -----------------------------
(***************************************************************************)
(* The scheduler of one assistant step's tool calls (executeToolBatch),    *)
(* the stages of the pipeline each call goes through, and the recovery     *)
(* that the step runs when a batch is rejected.                            *)
(*                                                                         *)
(* Calls are numbered in model order.  Between two awaits the scheduler    *)
(* runs alone: at "classify" and "fill" nothing else may happen.  At every *)
(* other point tool bodies progress and the caller's signal may abort.     *)
(* The session's log is kept as the calls that have a tool/call event and  *)
(* the sequence of tool/result events.                                     *)
(***************************************************************************)
EXTENDS Integers, Sequences, FiniteSets

CONSTANTS Calls,         \* number of tool calls in the assistant message
          MaxParallel    \* maxParallelToolCalls

ASSUME CallsAssumption == Calls \in Nat
ASSUME MaxParallelAssumption == MaxParallel \in Nat \ {0}

VARIABLES
  pc,          \* where the scheduler is
  next,        \* first call of the current group
  mode,        \* how the current group was classified
  started,     \* calls with a tool/call event are 1 .. started
  committed,   \* calls committed by the scheduler are 1 .. committed
  stage,       \* how far each call has come
  outcome,     \* what a slot holds
  inFlight,    \* dispatches the scheduler has not collected
  aborted,     \* the scheduler's copy of the signal
  signal,      \* the caller's signal has aborted
  failed,      \* schedulerFailure is set
  invoked,     \* calls whose tool body was invoked
  results,     \* tool/result events, in log order
  unrecorded   \* an append failed during recovery

group == <<next, mode>>
counters == <<started, committed>>
pipeline == <<stage, outcome, invoked>>
vars == <<pc, group, counters, pipeline, inFlight, aborted, signal, failed,
          results, unrecorded>>

Call == 1 .. Calls
Slot == {"ok", "error", "aborted", "abortedBefore"}
Code == Slot \cup {"notStarted", "unknown"}

TypeOK ==
  /\ pc \in {"classify", "fill", "prepare", "commit", "race", "drain",
             "rejected", "returned", "stepEnded"}
  /\ next \in 1 .. Calls + 1
  /\ mode \in {"parallel", "exclusive"}
  /\ started \in 0 .. Calls /\ committed \in 0 .. Calls
  /\ stage \in [Call -> {"waiting", "preparing", "dispatched", "executing",
                         "settled", "broken"}]
  /\ outcome \in [Call -> Slot]
  /\ inFlight \subseteq Call /\ invoked \subseteq Call
  /\ aborted \in BOOLEAN /\ signal \in BOOLEAN /\ failed \in BOOLEAN
  /\ results \in Seq([call : Call, code : Code])
  /\ unrecorded \in BOOLEAN

Init ==
  /\ pc = "classify" /\ next = 1 /\ mode = "parallel"
  /\ started = 0 /\ committed = 0
  /\ stage = [c \in Call |-> "waiting"] /\ outcome = [c \in Call |-> "error"]
  /\ inFlight = {} /\ invoked = {}
  /\ aborted = FALSE /\ signal \in BOOLEAN /\ failed = FALSE
  /\ results = <<>> /\ unrecorded = FALSE

Result(c, code) == [call |-> c, code |-> code]

groupEnd == IF mode = "parallel" THEN Calls ELSE next

-----------------------------------------------------------------------------
(* Groups.                                                                   *)

\* executeToolBatch: the first unstarted call decides the next group's mode.
\* Classification reads the tool registry, which may change at any time.
Classify ==
  /\ pc = "classify"
  /\ IF next > Calls
     THEN pc' = "returned" /\ UNCHANGED <<mode, aborted>>
     ELSE /\ mode' \in {"parallel", "exclusive"}
          /\ aborted' = signal
          /\ pc' = "fill"
  /\ UNCHANGED <<next, counters, pipeline, inFlight, signal, failed, results, unrecorded>>

\* A failure outside a group rejects the batch at once.
ClassifyFails ==
  /\ pc = "classify" /\ next <= Calls
  /\ pc' = "rejected"
  /\ UNCHANGED <<group, counters, pipeline, inFlight, aborted, signal, failed,
                 results, unrecorded>>

\* Every failure inside a group waits for the dispatches in flight.
Throw ==
  /\ failed' = TRUE
  /\ pc' = "drain"

\* fillPool's loop condition.
HasRoom == ~aborted /\ started < groupEnd /\ Cardinality(inFlight) < MaxParallel

\* Mutation: the first call of a parallel group is classified again, too.
AtBarrier_FirstCall == mode = "parallel"

\* A parallel group's first call is not classified again; a later one that has
\* become exclusive waits for a group of its own.
AtBarrier == mode = "parallel" /\ started + 1 > next

\* startCall, up to the await of prepare: append tool/call.
StartCall ==
  /\ pc = "fill" /\ HasRoom
  /\ started' = started + 1
  /\ stage' = [stage EXCEPT ![started + 1] = "preparing"]
  /\ pc' = "prepare"
  /\ UNCHANGED <<group, committed, outcome, invoked, inFlight, aborted, signal,
                 failed, results, unrecorded>>

\* Classification or the append of tool/call throws.
StartFails ==
  /\ pc = "fill" /\ HasRoom
  /\ Throw
  /\ UNCHANGED <<group, counters, pipeline, inFlight, aborted, signal, results, unrecorded>>

\* Calls without a result, in model order.
Unanswered == [i \in 1 .. Calls - Len(results) |-> Len(results) + i]

\* Mutation: skipping stops at the end of the aborted group.
Skip_GroupOnly ==
  /\ results' = results \o [i \in 1 .. groupEnd - Len(results)
                              |-> Result(Unanswered[i], "abortedBefore")]
  /\ started' = groupEnd /\ pc' = "returned"

\* settlement.skip, for the rest of the group and then of the batch.
SkipAll ==
  /\ results' = results \o [i \in DOMAIN Unanswered |-> Result(Unanswered[i], "abortedBefore")]
  /\ started' = Calls /\ pc' = "returned"

\* One of skip's two appends throws: some calls before it have been answered.
SkipFails ==
  \E n \in 0 .. Calls - Len(results) - 1 :
    /\ results' = results \o [i \in 1 .. n |-> Result(Unanswered[i], "abortedBefore")]
    /\ started' \in {started + n, started + n + 1}
    /\ pc' = "rejected"

\* The pool cannot take another call: collect a dispatch, or end the group.
EndFill ==
  /\ pc = "fill"
  /\ ~HasRoom \/ AtBarrier
  /\ \/ inFlight # {} /\ pc' = "race" /\ UNCHANGED <<next, started, results>>
     \/ inFlight = {} /\ aborted /\ (SkipAll \/ SkipFails) /\ UNCHANGED next
     \/ inFlight = {} /\ ~aborted /\ next' = started + 1 /\ pc' = "classify"
        /\ UNCHANGED <<started, results>>
  /\ UNCHANGED <<mode, committed, pipeline, inFlight, aborted, signal, failed, unrecorded>>

-----------------------------------------------------------------------------
(* One call at a time is prepared; results are committed in model order.     *)

\* prepare allows the call: its dispatch starts.
PrepareDispatches ==
  /\ pc = "prepare" /\ ~failed
  /\ stage' = [stage EXCEPT ![started] = "dispatched"]
  /\ inFlight' = inFlight \cup {started}
  /\ pc' = "commit"
  /\ UNCHANGED <<group, counters, outcome, invoked, aborted, signal, failed,
                 results, unrecorded>>

\* prepare denies, cancels or fails the call: its slot is filled at once.
PrepareRefuses ==
  /\ pc = "prepare" /\ ~failed
  /\ stage' = [stage EXCEPT ![started] = "settled"]
  /\ \E o \in {"error", "abortedBefore"} : outcome' = [outcome EXCEPT ![started] = o]
  /\ pc' = "commit"
  /\ UNCHANGED <<group, counters, invoked, inFlight, aborted, signal, failed,
                 results, unrecorded>>

\* prepare throws, or finds that a dispatch has failed meanwhile.
PrepareThrows ==
  /\ pc = "prepare"
  /\ Throw
  /\ UNCHANGED <<group, counters, pipeline, inFlight, aborted, signal, results, unrecorded>>

\* Cancellation replaces a success, by whether the body was invoked.
Cancelled(c, o) ==
  IF signal /\ o = "ok" THEN IF c \in invoked THEN "aborted" ELSE "abortedBefore" ELSE o

\* Mutation: whatever has settled is committed.
Ready_AnyOrder(c) == stage[c] = "settled" /\ \A i \in DOMAIN results : results[i].call # c

\* The next call in model order has a slot.
Ready(c) == c = committed + 1 /\ stage[c] = "settled"

\* complete and settlement.commit: post-execute policy may turn it into an error.
Commit ==
  /\ pc = "commit"
  /\ \E c \in Call, o \in Slot :
       /\ Ready(c) /\ o \in {outcome[c], "error"}
       /\ results' = Append(results, Result(c, Cancelled(c, o)))
  /\ committed' = committed + 1
  /\ UNCHANGED <<pc, group, started, pipeline, inFlight, aborted, signal, failed, unrecorded>>

CommitFails ==
  /\ pc = "commit" /\ \E c \in Call : Ready(c)
  /\ Throw
  /\ UNCHANGED <<group, counters, pipeline, inFlight, aborted, signal, results, unrecorded>>

\* commitReady has no more slots; failures and the signal are read again.
CommitDone ==
  /\ pc = "commit" /\ ~\E c \in Call : Ready(c)
  /\ \/ failed /\ pc' = "drain" /\ UNCHANGED aborted
     \/ ~failed /\ pc' = "fill" /\ aborted' = (aborted \/ signal)
  /\ UNCHANGED <<group, counters, pipeline, inFlight, signal, failed, results, unrecorded>>

Collected == {"settled", "broken"}

\* Promise.race over the dispatches in flight.
Race ==
  /\ pc = "race"
  /\ \E c \in inFlight : stage[c] \in Collected /\ inFlight' = inFlight \ {c}
  /\ pc' = IF failed THEN "drain" ELSE "commit"
  /\ UNCHANGED <<group, counters, pipeline, aborted, signal, failed, results, unrecorded>>

\* Promise.allSettled over the dispatches in flight.
Drain ==
  /\ pc = "drain" /\ \A c \in inFlight : stage[c] \in Collected
  /\ pc' = "rejected"
  /\ UNCHANGED <<group, counters, pipeline, inFlight, aborted, signal, failed,
                 results, unrecorded>>

-----------------------------------------------------------------------------
(* The step that owns the batch.                                             *)

\* Mutation: every recovered call is taken for one that never started.
Recovered_NeverStarted(c) == Result(c, "notStarted")

Recovered(c) == Result(c, IF c <= started THEN "unknown" ELSE "notStarted")

\* A rejected batch: ToolCallRecovery answers what has no result, then
\* step/end; an append may throw.
Recover ==
  /\ pc = "rejected"
  /\ \E n \in 0 .. Calls - Len(results) :
       /\ results' = results \o [i \in 1 .. n |-> Recovered(Unanswered[i])]
       /\ unrecorded' = (n < Calls - Len(results))
  /\ pc' = "stepEnded"
  /\ UNCHANGED <<group, counters, pipeline, inFlight, aborted, signal, failed>>

EndStep ==
  /\ pc = "returned"
  /\ pc' = "stepEnded"
  /\ UNCHANGED <<group, counters, pipeline, inFlight, aborted, signal, failed,
                 results, unrecorded>>

\* The batch is over.
Finished == pc = "stepEnded" /\ UNCHANGED vars

-----------------------------------------------------------------------------
(* What happens while the scheduler awaits.                                  *)

Awaiting == pc \notin {"classify", "fill", "rejected", "returned", "stepEnded"}

Abort ==
  /\ Awaiting /\ ~signal
  /\ signal' = TRUE
  /\ UNCHANGED <<pc, group, counters, pipeline, inFlight, aborted, failed, results, unrecorded>>

\* dispatchToolBody: the body is not invoked once the signal has aborted.
InvokeBody(c) ==
  /\ Awaiting /\ stage[c] = "dispatched" /\ ~signal
  /\ stage' = [stage EXCEPT ![c] = "executing"] /\ invoked' = invoked \cup {c}
  /\ UNCHANGED <<pc, group, counters, outcome, inFlight, aborted, signal, failed,
                 results, unrecorded>>

\* dispatch resolves: the body or a wrapper returned, failed or was aborted.
SettleDispatch(c) ==
  /\ Awaiting /\ stage[c] \in {"dispatched", "executing"}
  /\ stage' = [stage EXCEPT ![c] = "settled"]
  /\ \E o \in {"ok", "error", IF c \in invoked THEN "aborted" ELSE "abortedBefore"} :
       outcome' = [outcome EXCEPT ![c] = Cancelled(c, o)]
  /\ UNCHANGED <<pc, group, counters, invoked, inFlight, aborted, signal, failed,
                 results, unrecorded>>

\* dispatch rejects, which is a failure of the scheduler.
BreakDispatch(c) ==
  /\ Awaiting /\ stage[c] \in {"dispatched", "executing"}
  /\ stage' = [stage EXCEPT ![c] = "broken"] /\ failed' = TRUE
  /\ UNCHANGED <<pc, group, counters, outcome, invoked, inFlight, aborted, signal,
                 results, unrecorded>>

-----------------------------------------------------------------------------

Scheduler ==
  \/ Classify
  \/ ClassifyFails
  \/ StartCall
  \/ StartFails
  \/ EndFill
  \/ PrepareDispatches
  \/ PrepareRefuses
  \/ PrepareThrows
  \/ Commit
  \/ CommitFails
  \/ CommitDone
  \/ Race
  \/ Drain
  \/ Recover
  \/ EndStep

Settle == \E c \in Call : SettleDispatch(c) \/ BreakDispatch(c)

Next ==
  \/ Scheduler
  \/ Abort
  \/ \E c \in Call : InvokeBody(c)
  \/ Settle
  \/ Finished

Spec == Init /\ [][Next]_vars

\* Policies and results await nothing for ever, and every dispatch settles:
\* a tool body owes its caller cooperation, and no body waits for another.
Fairness == WF_vars(Scheduler) /\ \A c \in Call : WF_vars(SettleDispatch(c) \/ BreakDispatch(c))

FairSpec == Spec /\ Fairness

-----------------------------------------------------------------------------
(* Properties.                                                               *)

\* Whatever order bodies settle in, and however the batch ends, the log holds
\* one result per call, in model order (batch.ts commitReady; repair.ts).
ResultsInModelOrder == \A i \in DOMAIN results : results[i].call = i

\* No step closes with an unanswered call, after an abort or a failure either,
\* unless recording the recovery results failed (agent.ts step recovery).
StepAnswersEveryCall ==
  pc = "stepEnded" /\ ~unrecorded => Len(results) = Calls

Running == {c \in Call : stage[c] \in {"dispatched", "executing"}}

\* The pool holds at most maxParallelToolCalls dispatches, and the call of an
\* exclusive group runs alone (batch.ts fillPool, executeToolBatch).
PoolIsBounded ==
  /\ Cardinality(Running) <= MaxParallel
  /\ mode = "exclusive" /\ pc # "classify" => Running \subseteq {next}

\* No tool body outlives the batch it belongs to, not even one whose sibling
\* failed (batch.ts "every already-started dispatch settles").
BatchDrains == pc \in {"rejected", "returned", "stepEnded"} => Running = {}

\* What a result tells the model of the start of a call is true: the body of one
\* that did not start was never invoked (contracts.ts TOOL_ABORTED_BEFORE_DISPATCH,
\* repair.ts TOOL_NOT_STARTED; the model may issue such a call again), that of an
\* aborted one was, and a call of unknown outcome had entered the log.
NotStartedIsTrue ==
  \A i \in DOMAIN results :
    LET c == results[i].call IN
    /\ results[i].code \in {"abortedBefore", "notStarted"} => c \notin invoked
    /\ results[i].code = "aborted" => c \in invoked
    /\ results[i].code = "unknown" => c <= started

\* Between a group and the next nothing that was started lacks its result, so
\* the scheduler's own "uncommitted settled calls" error is unreachable.
GroupsCommitWhole == pc = "classify" => committed = started /\ inFlight = {}

\* Once the signal has aborted no further call enters the pipeline, and once a
\* dispatch has failed none is dispatched (batch.ts fillPool, startCall).
StopsReplenishing ==
  [][\A c \in Call :
       /\ signal => ~(stage[c] = "waiting" /\ stage'[c] = "preparing")
       /\ failed => ~(stage[c] = "preparing" /\ stage'[c] = "dispatched")]_vars

\* The batch ends and its step with it.
BatchEnds == <>(pc = "stepEnded")

=============================================================================
