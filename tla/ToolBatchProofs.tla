-------------------------- MODULE ToolBatchProofs --------------------------
(***************************************************************************)
(* Theorems about ToolBatch for every number of calls and every limit.     *)
(***************************************************************************)
EXTENDS ToolBatch, SequenceTheorems, FiniteSetTheorems, TLAPS

-----------------------------------------------------------------------------
(* The inductive invariant, in the parts the steps disturb separately.       *)

Over == {"rejected", "returned", "stepEnded"}
InGroup == {"fill", "prepare", "commit", "race"}

\* The counters and the group.
CountInv ==
  /\ committed <= started
  /\ pc \in InGroup \cup {"classify"} => next <= started + 1 /\ started <= Calls
  /\ pc \in InGroup => started <= groupEnd /\ next <= Calls
  /\ pc = "classify" => next = started + 1 /\ committed = started /\ inFlight = {}
  /\ pc = "prepare" => next <= started /\ committed < started

\* What each call's stage is, by its place in the model's order.
StageInv ==
  /\ pc \notin Over => \A c \in Call :
       /\ c > started => stage[c] = "waiting"
       /\ c <= committed => stage[c] = "settled"
  /\ pc \in InGroup => \A c \in Call : c > committed /\ c <= started =>
       stage[c] \in IF pc = "prepare" /\ c = started THEN {"preparing"}
                    ELSE {"dispatched", "executing", "settled", "broken"}
  /\ pc = "fill" /\ committed < started => stage[committed + 1] # "settled"
  /\ \A c \in Call : stage[c] = "broken" => failed
  /\ pc \in {"classify", "fill"} => ~failed
  /\ pc = "fill" /\ signal => aborted

\* Dispatches that run are in flight, and the pool has room for what starts.
PoolInv ==
  /\ Running \subseteq inFlight
  /\ pc \notin Over => inFlight \subseteq next .. started
  /\ pc \in Over => Running = {}
  /\ mode = "exclusive" /\ pc # "classify" => inFlight \subseteq {next}
  /\ Cardinality(inFlight) <= MaxParallel
  /\ pc = "prepare" => Cardinality(inFlight) < MaxParallel

\* The log: one result per committed call, in order, and no code that denies
\* an invocation that happened.
LogInv ==
  /\ ResultsInModelOrder
  /\ Len(results) <= Calls
  /\ pc \notin Over => Len(results) = committed
  /\ pc = "returned" => Len(results) = Calls
  /\ StepAnswersEveryCall
  /\ \A c \in invoked : stage[c] \in {"executing", "settled", "broken"}
  /\ \A c \in Call : stage[c] = "settled" /\ outcome[c] = "abortedBefore" => c \notin invoked
  /\ \A c \in Call : stage[c] = "settled" /\ outcome[c] = "aborted" => c \in invoked
  /\ pc \in Over => \A c \in Call : c > started => c \notin invoked
  /\ NotStartedIsTrue

-----------------------------------------------------------------------------
(* The log.                                                                  *)

Record == [call : Call, code : Code]

\* Appending a block of records appends each of them.
LEMMA AppendAll ==
  ASSUME NEW R, NEW s \in Seq(R), NEW n \in Nat, NEW t \in [1 .. n -> R]
  PROVE  /\ s \o t \in Seq(R)
         /\ Len(s \o t) = Len(s) + n
         /\ \A i \in 1 .. Len(s) : (s \o t)[i] = s[i]
         /\ \A i \in 1 .. n : (s \o t)[Len(s) + i] = t[i]
<1>1. t \in Seq(R) /\ Len(t) = n
  BY SeqDef, LenProperties
<1>2. Len(s) \in Nat
  BY LenProperties
<1>3. /\ s \o t \in Seq(R) /\ Len(s \o t) = Len(s) + n
      /\ \A i \in 1 .. Len(s) + n : (s \o t)[i] = IF i <= Len(s) THEN s[i] ELSE t[i - Len(s)]
  BY <1>1, ConcatProperties
<1>4. \A i \in 1 .. n : /\ Len(s) + i \in 1 .. Len(s) + n /\ ~(Len(s) + i <= Len(s))
                       /\ (Len(s) + i) - Len(s) = i
  BY <1>2
<1>5. \A i \in 1 .. Len(s) : i \in 1 .. Len(s) + n /\ i <= Len(s)
  BY <1>2
<1>. QED
  BY <1>3, <1>4, <1>5

\* s answers calls that the log has not answered yet, in model order.
Extends(s) ==
  /\ s \in Seq(Record)
  /\ Len(s) \in Len(results) .. Calls
  /\ \A i \in 1 .. Len(results) : s[i] = results[i]
  /\ \A i \in Len(results) + 1 .. Len(s) : s[i].call = i

\* Answering the first n unanswered calls extends the log.
LEMMA Answering ==
  ASSUME TypeOK, Len(results) <= Calls, NEW n \in 0 .. Calls - Len(results),
         NEW t \in [1 .. n -> Record], \A i \in 1 .. n : t[i].call = Unanswered[i]
  PROVE  /\ Extends(results \o t)
         /\ Len(results \o t) = Len(results) + n
         /\ \A i \in Len(results) + 1 .. Len(results) + n :
              (results \o t)[i] = t[i - Len(results)]
<1>1. results \in Seq(Record) /\ Len(results) \in Nat /\ n \in Nat /\ Calls \in Nat
  BY LenProperties, CallsAssumption DEF TypeOK, Record
<1>2. /\ results \o t \in Seq(Record)
      /\ Len(results \o t) = Len(results) + n
      /\ \A i \in 1 .. Len(results) : (results \o t)[i] = results[i]
      /\ \A i \in 1 .. n : (results \o t)[Len(results) + i] = t[i]
  BY <1>1, AppendAll
<1>3. \A i \in 1 .. n : Unanswered[i] = Len(results) + i
  BY <1>1 DEF Unanswered
<1>4. \A i \in Len(results) + 1 .. Len(results) + n :
        i - Len(results) \in 1 .. n /\ Len(results) + (i - Len(results)) = i
  BY <1>1
<1>5. \A i \in Len(results) + 1 .. Len(results) + n :
        (results \o t)[i] = t[i - Len(results)] /\ t[i - Len(results)].call = i
  BY <1>2, <1>3, <1>4
<1>6. Len(results) + n \in Len(results) .. Calls
  BY <1>1
<1>. QED
  BY <1>2, <1>5, <1>6 DEF Extends

\* Skipping extends the log with calls that it reports as not dispatched.
LEMMA Skipping ==
  ASSUME TypeOK, Len(results) <= Calls, SkipAll \/ SkipFails
  PROVE  /\ Extends(results')
         /\ \A i \in Len(results) + 1 .. Len(results') : results'[i].code = "abortedBefore"
         /\ SkipAll => Len(results') = Calls
<1>1. Len(results) \in Nat /\ Calls \in Nat
  BY LenProperties, CallsAssumption DEF TypeOK
<1>2. ASSUME NEW n \in 0 .. Calls - Len(results),
             results' = results \o [i \in 1 .. n |-> Result(Unanswered[i], "abortedBefore")]
      PROVE  /\ Extends(results') /\ Len(results') = Len(results) + n
             /\ \A i \in Len(results) + 1 .. Len(results') : results'[i].code = "abortedBefore"
  <2>. DEFINE t == [i \in 1 .. n |-> Result(Unanswered[i], "abortedBefore")]
  <2>1. \A i \in 1 .. n : Unanswered[i] \in Call
    BY <1>1 DEF Unanswered, Call
  <2>2. t \in [1 .. n -> Record] /\ \A i \in 1 .. n : t[i].call = Unanswered[i]
    BY <2>1 DEF Record, Result, Code, Slot
  <2>3. \A i \in 1 .. n : t[i].code = "abortedBefore"
    BY DEF Result
  <2>4. results' = results \o t
    BY <1>2
  <2>. HIDE DEF t
  <2>5. /\ Extends(results \o t) /\ Len(results \o t) = Len(results) + n
        /\ \A i \in Len(results) + 1 .. Len(results) + n :
             (results \o t)[i] = t[i - Len(results)]
    BY <2>2, Answering
  <2>6. \A i \in Len(results) + 1 .. Len(results) + n : i - Len(results) \in 1 .. n
    BY <1>1
  <2>. QED
    BY <2>3, <2>4, <2>5, <2>6
<1>3. CASE SkipAll
  <2>1. DOMAIN Unanswered = 1 .. Calls - Len(results)
    BY DEF Unanswered
  <2>2. results' = results \o [i \in 1 .. Calls - Len(results)
                                |-> Result(Unanswered[i], "abortedBefore")]
    BY <1>3, <2>1 DEF SkipAll
  <2>3. Calls - Len(results) \in 0 .. Calls - Len(results)
    BY <1>1
  <2>4. /\ Extends(results') /\ Len(results') = Len(results) + (Calls - Len(results))
        /\ \A i \in Len(results) + 1 .. Len(results') : results'[i].code = "abortedBefore"
    BY <1>2, <2>2, <2>3
  <2>. QED
    BY <1>1, <2>4
<1>4. CASE SkipFails /\ ~SkipAll
  <2>1. PICK n \in 0 .. Calls - Len(results) - 1 :
          results' = results \o [i \in 1 .. n |-> Result(Unanswered[i], "abortedBefore")]
    BY <1>4 DEF SkipFails
  <2>2. n \in 0 .. Calls - Len(results)
    BY <1>1
  <2>. QED
    BY <1>2, <1>4, <2>1, <2>2
<1>. QED
  BY <1>3, <1>4

\* Recovery extends the log, and denies no call that has a tool/call event.
LEMMA Recovering ==
  ASSUME TypeOK, Len(results) <= Calls, Recover
  PROVE  /\ Extends(results')
         /\ \A i \in Len(results) + 1 .. Len(results') :
              \/ results'[i].code = "notStarted" /\ i > started
              \/ results'[i].code = "unknown" /\ i <= started
         /\ ~unrecorded' => Len(results') = Calls
<1>1. Len(results) \in Nat /\ Calls \in Nat
  BY LenProperties, CallsAssumption DEF TypeOK
<1>2. PICK n \in 0 .. Calls - Len(results) :
        /\ results' = results \o [i \in 1 .. n |-> Recovered(Unanswered[i])]
        /\ unrecorded' = (n < Calls - Len(results))
  BY DEF Recover
<1>. DEFINE t == [i \in 1 .. n |-> Recovered(Unanswered[i])]
<1>3. \A i \in 1 .. n : Unanswered[i] \in Call /\ Unanswered[i] = Len(results) + i
  BY <1>1 DEF Unanswered, Call
<1>4. t \in [1 .. n -> Record] /\ \A i \in 1 .. n : t[i].call = Unanswered[i]
  BY <1>3 DEF Record, Recovered, Result, Code
<1>5. \A i \in 1 .. n :
        \/ t[i].code = "notStarted" /\ ~(Unanswered[i] <= started)
        \/ t[i].code = "unknown" /\ Unanswered[i] <= started
  BY DEF Recovered, Result
<1>6. results' = results \o t
  BY <1>2
<1>. HIDE DEF t
<1>7. /\ Extends(results \o t) /\ Len(results \o t) = Len(results) + n
      /\ \A i \in Len(results) + 1 .. Len(results) + n :
           (results \o t)[i] = t[i - Len(results)]
  BY <1>4, Answering
<1>8. \A i \in Len(results) + 1 .. Len(results) + n :
        i - Len(results) \in 1 .. n /\ Unanswered[i - Len(results)] = i
  BY <1>1, <1>3
<1>9. \A i \in Len(results) + 1 .. Len(results) + n :
        \/ t[i - Len(results)].code = "notStarted" /\ i > started
        \/ t[i - Len(results)].code = "unknown" /\ i <= started
  BY <1>1, <1>5, <1>8 DEF TypeOK
<1>10. ~unrecorded' => Len(results) + n = Calls
  <2>1. ~(n < Calls - Len(results)) => Len(results) + n = Calls
    BY <1>1
  <2>2. ~unrecorded' => ~(n < Calls - Len(results))
    BY <1>2, Zenon
  <2>. QED
    BY <2>1, <2>2
<1>. QED
  BY <1>6, <1>7, <1>9, <1>10

-----------------------------------------------------------------------------
(* Types and counters.                                                       *)

IInv == TypeOK /\ CountInv /\ StageInv /\ PoolInv /\ LogInv

\* When nothing is in flight and nothing is ready, everything is committed.
LEMMA FilledWhole ==
  ASSUME IInv, pc = "fill", inFlight = {}
  PROVE  committed = started /\ Len(results) = started
<1>. USE DEF IInv, TypeOK
<1>1. Len(results) = committed /\ committed <= started /\ started <= Calls
  BY DEF LogInv, CountInv, Over, InGroup
<1>2. SUFFICES ASSUME committed < started PROVE FALSE
  BY <1>1
<1>3. committed + 1 \in Call /\ committed + 1 > committed /\ committed + 1 <= started
  BY <1>1, <1>2, CallsAssumption DEF Call
<1>4. stage[committed + 1] \in {"dispatched", "executing"}
  BY <1>2, <1>3 DEF StageInv, InGroup
<1>. QED
  BY <1>3, <1>4 DEF PoolInv, Running

\* Where a group ends or goes on.
LEMMA EndFillCases ==
  ASSUME IInv, EndFill
  PROVE  \/ inFlight # {} /\ pc' = "race" /\ UNCHANGED <<next, started, results>>
         \/ /\ inFlight = {} /\ aborted /\ UNCHANGED next
            /\ started' \in started .. Calls
            /\ (SkipAll /\ pc' = "returned") \/ (SkipFails /\ pc' = "rejected")
         \/ /\ inFlight = {} /\ ~aborted /\ next' = started + 1 /\ pc' = "classify"
            /\ UNCHANGED <<started, results>>
<1>. USE CallsAssumption DEF TypeOK, IInv
<1>1. inFlight = {} => Len(results) = started
  BY FilledWhole DEF EndFill
<1>2. inFlight = {} /\ SkipFails => started' \in started .. Calls
  <2>1. ASSUME Len(results) = started, NEW n \in 0 .. Calls - Len(results) - 1,
               started' \in {started + n, started + n + 1}
        PROVE  started' \in started .. Calls
    BY <2>1
  <2>. QED
    BY <1>1, <2>1 DEF SkipFails
<1>3. SkipAll => started' \in started .. Calls
  BY DEF SkipAll
<1>4. /\ SkipAll => pc' = "returned"
      /\ SkipFails => pc' = "rejected"
  BY DEF SkipAll, SkipFails
<1>. QED
  BY <1>2, <1>3, <1>4 DEF EndFill

\* Every step keeps the state well typed.
LEMMA TypeStep == IInv /\ [Next]_vars => TypeOK'
<1>. SUFFICES ASSUME IInv, [Next]_vars
              PROVE  TypeOK'
  OBVIOUS
<1>. USE CallsAssumption DEF TypeOK, group, counters, pipeline
<1>0. TypeOK /\ Len(results) <= Calls
  BY DEF IInv, LogInv
<1>a. \A s : Extends(s) => s \in Seq([call : Call, code : Code])
  BY DEF Extends, Record
<1>1. CASE Classify \/ ClassifyFails
  BY <1>0, <1>1 DEF Classify, ClassifyFails
<1>2. CASE StartCall \/ StartFails
  <2>1. pc = "fill" => groupEnd <= Calls
    BY <1>0 DEF IInv, CountInv, InGroup, groupEnd
  <2>2. HasRoom /\ pc = "fill" => started + 1 \in 0 .. Calls
    BY <1>0, <2>1 DEF HasRoom, groupEnd
  <2>. QED
    BY <1>0, <1>2, <2>2 DEF StartCall, StartFails, Throw
<1>3. CASE EndFill
  <2>1. results' \in Seq([call : Call, code : Code])
    BY <1>0, <1>a, <1>3, EndFillCases, Skipping
  <2>2. started' \in 0 .. Calls /\ next' \in 1 .. Calls + 1
    BY <1>0, <1>3, EndFillCases
  <2>3. pc' \in {"race", "returned", "rejected", "classify"}
    BY <1>3, EndFillCases
  <2>. QED
    BY <1>0, <1>3, <2>1, <2>2, <2>3 DEF EndFill
<1>4. CASE PrepareDispatches \/ PrepareRefuses \/ PrepareThrows
  <2>1. pc = "prepare" => started \in Call
    BY <1>0 DEF IInv, CountInv, Call
  <2>. QED
    BY <1>0, <1>4, <2>1
    DEF PrepareDispatches, PrepareRefuses, PrepareThrows, Throw, Slot
<1>5. CASE Commit
  <2>1. PICK c \in Call, o \in Slot :
          Ready(c) /\ results' = Append(results, Result(c, Cancelled(c, o)))
    BY <1>5 DEF Commit
  <2>2. Result(c, Cancelled(c, o)) \in [call : Call, code : Code]
    BY DEF Result, Cancelled, Code, Slot
  <2>3. results' \in Seq([call : Call, code : Code])
    BY <1>0, <2>1, <2>2, AppendProperties
  <2>4. committed' \in 0 .. Calls
    BY <1>0, <1>5, <2>1 DEF Ready, Call, Commit
  <2>. QED
    BY <1>0, <1>5, <2>3, <2>4 DEF Commit
<1>6. CASE CommitFails \/ CommitDone \/ Race \/ Drain \/ EndStep
  BY <1>0, <1>6 DEF CommitFails, CommitDone, Race, Drain, EndStep, Throw
<1>7. CASE Recover
  <2>1. results' \in Seq([call : Call, code : Code])
    BY <1>0, <1>a, <1>7, Recovering
  <2>2. unrecorded' \in BOOLEAN
    BY <1>7 DEF Recover
  <2>. QED
    BY <1>0, <1>7, <2>1, <2>2 DEF Recover
<1>8. CASE Abort
  BY <1>0, <1>8 DEF Abort
<1>9. CASE \E c \in Call : InvokeBody(c) \/ SettleDispatch(c) \/ BreakDispatch(c)
  <2>1. ASSUME NEW c \in Call, InvokeBody(c) PROVE TypeOK'
    BY <1>0, <2>1 DEF InvokeBody
  <2>2. ASSUME NEW c \in Call, SettleDispatch(c) PROVE TypeOK'
    <3>1. PICK o \in Slot : outcome' = [outcome EXCEPT ![c] = Cancelled(c, o)]
      BY <2>2 DEF SettleDispatch, Slot
    <3>2. Cancelled(c, o) \in Slot
      BY DEF Cancelled, Slot
    <3>. QED
      BY <1>0, <2>2, <3>1, <3>2 DEF SettleDispatch
  <2>3. ASSUME NEW c \in Call, BreakDispatch(c) PROVE TypeOK'
    BY <1>0, <2>3 DEF BreakDispatch
  <2>. QED
    BY <1>9, <2>1, <2>2, <2>3
<1>10. CASE UNCHANGED vars
  BY <1>0, <1>10 DEF vars
<1>. QED
  BY <1>1, <1>2, <1>3, <1>4, <1>5, <1>6, <1>7, <1>8, <1>9, <1>10
  DEF Next, Scheduler, Settle, Finished

\* Every step keeps the counters in order.
LEMMA CountStep == IInv /\ [Next]_vars => CountInv'
<1>. SUFFICES ASSUME IInv, [Next]_vars
              PROVE  CountInv'
  OBVIOUS
<1>. USE CallsAssumption DEF CountInv, Over, InGroup, group, counters, pipeline
<1>0. TypeOK /\ CountInv
  BY DEF IInv
<1>. USE DEF TypeOK
<1>1. CASE Classify \/ ClassifyFails
  BY <1>0, <1>1 DEF Classify, ClassifyFails, groupEnd
<1>2. CASE StartCall \/ StartFails
  BY <1>0, <1>2 DEF StartCall, StartFails, Throw, HasRoom, groupEnd
<1>3. CASE EndFill
  <2>1. inFlight = {} => committed = started
    BY <1>3, FilledWhole DEF EndFill
  <2>. QED
    BY <1>0, <1>3, <2>1, EndFillCases DEF EndFill, groupEnd
<1>4. CASE PrepareDispatches \/ PrepareRefuses \/ PrepareThrows
  BY <1>0, <1>4 DEF PrepareDispatches, PrepareRefuses, PrepareThrows, Throw, groupEnd
<1>5. CASE Commit
  <2>1. committed + 1 \in Call /\ stage[committed + 1] = "settled"
    BY <1>5 DEF Commit, Ready
  <2>2. ~(committed + 1 > started)
    BY <1>5, <2>1 DEF Commit, IInv, StageInv
  <2>. QED
    BY <1>0, <1>5, <2>2 DEF Commit, groupEnd
<1>6. CASE CommitFails \/ CommitDone \/ Race \/ Drain \/ EndStep \/ Recover
  BY <1>0, <1>6 DEF CommitFails, CommitDone, Race, Drain, EndStep, Recover, Throw, groupEnd
<1>7. CASE Abort \/ \E c \in Call : InvokeBody(c) \/ SettleDispatch(c) \/ BreakDispatch(c)
  BY <1>0, <1>7 DEF Abort, InvokeBody, SettleDispatch, BreakDispatch, groupEnd
<1>8. CASE UNCHANGED vars
  BY <1>0, <1>8 DEF vars, groupEnd
<1>. QED
  BY <1>1, <1>2, <1>3, <1>4, <1>5, <1>6, <1>7, <1>8 DEF Next, Scheduler, Settle, Finished

-----------------------------------------------------------------------------
(* Stages.                                                                   *)

\* Every step keeps the stages in place.
LEMMA StageStep == IInv /\ [Next]_vars => StageInv'
<1>. SUFFICES ASSUME IInv, [Next]_vars
              PROVE  StageInv'
  OBVIOUS
<1>. USE CallsAssumption DEF Over, InGroup, group, counters, pipeline
<1>0. /\ StageInv /\ CountInv
      /\ stage \in [Call -> {"waiting", "preparing", "dispatched", "executing",
                             "settled", "broken"}]
      /\ started \in 0 .. Calls /\ committed \in 0 .. Calls /\ next \in 1 .. Calls + 1
      /\ mode \in {"parallel", "exclusive"}
      /\ Call = 1 .. Calls
  BY DEF IInv, TypeOK, Call
<1>1. CASE Classify \/ ClassifyFails
  BY <1>0, <1>1 DEF Classify, ClassifyFails, StageInv, CountInv
<1>2. CASE StartCall
  BY <1>0, <1>2 DEF StartCall, HasRoom, StageInv, CountInv, groupEnd
<1>3. CASE StartFails
  BY <1>0, <1>3 DEF StartFails, Throw, StageInv
<1>4. CASE EndFill
  <2>1. inFlight = {} => committed = started
    BY <1>4, FilledWhole DEF EndFill
  <2>. QED
    BY <1>0, <1>4, <2>1, EndFillCases DEF EndFill, StageInv
<1>5. CASE PrepareDispatches
  BY <1>0, <1>5 DEF PrepareDispatches, StageInv, CountInv
<1>6. CASE PrepareRefuses
  BY <1>0, <1>6 DEF PrepareRefuses, StageInv, CountInv
<1>7. CASE PrepareThrows \/ CommitFails \/ Race \/ Drain
  BY <1>0, <1>7 DEF PrepareThrows, CommitFails, Race, Drain, Throw, StageInv
<1>8. CASE Commit
  <2>1. committed + 1 \in Call /\ stage[committed + 1] = "settled" /\ pc = "commit"
    BY <1>8 DEF Commit, Ready
  <2>2. \A c \in Call : c <= committed + 1 => c <= committed \/ c = committed + 1
    BY <1>0
  <2>3. \A c \in Call : c <= committed + 1 => stage[c] = "settled"
    BY <1>0, <2>1, <2>2 DEF StageInv
  <2>4. \A c \in Call : c > committed + 1 => c > committed
    BY <1>0
  <2>5. /\ UNCHANGED <<pc, started, stage, signal, aborted, failed>>
        /\ committed' = committed + 1
    BY <1>8 DEF Commit
  <2>. QED
    BY <1>0, <2>1, <2>3, <2>4, <2>5 DEF StageInv
<1>9. CASE CommitDone
  <2>1. /\ pc = "commit" /\ pc' \in {"drain", "fill"}
        /\ UNCHANGED <<started, committed, stage, signal, failed>>
        /\ failed => pc' = "drain"
    BY <1>9 DEF CommitDone
  <2>2. pc' = "fill" => ~failed /\ aborted' = (aborted \/ signal)
    BY <1>9 DEF CommitDone
  <2>3. committed < started => stage[committed + 1] # "settled"
    <3>1. committed < started => committed + 1 \in Call
      BY <1>0
    <3>. QED
      BY <1>9, <3>1 DEF CommitDone, Ready
  <2>4. pc' = "fill" /\ signal' => aborted'
    BY <2>1, <2>2, Zenon
  <2>. QED
    BY <1>0, <2>1, <2>2, <2>3, <2>4 DEF StageInv
<1>10. CASE Recover \/ EndStep \/ Abort
  BY <1>0, <1>10 DEF Recover, EndStep, Abort, Awaiting, StageInv
<1>11. CASE \E c \in Call : InvokeBody(c) \/ SettleDispatch(c) \/ BreakDispatch(c)
  <2>1. ASSUME NEW c \in Call, InvokeBody(c) PROVE StageInv'
    BY <1>0, <2>1 DEF InvokeBody, Awaiting, StageInv
  <2>2. ASSUME NEW c \in Call, SettleDispatch(c) PROVE StageInv'
    BY <1>0, <2>2 DEF SettleDispatch, Awaiting, StageInv
  <2>3. ASSUME NEW c \in Call, BreakDispatch(c) PROVE StageInv'
    BY <1>0, <2>3 DEF BreakDispatch, Awaiting, StageInv
  <2>. QED
    BY <1>11, <2>1, <2>2, <2>3
<1>12. CASE UNCHANGED vars
  BY <1>0, <1>12 DEF vars, StageInv
<1>. QED
  BY <1>1, <1>2, <1>3, <1>4, <1>5, <1>6, <1>7, <1>8, <1>9, <1>10, <1>11, <1>12
  DEF Next, Scheduler, Settle, Finished

-----------------------------------------------------------------------------
(* The pool.                                                                 *)

\* Every step keeps the pool within its bound.
LEMMA PoolStep == IInv /\ [Next]_vars => PoolInv'
<1>. SUFFICES ASSUME IInv, [Next]_vars
              PROVE  PoolInv'
  OBVIOUS
<1>. USE CallsAssumption DEF Over, InGroup, group, counters, pipeline
<1>0. /\ StageInv /\ CountInv /\ PoolInv
      /\ stage \in [Call -> {"waiting", "preparing", "dispatched", "executing",
                             "settled", "broken"}]
      /\ started \in 0 .. Calls /\ committed \in 0 .. Calls /\ next \in 1 .. Calls + 1
      /\ mode \in {"parallel", "exclusive"}
      /\ Call = 1 .. Calls /\ inFlight \subseteq Call
  BY DEF IInv, TypeOK, Call
<1>f. IsFiniteSet(inFlight) /\ Cardinality(inFlight) \in Nat
  <2>1. IsFiniteSet(Call)
    BY FS_Interval DEF Call
  <2>. QED
    BY <1>0, <2>1, FS_Subset, FS_CardinalityType
<1>m. MaxParallel \in Nat \ {0}
  BY MaxParallelAssumption
<1>e. Cardinality({}) = 0
  BY FS_EmptySet
<1>a. UNCHANGED <<stage, inFlight, next, mode, started>> /\ pc \notin Over \cup {"classify"}
        /\ pc' \notin Over \cup {"prepare", "classify"} => PoolInv'
  BY <1>0 DEF PoolInv, Running
<1>1. CASE Classify \/ ClassifyFails
  BY <1>0, <1>1, <1>e, <1>m DEF Classify, ClassifyFails, PoolInv, CountInv, Running
<1>2. CASE StartCall
  BY <1>0, <1>2 DEF StartCall, HasRoom, PoolInv, CountInv, Running, groupEnd
<1>3. CASE StartFails \/ PrepareThrows \/ CommitFails \/ CommitDone \/ Commit
  BY <1>3, <1>a DEF StartFails, PrepareThrows, CommitFails, CommitDone, Commit, Throw
<1>4. CASE EndFill
  BY <1>0, <1>4, <1>e, <1>m, EndFillCases DEF EndFill, PoolInv, Running
<1>5. CASE PrepareDispatches
  <2>1. started \in Call /\ next <= started
    BY <1>0, <1>5 DEF PrepareDispatches, CountInv
  <2>f. Cardinality(inFlight \cup {started})
          = IF started \in inFlight THEN Cardinality(inFlight) ELSE Cardinality(inFlight) + 1
    BY <1>f, FS_AddElement
  <2>2. Cardinality(inFlight \cup {started}) <= Cardinality(inFlight) + 1
    BY <1>f, <2>f
  <2>3. Cardinality(inFlight) + 1 <= MaxParallel
    BY <1>0, <1>5, <1>f, <1>m DEF PrepareDispatches, PoolInv
  <2>4. Cardinality(inFlight') <= MaxParallel
    <3>1. inFlight' = inFlight \cup {started}
      BY <1>5 DEF PrepareDispatches
    <3>2. Cardinality(inFlight \cup {started}) \in Nat
      BY <1>f, <2>f
    <3>. QED
      BY <1>f, <1>m, <2>2, <2>3, <3>1, <3>2
  <2>5. mode = "exclusive" => started = next
    BY <1>0, <1>5, <2>1 DEF PrepareDispatches, CountInv, groupEnd
  <2>. QED
    BY <1>0, <1>5, <2>1, <2>4, <2>5 DEF PrepareDispatches, PoolInv, Running
<1>6. CASE PrepareRefuses
  BY <1>0, <1>6 DEF PrepareRefuses, PoolInv, Running
<1>7. CASE Race
  <2>1. PICK c \in inFlight : stage[c] \in Collected /\ inFlight' = inFlight \ {c}
    BY <1>7 DEF Race
  <2>f. Cardinality(inFlight \ {c})
          = IF c \in inFlight THEN Cardinality(inFlight) - 1 ELSE Cardinality(inFlight)
    BY <1>f, FS_RemoveElement
  <2>b. Cardinality(inFlight) <= MaxParallel
    BY <1>0 DEF PoolInv
  <2>2. Cardinality(inFlight') <= MaxParallel
    BY <1>f, <1>m, <2>1, <2>f, <2>b
  <2>. QED
    BY <1>0, <1>7, <2>1, <2>2 DEF Race, PoolInv, Running, Collected
<1>8. CASE Drain
  BY <1>0, <1>8 DEF Drain, PoolInv, Running, Collected
<1>9. CASE Recover \/ EndStep \/ Abort
  BY <1>0, <1>9 DEF Recover, EndStep, Abort, Awaiting, PoolInv, Running
<1>10. CASE \E c \in Call : InvokeBody(c) \/ SettleDispatch(c) \/ BreakDispatch(c)
  <2>1. UNCHANGED <<pc, inFlight, next, mode, started>> /\ Running' \subseteq Running => PoolInv'
    BY <1>0 DEF PoolInv
  <2>2. ASSUME NEW c \in Call, InvokeBody(c) PROVE PoolInv'
    BY <1>0, <2>1, <2>2 DEF InvokeBody, Running
  <2>3. ASSUME NEW c \in Call, SettleDispatch(c) PROVE PoolInv'
    BY <1>0, <2>1, <2>3 DEF SettleDispatch, Running
  <2>4. ASSUME NEW c \in Call, BreakDispatch(c) PROVE PoolInv'
    BY <1>0, <2>1, <2>4 DEF BreakDispatch, Running
  <2>. QED
    BY <1>10, <2>2, <2>3, <2>4
<1>11. CASE UNCHANGED vars
  BY <1>0, <1>11 DEF vars, PoolInv, Running
<1>. QED
  BY <1>1, <1>2, <1>3, <1>4, <1>5, <1>6, <1>7, <1>8, <1>9, <1>10, <1>11
  DEF Next, Scheduler, Settle, Finished

-----------------------------------------------------------------------------
(* The log.                                                                  *)

\* A log extended in order by calls that are truly reported keeps both.
LEMMA ExtendedLog ==
  ASSUME TypeOK, TypeOK', LogInv, Extends(results'), UNCHANGED invoked,
         started' \in started .. Calls,
         \A i \in Len(results) + 1 .. Len(results') :
           /\ results'[i].code \in {"abortedBefore", "notStarted"} => i \notin invoked
           /\ results'[i].code = "aborted" => i \in invoked
           /\ results'[i].code = "unknown" => i <= started'
  PROVE  ResultsInModelOrder' /\ NotStartedIsTrue' /\ Len(results') <= Calls
<1>1. /\ Len(results) \in Nat /\ Len(results') \in Nat /\ Calls \in Nat
      /\ DOMAIN results = 1 .. Len(results) /\ DOMAIN results' = 1 .. Len(results')
  BY LenProperties, CallsAssumption DEF TypeOK
<1>2. \A i \in DOMAIN results' : i \in DOMAIN results \/ i \in Len(results) + 1 .. Len(results')
  BY <1>1
<1>3. \A i \in DOMAIN results' : results'[i].call = i
  BY <1>1, <1>2 DEF LogInv, ResultsInModelOrder, Extends
<1>c. started \in 0 .. Calls /\ \A i \in DOMAIN results : results[i].call = i
  <2>1. started \in 0 .. Calls
    BY DEF TypeOK, counters
  <2>. QED
    BY <2>1 DEF LogInv, ResultsInModelOrder
<1>4. ASSUME NEW i \in DOMAIN results'
      PROVE  /\ results'[i].code \in {"abortedBefore", "notStarted"} => i \notin invoked
             /\ results'[i].code = "aborted" => i \in invoked
             /\ results'[i].code = "unknown" => i <= started'
  <2>1. CASE i \in DOMAIN results
    <3>1. results'[i] = results[i] /\ results[i].call = i
      BY <1>1, <1>c, <2>1 DEF Extends
    <3>2. /\ results[i].code \in {"abortedBefore", "notStarted"} => i \notin invoked
          /\ results[i].code = "aborted" => i \in invoked
          /\ results[i].code = "unknown" => i <= started
      BY <2>1, <3>1 DEF LogInv, NotStartedIsTrue
    <3>3. i <= started => i <= started'
      BY <1>1, <1>c, <2>1
    <3>. QED
      BY <3>1, <3>2, <3>3
  <2>2. CASE i \in Len(results) + 1 .. Len(results')
    BY <2>2
  <2>. QED
    BY <1>2, <2>1, <2>2
<1>. QED
  BY <1>1, <1>3, <1>4 DEF ResultsInModelOrder, NotStartedIsTrue, Extends

\* Every step keeps the log.
LEMMA LogStep == IInv /\ [Next]_vars => LogInv'
<1>. SUFFICES ASSUME IInv, [Next]_vars
              PROVE  LogInv'
  OBVIOUS
<1>. USE CallsAssumption DEF Over, InGroup, group, counters, pipeline
<1>t. TypeOK'
  BY TypeStep
<1>0. /\ StageInv /\ CountInv /\ LogInv /\ TypeOK
      /\ stage \in [Call -> {"waiting", "preparing", "dispatched", "executing",
                             "settled", "broken"}]
      /\ outcome \in [Call -> Slot]
      /\ started \in 0 .. Calls /\ committed \in 0 .. Calls /\ next \in 1 .. Calls + 1
      /\ Call = 1 .. Calls /\ invoked \subseteq Call
  BY DEF IInv, TypeOK, Call
<1>l. Len(results) \in Nat /\ Len(results) <= Calls
  BY <1>0, LenProperties DEF TypeOK, LogInv
<1>n. started \in Nat /\ \A i \in DOMAIN results : results[i].call \in Nat
  BY <1>0, <1>l, LenProperties DEF TypeOK, LogInv, ResultsInModelOrder
<1>s. started \in started .. Calls
  BY <1>0
<1>a. /\ UNCHANGED <<results, committed, invoked, stage, outcome>>
      /\ started' \in started .. Calls /\ pc \notin Over /\ pc' \notin Over
      => LogInv'
  BY <1>0, <1>n DEF LogInv, ResultsInModelOrder, StepAnswersEveryCall, NotStartedIsTrue
<1>b. pc \notin Over => \A c \in Call : c > started => c \notin invoked
  BY <1>0 DEF StageInv, LogInv
<1>c. /\ UNCHANGED <<results, started, invoked, stage, outcome>>
      /\ pc \notin Over /\ pc' = "rejected"
      => LogInv'
  BY <1>0, <1>b DEF LogInv, ResultsInModelOrder, StepAnswersEveryCall, NotStartedIsTrue
<1>1. CASE Classify
  <2>1. pc = "classify" /\ next > Calls => Len(results) = Calls
    BY <1>0, <1>l DEF CountInv, LogInv
  <2>2. CASE next > Calls
    BY <1>0, <1>1, <1>b, <2>1, <2>2
    DEF Classify, LogInv, ResultsInModelOrder, StepAnswersEveryCall, NotStartedIsTrue
  <2>3. CASE ~(next > Calls)
    BY <1>1, <1>a, <1>s, <2>3 DEF Classify
  <2>. QED
    BY <2>2, <2>3
<1>2. CASE ClassifyFails \/ Drain
  BY <1>2, <1>c DEF ClassifyFails, Drain
<1>3. CASE StartCall
  <2>1. pc = "fill" /\ started + 1 \in Call /\ started + 1 \notin invoked
    BY <1>0, <1>3, <1>b DEF StartCall, HasRoom, groupEnd, CountInv
  <2>2. NotStartedIsTrue'
    BY <1>0, <1>3, <1>n DEF StartCall, LogInv, NotStartedIsTrue
  <2>. QED
    BY <1>0, <1>3, <2>1, <2>2
    DEF StartCall, LogInv, ResultsInModelOrder, StepAnswersEveryCall
<1>4. CASE StartFails \/ PrepareThrows \/ CommitFails \/ CommitDone \/ Race
  BY <1>4, <1>a, <1>s DEF StartFails, PrepareThrows, CommitFails, CommitDone, Race, Throw
<1>5. CASE EndFill
  <2>1. CASE pc' \notin Over
    BY <1>5, <1>a, <1>s, <2>1, EndFillCases DEF EndFill, SkipAll, SkipFails
  <2>2. CASE pc' \in Over
    <3>1. /\ inFlight = {} /\ started' \in started .. Calls
          /\ (SkipAll /\ pc' = "returned") \/ (SkipFails /\ pc' = "rejected")
      BY <1>5, <2>2, EndFillCases
    <3>2. Len(results) = started
      BY <1>5, <3>1, FilledWhole DEF EndFill
    <3>3. /\ Extends(results')
          /\ \A i \in Len(results) + 1 .. Len(results') : results'[i].code = "abortedBefore"
          /\ SkipAll => Len(results') = Calls
      BY <1>0, <1>l, <3>1, Skipping
    <3>4. pc = "fill" /\ UNCHANGED <<invoked, stage, outcome>>
      BY <1>5 DEF EndFill
    <3>5. \A i \in Len(results) + 1 .. Len(results') : i \in Call /\ i > started
      BY <1>0, <1>l, <3>2, <3>3 DEF Extends
    <3>6. \A i \in Len(results) + 1 .. Len(results') :
             i \notin invoked /\ results'[i].code \notin {"aborted", "unknown"}
      BY <1>b, <3>3, <3>4, <3>5
    <3>7. ResultsInModelOrder' /\ NotStartedIsTrue' /\ Len(results') <= Calls
      BY <1>0, <1>t, <3>1, <3>3, <3>4, <3>6, ExtendedLog
    <3>8. \A c \in Call : c > started' => c \notin invoked
      BY <1>0, <1>b, <3>1, <3>4
    <3>. QED
      BY <1>0, <3>1, <3>3, <3>4, <3>7, <3>8 DEF LogInv, StepAnswersEveryCall
  <2>. QED
    BY <2>1, <2>2
<1>6. CASE PrepareDispatches \/ PrepareRefuses
  <2>1. pc = "prepare" /\ started \in Call /\ stage[started] = "preparing"
    BY <1>0, <1>6 DEF PrepareDispatches, PrepareRefuses, CountInv, StageInv
  <2>2. started \notin invoked
    BY <1>0, <2>1 DEF LogInv
  <2>3. /\ UNCHANGED <<results, started, committed, invoked>>
        /\ pc' = "commit"
        /\ \A c \in Call : \/ stage'[c] = stage[c] /\ outcome'[c] = outcome[c]
                           \/ stage'[c] = "dispatched" /\ c = started
                           \/ stage'[c] = "settled" /\ outcome'[c] # "aborted" /\ c = started
    BY <1>0, <1>6, <2>1 DEF PrepareDispatches, PrepareRefuses
  <2>. QED
    BY <1>0, <2>1, <2>2, <2>3
    DEF LogInv, ResultsInModelOrder, StepAnswersEveryCall, NotStartedIsTrue
<1>7. CASE Commit
  <2>1. PICK c \in Call, o \in Slot :
          /\ Ready(c) /\ o \in {outcome[c], "error"}
          /\ results' = Append(results, Result(c, Cancelled(c, o)))
    BY <1>7 DEF Commit
  <2>2. /\ pc = "commit" /\ committed' = committed + 1
        /\ UNCHANGED <<pc, started, stage, outcome, invoked>>
    BY <1>7 DEF Commit
  <2>3. Len(results) = committed /\ c = committed + 1 /\ stage[c] = "settled"
    BY <1>0, <2>1, <2>2 DEF LogInv, Ready
  <2>4. /\ Cancelled(c, o) = "abortedBefore" => c \notin invoked
        /\ Cancelled(c, o) = "aborted" => c \in invoked
    BY <1>0, <2>1, <2>3 DEF LogInv, Cancelled
  <2>5. Cancelled(c, o) \notin {"notStarted", "unknown"}
    BY DEF Cancelled, Slot
  <2>r. Result(c, Cancelled(c, o)) \in Record
    BY DEF Result, Record, Cancelled, Code, Slot
  <2>6. /\ Len(results') = Len(results) + 1
        /\ \A i \in 1 .. Len(results) : results'[i] = results[i]
        /\ results'[Len(results) + 1] = Result(c, Cancelled(c, o))
        /\ results' \in Seq(Record)
    BY <1>0, <2>1, <2>r, AppendProperties DEF TypeOK, Record
  <2>7. Len(results) + 1 \in Len(results) .. Calls
    BY <1>0, <1>l, <2>3
  <2>8. \A i \in Len(results) + 1 .. Len(results') : i = Len(results) + 1 /\ i = c
    BY <1>l, <2>3, <2>6
  <2>9. Extends(results')
    BY <2>6, <2>7, <2>8 DEF Extends, Result
  <2>10. \A i \in Len(results) + 1 .. Len(results') :
           /\ results'[i].code \in {"abortedBefore", "notStarted"} => i \notin invoked
           /\ results'[i].code = "aborted" => i \in invoked
           /\ results'[i].code # "unknown"
    BY <2>4, <2>5, <2>6, <2>8 DEF Result
  <2>11. ResultsInModelOrder' /\ NotStartedIsTrue' /\ Len(results') <= Calls
    BY <1>0, <1>t, <2>2, <2>9, <2>10, ExtendedLog
  <2>. QED
    BY <1>0, <2>2, <2>3, <2>6, <2>11 DEF LogInv, StepAnswersEveryCall
<1>8. CASE Recover
  <2>1. /\ Extends(results')
        /\ \A i \in Len(results) + 1 .. Len(results') :
             \/ results'[i].code = "notStarted" /\ i > started
             \/ results'[i].code = "unknown" /\ i <= started
        /\ ~unrecorded' => Len(results') = Calls
    BY <1>0, <1>l, <1>8, Recovering
  <2>2. /\ pc = "rejected" /\ pc' = "stepEnded"
        /\ UNCHANGED <<started, invoked, stage, outcome>>
    BY <1>8 DEF Recover
  <2>3. \A c \in Call : c > started => c \notin invoked
    BY <1>0, <2>2 DEF LogInv
  <2>4. \A i \in Len(results) + 1 .. Len(results') : i \in Call
    BY <1>0, <1>l, <2>1 DEF Extends
  <2>5. ResultsInModelOrder' /\ NotStartedIsTrue' /\ Len(results') <= Calls
    BY <1>0, <1>t, <2>1, <2>2, <2>3, <2>4, ExtendedLog
  <2>. QED
    BY <1>0, <2>1, <2>2, <2>3, <2>5 DEF LogInv, StepAnswersEveryCall
<1>9. CASE EndStep
  BY <1>0, <1>9
  DEF EndStep, LogInv, ResultsInModelOrder, StepAnswersEveryCall, NotStartedIsTrue
<1>10. CASE Abort
  BY <1>0, <1>10
  DEF Abort, Awaiting, LogInv, ResultsInModelOrder, StepAnswersEveryCall, NotStartedIsTrue
<1>11. ASSUME NEW c \in Call, InvokeBody(c) PROVE LogInv'
  <2>1. pc \notin Over /\ stage[c] = "dispatched"
    BY <1>11 DEF InvokeBody, Awaiting
  <2>2. \A i \in DOMAIN results : results[i].call # c
    <3>1. \A i \in DOMAIN results : i \in Call /\ i <= committed /\ results[i].call = i
      BY <1>0, <1>l, <2>1, LenProperties DEF LogInv, ResultsInModelOrder, TypeOK
    <3>. QED
      BY <1>0, <2>1, <3>1 DEF StageInv
  <2>3. /\ stage' = [stage EXCEPT ![c] = "executing"] /\ invoked' = invoked \cup {c}
        /\ UNCHANGED <<pc, results, committed, started, outcome>>
    BY <1>11 DEF InvokeBody
  <2>4. NotStartedIsTrue'
    BY <1>0, <2>2, <2>3 DEF LogInv, NotStartedIsTrue
  <2>. QED
    BY <1>0, <2>1, <2>3, <2>4 DEF LogInv, ResultsInModelOrder, StepAnswersEveryCall
<1>12. ASSUME NEW c \in Call, SettleDispatch(c) PROVE LogInv'
  <2>1. PICK o \in {"ok", "error", IF c \in invoked THEN "aborted" ELSE "abortedBefore"} :
          outcome' = [outcome EXCEPT ![c] = Cancelled(c, o)]
    BY <1>12 DEF SettleDispatch
  <2>2. /\ Cancelled(c, o) = "abortedBefore" => c \notin invoked
        /\ Cancelled(c, o) = "aborted" => c \in invoked
    BY <2>1 DEF Cancelled
  <2>3. /\ pc \notin Over /\ stage' = [stage EXCEPT ![c] = "settled"]
        /\ UNCHANGED <<pc, results, committed, started, invoked>>
    BY <1>12 DEF SettleDispatch, Awaiting
  <2>. QED
    BY <1>0, <2>1, <2>2, <2>3
    DEF LogInv, ResultsInModelOrder, StepAnswersEveryCall, NotStartedIsTrue
<1>13. ASSUME NEW c \in Call, BreakDispatch(c) PROVE LogInv'
  BY <1>0, <1>13
  DEF BreakDispatch, Awaiting, LogInv, ResultsInModelOrder, StepAnswersEveryCall, NotStartedIsTrue
<1>14. CASE UNCHANGED vars
  BY <1>0, <1>14
  DEF vars, LogInv, ResultsInModelOrder, StepAnswersEveryCall, NotStartedIsTrue
<1>. QED
  BY <1>1, <1>2, <1>3, <1>4, <1>5, <1>6, <1>7, <1>8, <1>9, <1>10, <1>11, <1>12, <1>13, <1>14
  DEF Next, Scheduler, Settle, Finished

-----------------------------------------------------------------------------
(* Theorems.                                                                 *)

\* The invariant holds at the start.
LEMMA InitHolds == Init => IInv
<1>. SUFFICES ASSUME Init PROVE IInv
  OBVIOUS
<1>. USE CallsAssumption, MaxParallelAssumption DEF Init
<1>0. pc = "classify" /\ inFlight = {} /\ invoked = {} /\ results = <<>>
  OBVIOUS
<1>1. results \in Seq([call : Call, code : Code]) /\ Len(results) = 0 /\ DOMAIN results = {}
  BY EmptySeq
<1>2. TypeOK
  <2>1. /\ next \in 1 .. Calls + 1 /\ started \in 0 .. Calls /\ committed \in 0 .. Calls
        /\ stage \in [Call -> {"waiting", "preparing", "dispatched", "executing",
                               "settled", "broken"}]
        /\ outcome \in [Call -> Slot]
    BY DEF Slot
  <2>2. aborted \in BOOLEAN /\ signal \in BOOLEAN /\ failed \in BOOLEAN /\ unrecorded \in BOOLEAN
    BY Zenon
  <2>3. mode \in {"parallel", "exclusive"} /\ pc = "classify" /\ inFlight = {} /\ invoked = {}
    OBVIOUS
  <2>. QED
    BY <1>1, <2>1, <2>2, <2>3, Zenon DEF TypeOK
<1>3. CountInv
  BY DEF CountInv, InGroup
<1>4. StageInv
  BY DEF StageInv, Over, InGroup, Call
<1>5. PoolInv
  <2>1. Cardinality({}) = 0
    BY FS_EmptySet
  <2>. QED
    BY <2>1 DEF PoolInv, Running, Over
<1>6. LogInv
  BY <1>1 DEF LogInv, ResultsInModelOrder, StepAnswersEveryCall, NotStartedIsTrue, Over
<1>. QED
  BY <1>2, <1>3, <1>4, <1>5, <1>6 DEF IInv

\* The invariant holds of every reachable state of a batch.
THEOREM Inductive == Spec => []IInv
<1>1. IInv /\ [Next]_vars => IInv'
  BY TypeStep, CountStep, StageStep, PoolStep, LogStep DEF IInv
<1>. QED
  BY InitHolds, <1>1, PTL DEF Spec

\* The scheduler's variables keep their types (batch.ts runGroup's locals).
THEOREM TypeCorrect == Spec => []TypeOK
<1>1. IInv => TypeOK
  BY DEF IInv
<1>. QED
  BY Inductive, <1>1, PTL

\* The log answers the calls in the model's order (batch.ts commitReady).
THEOREM OrderCorrect == Spec => []ResultsInModelOrder
<1>1. IInv => ResultsInModelOrder
  BY DEF IInv, LogInv
<1>. QED
  BY Inductive, <1>1, PTL

\* A step that closes has answered every call (agent.ts step recovery).
THEOREM AnswersCorrect == Spec => []StepAnswersEveryCall
<1>1. IInv => StepAnswersEveryCall
  BY DEF IInv, LogInv
<1>. QED
  BY Inductive, <1>1, PTL

\* At most MaxParallel dispatches run, and an exclusive call runs alone
\* (batch.ts fillPool).
THEOREM PoolCorrect == Spec => []PoolIsBounded
<1>1. IInv => PoolIsBounded
  <2>. SUFFICES ASSUME IInv PROVE PoolIsBounded
    OBVIOUS
  <2>. USE DEF IInv
  <2>1. IsFiniteSet(inFlight)
    <3>1. IsFiniteSet(Call)
      BY FS_Interval, CallsAssumption DEF Call
    <3>. QED
      BY <3>1, FS_Subset DEF TypeOK
  <2>2. Running \subseteq inFlight
    BY DEF PoolInv
  <2>3. /\ Cardinality(Running) <= Cardinality(inFlight)
        /\ Cardinality(Running) \in Nat /\ Cardinality(inFlight) \in Nat
    BY <2>1, <2>2, FS_Subset, FS_CardinalityType
  <2>4. Cardinality(Running) <= MaxParallel
    BY <2>3, MaxParallelAssumption DEF PoolInv
  <2>. QED
    BY <2>2, <2>4 DEF PoolIsBounded, PoolInv
<1>. QED
  BY Inductive, <1>1, PTL

\* No dispatch outlives its batch (batch.ts, the drain after a failure).
THEOREM DrainCorrect == Spec => []BatchDrains
<1>1. IInv => BatchDrains
  BY DEF IInv, PoolInv, BatchDrains, Over
<1>. QED
  BY Inductive, <1>1, PTL

\* A call reported as never dispatched was never invoked (batch.ts skip,
\* pipeline.ts cancellationResult, repair.ts ToolCallRecovery).
THEOREM NotStartedCorrect == Spec => []NotStartedIsTrue
<1>1. IInv => NotStartedIsTrue
  BY DEF IInv, LogInv
<1>. QED
  BY Inductive, <1>1, PTL

\* Every group is committed before the next is classified (batch.ts runGroup).
THEOREM GroupsCorrect == Spec => []GroupsCommitWhole
<1>1. IInv => GroupsCommitWhole
  BY DEF IInv, CountInv, GroupsCommitWhole
<1>. QED
  BY Inductive, <1>1, PTL

\* No step starts a call after an abort it should have seen, or dispatches one
\* after a failure (batch.ts fillPool, startCall).
THEOREM StopsCorrect == Spec => StopsReplenishing
<1>. DEFINE Stops == \A c \in Call :
       /\ signal => ~(stage[c] = "waiting" /\ stage'[c] = "preparing")
       /\ failed => ~(stage[c] = "preparing" /\ stage'[c] = "dispatched")
<1>1. IInv /\ [Next]_vars => [Stops]_vars
  <2>. SUFFICES ASSUME IInv, Next PROVE Stops
    OBVIOUS
  <2>. USE DEF counters, pipeline, group
  <2>0. /\ stage \in [Call -> {"waiting", "preparing", "dispatched", "executing",
                               "settled", "broken"}]
        /\ pc = "fill" /\ signal => aborted
    BY DEF IInv, TypeOK, StageInv
  <2>1. CASE StartCall
    <3>1. ~signal
      BY <2>0, <2>1, Zenon DEF StartCall, HasRoom
    <3>2. stage' = [stage EXCEPT ![started + 1] = "preparing"]
      BY <2>1 DEF StartCall
    <3>. QED
      BY <2>0, <3>1, <3>2
  <2>2. CASE PrepareDispatches
    <3>1. ~failed /\ stage' = [stage EXCEPT ![started] = "dispatched"]
      BY <2>2 DEF PrepareDispatches
    <3>. QED
      BY <2>0, <3>1
  <2>3. CASE PrepareRefuses
    BY <2>0, <2>3 DEF PrepareRefuses
  <2>4. CASE \E c \in Call : InvokeBody(c) \/ SettleDispatch(c) \/ BreakDispatch(c)
    BY <2>0, <2>4 DEF InvokeBody, SettleDispatch, BreakDispatch
  <2>5. CASE UNCHANGED stage
    BY <2>5
  <2>6. \/ Classify \/ ClassifyFails \/ StartFails \/ EndFill \/ PrepareThrows \/ Commit
        \/ CommitFails \/ CommitDone \/ Race \/ Drain \/ Recover \/ EndStep \/ Abort
        \/ Finished
        => UNCHANGED stage
    BY DEF Classify, ClassifyFails, StartFails, EndFill, PrepareThrows, Commit,
           CommitFails, CommitDone, Race, Drain, Recover, EndStep, Abort, Finished, vars
  <2>. QED
    BY <2>1, <2>2, <2>3, <2>4, <2>5, <2>6 DEF Next, Scheduler, Settle
<1>. QED
  BY Inductive, <1>1, PTL DEF Spec, StopsReplenishing

-----------------------------------------------------------------------------
(* A batch is finite: every step that changes anything uses something up.    *)

Undecided == {c \in Call : stage[c] \in {"waiting", "preparing"}}
Uninvoked == Undecided \cup {c \in Call : stage[c] = "dispatched"}
Unsettled == Uninvoked \cup {c \in Call : stage[c] = "executing"}
Uncollected == Undecided \cup inFlight

\* What is left of the batch, each part of which only shrinks.
Remaining ==
  (Calls - started) + (Calls - committed) + (Calls + 1 - next)
  + Cardinality(Undecided) + Cardinality(Uninvoked) + Cardinality(Unsettled)
  + Cardinality(Uncollected) + (IF signal THEN 0 ELSE 1)

\* Steps of the scheduler that shrink nothing lead to a lower place.
Place == CASE pc \in {"classify", "prepare", "commit"} -> 6
           [] pc = "fill" -> 5
           [] pc = "race" -> 4
           [] pc = "drain" -> 3
           [] pc \in {"rejected", "returned"} -> 2
           [] OTHER -> 0

Potential == 7 * Remaining + Place

Shrinks ==
  /\ started' >= started /\ committed' >= committed /\ next' >= next
  /\ Undecided' \subseteq Undecided /\ Uninvoked' \subseteq Uninvoked
  /\ Unsettled' \subseteq Unsettled /\ Uncollected' \subseteq Uncollected
  /\ signal => signal'

UsesUp ==
  \/ started' > started \/ committed' > committed \/ next' > next
  \/ Undecided' # Undecided \/ Uninvoked' # Uninvoked
  \/ Unsettled' # Unsettled \/ Uncollected' # Uncollected
  \/ ~signal /\ signal'

\* Sets of calls have sizes, which inclusion orders.
LEMMA Sizes ==
  ASSUME NEW S \in SUBSET Call
  PROVE  /\ Cardinality(S) \in 0 .. Calls
         /\ \A T \in SUBSET S : /\ Cardinality(T) \in 0 .. Calls
                                /\ Cardinality(T) <= Cardinality(S)
                                /\ T # S => Cardinality(T) < Cardinality(S)
<1>1. IsFiniteSet(Call) /\ Cardinality(Call) = Calls
  BY FS_Interval, CallsAssumption DEF Call
<1>2. IsFiniteSet(S) /\ Cardinality(S) <= Calls /\ Cardinality(S) \in Nat
  BY <1>1, FS_Subset, FS_CardinalityType
<1>3. ASSUME NEW T \in SUBSET S
      PROVE  /\ Cardinality(T) \in Nat /\ Cardinality(T) <= Cardinality(S)
             /\ T # S => Cardinality(T) # Cardinality(S)
  BY <1>2, FS_Subset, FS_CardinalityType
<1>. QED
  BY <1>2, <1>3, CallsAssumption

\* The parts of the potential are numbers.
LEMMA Parts ==
  ASSUME TypeOK
  PROVE  /\ Undecided \in SUBSET Call /\ Uninvoked \in SUBSET Call
         /\ Unsettled \in SUBSET Call /\ Uncollected \in SUBSET Call
         /\ Place \in 0 .. 6
<1>1. Place \in 0 .. 6
  BY DEF TypeOK, Place
<1>. QED
  BY <1>1 DEF TypeOK, Undecided, Uninvoked, Unsettled, Uncollected

\* The potential of a batch is at most 49 * Calls + 13.
LEMMA Bounded == TypeOK => Potential \in 0 .. 49 * Calls + 13
<1>. SUFFICES ASSUME TypeOK PROVE Potential \in 0 .. 49 * Calls + 13
  OBVIOUS
<1>1. /\ Cardinality(Undecided) \in 0 .. Calls /\ Cardinality(Uninvoked) \in 0 .. Calls
      /\ Cardinality(Unsettled) \in 0 .. Calls /\ Cardinality(Uncollected) \in 0 .. Calls
      /\ Place \in 0 .. 6
  BY Parts, Sizes
<1>2. started \in 0 .. Calls /\ committed \in 0 .. Calls /\ next \in 1 .. Calls + 1
  BY DEF TypeOK
<1>. QED
  BY <1>1, <1>2, CallsAssumption DEF Potential, Remaining

\* Using something up, or going to a lower place, lowers the potential.
LEMMA Lowers ==
  ASSUME TypeOK, TypeOK', Shrinks, UsesUp \/ Place' < Place
  PROVE  Potential' < Potential
<1>1. /\ Undecided \in SUBSET Call /\ Uninvoked \in SUBSET Call
      /\ Unsettled \in SUBSET Call /\ Uncollected \in SUBSET Call
      /\ Place \in 0 .. 6
  BY Parts
<1>2. Place' \in 0 .. 6
  BY DEF TypeOK, Place
<1>. DEFINE Smaller(S, T) == /\ Cardinality(S) \in 0 .. Calls
                             /\ Cardinality(T) \in 0 .. Calls
                             /\ Cardinality(T) <= Cardinality(S)
                             /\ T # S => Cardinality(T) < Cardinality(S)
<1>3. /\ Smaller(Undecided, Undecided') /\ Smaller(Uninvoked, Uninvoked')
      /\ Smaller(Unsettled, Unsettled') /\ Smaller(Uncollected, Uncollected')
  BY <1>1, Sizes DEF Shrinks
<1>4. /\ started \in 0 .. Calls /\ committed \in 0 .. Calls /\ next \in 1 .. Calls + 1
      /\ started' \in 0 .. Calls /\ committed' \in 0 .. Calls /\ next' \in 1 .. Calls + 1
      /\ signal \in BOOLEAN /\ signal' \in BOOLEAN
  BY DEF TypeOK
<1>. DEFINE bit == IF signal THEN 0 ELSE 1
            gone == IF signal' THEN 0 ELSE 1
<1>5. bit \in 0 .. 1 /\ gone \in 0 .. 1 /\ gone <= bit /\ (~signal /\ signal' => gone < bit)
  BY <1>4 DEF Shrinks
<1>6. Remaining' <= Remaining /\ (UsesUp => Remaining' < Remaining)
      /\ Remaining \in Int /\ Remaining' \in Int
  <2>1. Remaining = (Calls - started) + (Calls - committed) + (Calls + 1 - next)
          + Cardinality(Undecided) + Cardinality(Uninvoked) + Cardinality(Unsettled)
          + Cardinality(Uncollected) + bit
    BY DEF Remaining
  <2>2. Remaining' = (Calls - started') + (Calls - committed') + (Calls + 1 - next')
          + Cardinality(Undecided') + Cardinality(Uninvoked') + Cardinality(Unsettled')
          + Cardinality(Uncollected') + gone
    BY DEF Remaining
  <2>. HIDE DEF bit, gone
  <2>. QED
    BY <1>3, <1>4, <1>5, <2>1, <2>2, CallsAssumption DEF Shrinks, UsesUp
<1>7. Potential = 7 * Remaining + Place /\ Potential' = 7 * Remaining' + Place'
  BY DEF Potential
<1>8. \A r, s \in Int, p, q \in 0 .. 6 :
        r < s \/ (r <= s /\ p < q) => 7 * r + p < 7 * s + q
  OBVIOUS
<1>. QED
  BY <1>1, <1>2, <1>6, <1>7, <1>8

\* Dispatches in flight have been dispatched; a race is over some dispatch.
FlightInv ==
  /\ pc = "race" => inFlight # {}
  /\ \A c \in inFlight : stage[c] \in {"dispatched", "executing", "settled", "broken"}

LEMMA FlightStep == IInv /\ FlightInv /\ [Next]_vars => FlightInv'
<1>. SUFFICES ASSUME IInv, FlightInv, [Next]_vars
              PROVE  FlightInv'
  OBVIOUS
<1>. USE DEF FlightInv, group, counters, pipeline
<1>0. /\ stage \in [Call -> {"waiting", "preparing", "dispatched", "executing",
                             "settled", "broken"}]
      /\ inFlight \subseteq Call
      /\ pc = "prepare" => started \in Call
  BY DEF IInv, TypeOK, CountInv, Call
<1>1. CASE Classify \/ ClassifyFails \/ StartFails \/ PrepareThrows \/ Commit \/ CommitFails
           \/ CommitDone \/ Race \/ Drain \/ Recover \/ EndStep \/ Abort
  BY <1>0, <1>1 DEF Classify, ClassifyFails, StartFails, PrepareThrows, Commit, CommitFails,
     CommitDone, Race, Drain, Recover, EndStep, Abort, Throw
<1>2. CASE StartCall
  <2>1. started + 1 \notin inFlight
    <3>1. started \in Int /\ inFlight \subseteq next .. started /\ next \in Int
      BY <1>2 DEF StartCall, IInv, PoolInv, TypeOK, Over
    <3>. QED
      BY <3>1
  <2>2. /\ stage' = [stage EXCEPT ![started + 1] = "preparing"]
        /\ inFlight' = inFlight /\ pc' = "prepare"
    BY <1>2 DEF StartCall
  <2>. QED
    BY <1>0, <2>1, <2>2
<1>3. CASE EndFill
  <2>1. stage' = stage /\ inFlight' = inFlight
    BY <1>3 DEF EndFill
  <2>2. pc' = "race" => inFlight # {}
    BY <1>3, EndFillCases
  <2>. QED
    BY <2>1, <2>2
<1>4. CASE PrepareDispatches
  BY <1>0, <1>4 DEF PrepareDispatches
<1>5. CASE PrepareRefuses
  BY <1>0, <1>5 DEF PrepareRefuses
<1>6. CASE \E c \in Call : InvokeBody(c) \/ SettleDispatch(c) \/ BreakDispatch(c)
  BY <1>0, <1>6 DEF InvokeBody, SettleDispatch, BreakDispatch
<1>7. CASE UNCHANGED vars
  BY <1>7 DEF vars
<1>. QED
  BY <1>1, <1>2, <1>3, <1>4, <1>5, <1>6, <1>7 DEF Next, Scheduler, Settle, Finished

\* Every step of a batch that changes anything shrinks a part or goes lower.
LEMMA EveryStepUsesUp ==
  ASSUME IInv, FlightInv, Next, ~UNCHANGED vars
  PROVE  Shrinks /\ (UsesUp \/ Place' < Place)
<1>. USE DEF group, counters, pipeline, Shrinks, UsesUp,
             Undecided, Uninvoked, Unsettled, Uncollected
<1>0. /\ stage \in [Call -> {"waiting", "preparing", "dispatched", "executing",
                             "settled", "broken"}]
      /\ started \in 0 .. Calls /\ committed \in 0 .. Calls /\ next \in 1 .. Calls + 1
      /\ inFlight \subseteq Call
      /\ pc = "prepare" => started \in Call
      /\ signal \in BOOLEAN
  BY DEF IInv, TypeOK, CountInv, Call
<1>1. CASE Classify \/ ClassifyFails \/ StartFails \/ PrepareThrows \/ CommitFails
           \/ CommitDone \/ Drain \/ Recover \/ EndStep
  <2>1. UNCHANGED <<started, committed, next, stage, inFlight, signal>>
    BY <1>1 DEF Classify, ClassifyFails, StartFails, PrepareThrows, CommitFails,
       CommitDone, Drain, Recover, EndStep
  <2>2. Shrinks
    BY <1>0, <2>1
  <2>3. Place' < Place
    BY <1>1 DEF Classify, ClassifyFails, StartFails, PrepareThrows, CommitFails,
       CommitDone, Drain, Recover, EndStep, Throw, Place
  <2>. QED
    BY <2>2, <2>3
<1>2. CASE StartCall
  <2>1. /\ started + 1 \in Call /\ stage[started + 1] = "waiting"
    <3>1. started + 1 <= Calls
      BY <1>0, <1>2, CallsAssumption DEF StartCall, HasRoom, groupEnd, IInv, CountInv, InGroup
    <3>2. started + 1 \in Call /\ started + 1 > started
      BY <1>0, <3>1, CallsAssumption DEF Call
    <3>. QED
      BY <1>2, <3>2 DEF StartCall, IInv, StageInv, Over
  <2>2. /\ stage' = [stage EXCEPT ![started + 1] = "preparing"] /\ started' = started + 1
        /\ UNCHANGED <<committed, next, inFlight, signal>>
    BY <1>2 DEF StartCall
  <2>. QED
    BY <1>0, <2>1, <2>2
<1>3. CASE EndFill
  <2>1. UNCHANGED <<committed, stage, inFlight, signal>> /\ pc = "fill"
    BY <1>3 DEF EndFill
  <2>2. started' >= started /\ next' >= next /\ (next' > next \/ pc' \in {"race", "returned", "rejected"})
    <3>1. next <= started + 1
      BY <2>1 DEF IInv, CountInv, InGroup
    <3>2. inFlight = {} /\ ~aborted => next <= started
      <4>. SUFFICES ASSUME inFlight = {}, ~aborted PROVE next <= started
        OBVIOUS
      <4>1. Cardinality(inFlight) < MaxParallel
        BY FS_EmptySet, MaxParallelAssumption
      <4>2. ~(started < groupEnd) \/ started + 1 > next
        BY <1>3, <4>1 DEF EndFill, HasRoom, AtBarrier
      <4>3. next <= groupEnd /\ groupEnd \in Int
        BY <1>0, <2>1, CallsAssumption DEF IInv, CountInv, InGroup, groupEnd
      <4>. QED
        BY <1>0, <4>2, <4>3
    <3>. QED
      BY <1>0, <1>3, <3>1, <3>2, EndFillCases
  <2>3. next' > next \/ Place' < Place
    BY <2>1, <2>2 DEF Place
  <2>. QED
    BY <1>0, <2>1, <2>2, <2>3
<1>4. CASE PrepareDispatches
  <2>1. stage[started] = "preparing"
    BY <1>0, <1>4 DEF PrepareDispatches, IInv, StageInv, CountInv, InGroup
  <2>2. /\ stage' = [stage EXCEPT ![started] = "dispatched"]
        /\ inFlight' = inFlight \cup {started}
        /\ UNCHANGED <<started, committed, next, signal>>
    BY <1>4 DEF PrepareDispatches
  <2>. QED
    BY <1>0, <1>4, <2>1, <2>2 DEF PrepareDispatches
<1>5. CASE PrepareRefuses
  <2>1. stage[started] = "preparing"
    BY <1>0, <1>5 DEF PrepareRefuses, IInv, StageInv, CountInv, InGroup
  <2>2. /\ stage' = [stage EXCEPT ![started] = "settled"]
        /\ UNCHANGED <<started, committed, next, inFlight, signal>>
    BY <1>5 DEF PrepareRefuses
  <2>. QED
    BY <1>0, <1>5, <2>1, <2>2 DEF PrepareRefuses
<1>6. CASE Commit
  BY <1>0, <1>6 DEF Commit
<1>7. CASE Race
  <2>1. PICK c \in inFlight : stage[c] \in Collected /\ inFlight' = inFlight \ {c}
    BY <1>7 DEF Race
  <2>2. c \in Uncollected /\ c \notin Uncollected'
    BY <1>7, <2>1 DEF Race, Collected
  <2>3. UNCHANGED <<started, committed, next, stage, signal>>
    BY <1>7 DEF Race
  <2>. QED
    BY <1>0, <2>1, <2>2, <2>3
<1>8. CASE Abort
  BY <1>0, <1>8 DEF Abort
<1>9. ASSUME NEW c \in Call, InvokeBody(c)
      PROVE  Shrinks /\ UsesUp
  <2>1. /\ stage[c] = "dispatched" /\ stage' = [stage EXCEPT ![c] = "executing"]
        /\ UNCHANGED <<started, committed, next, inFlight, signal>>
    BY <1>9 DEF InvokeBody
  <2>2. c \in Uninvoked /\ c \notin Uninvoked'
    BY <1>0, <2>1
  <2>. QED
    BY <1>0, <2>1, <2>2
<1>10. ASSUME NEW c \in Call, SettleDispatch(c) \/ BreakDispatch(c)
       PROVE  Shrinks /\ UsesUp
  <2>1. /\ stage[c] \in {"dispatched", "executing"}
        /\ \E s \in Collected : stage' = [stage EXCEPT ![c] = s]
        /\ UNCHANGED <<started, committed, next, inFlight, signal>>
    BY <1>10 DEF SettleDispatch, BreakDispatch, Collected
  <2>2. c \in Unsettled /\ c \notin Unsettled'
    BY <1>0, <2>1 DEF Collected
  <2>. QED
    BY <1>0, <2>1, <2>2 DEF Collected
<1>. QED
  BY <1>1, <1>2, <1>3, <1>4, <1>5, <1>6, <1>7, <1>8, <1>9, <1>10
  DEF Next, Scheduler, Settle, Finished

\* A batch is finite, whatever the bodies, the policies and the caller do:
\* every step lowers a number that is never above 49 * Calls + 13, so no batch
\* takes more steps than that (batch.ts executeToolBatch, runGroup).
THEOREM BatchIsFinite ==
  Spec => /\ [](Potential \in 0 .. 49 * Calls + 13)
          /\ [][Potential' < Potential]_vars
<1>1. Init => FlightInv
  BY DEF Init, FlightInv
<1>2. IInv => Potential \in 0 .. 49 * Calls + 13
  BY Bounded DEF IInv
<1>3. IInv /\ IInv' /\ FlightInv /\ [Next]_vars => [Potential' < Potential]_vars
  BY EveryStepUsesUp, Lowers DEF IInv
<1>. QED
  BY Inductive, <1>1, <1>2, <1>3, FlightStep, PTL DEF Spec

\* A batch never waits for nothing: a race is over some dispatch, and what a
\* race or the drain waits for runs, and can settle, or has settled already
\* (batch.ts runGroup's Promise.race and Promise.allSettled).
THEOREM WaitsForDispatches ==
  Spec => [](/\ pc = "race" => inFlight # {}
             /\ pc \in {"race", "drain"} =>
                  \A c \in inFlight : c \in Running \/ stage[c] \in Collected)
<1>1. Init => FlightInv
  BY DEF Init, FlightInv
<1>2. IInv /\ FlightInv =>
        /\ pc = "race" => inFlight # {}
        /\ pc \in {"race", "drain"} =>
             \A c \in inFlight : c \in Running \/ stage[c] \in Collected
  BY DEF IInv, TypeOK, FlightInv, Running, Collected
<1>. QED
  BY Inductive, <1>1, <1>2, FlightStep, PTL DEF Spec

=============================================================================
