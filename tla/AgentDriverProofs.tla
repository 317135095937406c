------------------------- MODULE AgentDriverProofs -------------------------
(***************************************************************************)
(* Theorems about AgentDriver for every set of messages.                   *)
(***************************************************************************)
EXTENDS AgentDriver, SequenceTheorems, TLAPS

-----------------------------------------------------------------------------
(* The operators the driver is built from.                                   *)

\* Popping the frame stack leaves a frame stack.
LEMMA BelowIsStack ==
  ASSUME frames \in Seq(Frame)
  PROVE  Below \in Seq(Frame)
<1>1. Len(frames) \in Nat /\ \A i \in 1 .. Len(frames) : frames[i] \in Frame
  BY LenProperties, ElementOfSeq
<1>2. \A i \in 1 .. Len(frames) - 1 : frames[i] \in Frame
  BY <1>1
<1>. QED
  BY <1>1, <1>2, SubSeqProperties DEF Below

\* Dropping one element of a list leaves a list that lacks that element only.
LEMMA DropAtIsSeq ==
  ASSUME NEW S, NEW s \in Seq(S), NEW i \in DOMAIN s
  PROVE  DropAt(s, i) \in Seq(S)
<1>1. Len(s) \in Nat /\ DOMAIN s = 1 .. Len(s)
  BY LenProperties
<1>2. Len(s) - 1 \in Nat
  BY <1>1
<1>3. DropAt(s, i) \in [1 .. Len(s) - 1 -> S]
  <2>. SUFFICES ASSUME NEW j \in 1 .. Len(s) - 1
                PROVE  (IF j < i THEN s[j] ELSE s[j + 1]) \in S
    BY DEF DropAt
  <2>1. j \in 1 .. Len(s) /\ j + 1 \in 1 .. Len(s)
    BY <1>1
  <2>. QED
    BY <2>1, ElementOfSeq
<1>. QED
  BY <1>2, <1>3, SeqDef

\* Replacing one element of a list leaves a list.
LEMMA ExceptIsSeq ==
  ASSUME NEW S, NEW s \in Seq(S), NEW i \in DOMAIN s, NEW e \in S
  PROVE  [s EXCEPT ![i] = e] \in Seq(S)
  BY LenProperties, ExceptSeq

\* Inserting a message at the end of a list leaves two lists of messages.
LEMMA PushIsSeq ==
  ASSUME nextTurn \in Seq(Message), nextStep \in Seq(Message),
         NEW m \in Message, NEW list, Push(list, m)
  PROVE  nextTurn' \in Seq(Message) /\ nextStep' \in Seq(Message)
<1>1. Append(nextTurn, m) \in Seq(Message) /\ Append(nextStep, m) \in Seq(Message)
  BY AppendProperties
<1>. QED
  BY <1>1 DEF Push

\* So does the context that a tool batch leaves for the next step.
LEMMA ToolContextIsSeq ==
  ASSUME nextStep \in Seq(Message), unsent \subseteq Message, ToolContext
  PROVE  nextStep' \in Seq(Message) /\ unsent' \subseteq Message
<1>1. \A m \in Message : Append(nextStep, m) \in Seq(Message)
  BY AppendProperties
<1>. QED
  BY <1>1 DEF ToolContext

-----------------------------------------------------------------------------
(* Type correctness.                                                         *)

\* The initial state is well typed.
LEMMA TypeInit == Init => TypeOK
  BY EmptySeq DEF Init, TypeOK

\* Inbox commands keep the state well typed.
LEMMA TypeCommands ==
  ASSUME TypeOK, NEW m \in Message, NEW n \in Message,
         NEW list \in {"next-turn", "next-step"},
         Insert(m, list) \/ Prepend(m) \/ Replace(m, n) \/ Remove(m) \/ Send(m, list)
  PROVE  TypeOK'
<1>. USE DEF TypeOK
<1>1. CASE Insert(m, list)
  <2>1. nextTurn' \in Seq(Message) /\ nextStep' \in Seq(Message)
    BY <1>1, PushIsSeq DEF Insert
  <2>. QED
    BY <1>1, <2>1 DEF Insert, phaseVars, turnVars, history
<1>2. CASE Prepend(m)
  <2>1. <<m>> \o nextStep \in Seq(Message)
    BY ConcatProperties
  <2>. QED
    BY <1>2, <2>1 DEF Prepend, phaseVars, turnVars, history
<1>3. CASE Replace(m, n)
  <2>1. \A s \in Seq(Message) : \A i \in DOMAIN s : [s EXCEPT ![i] = n] \in Seq(Message)
    BY ExceptIsSeq
  <2>2. nextTurn' \in Seq(Message) /\ nextStep' \in Seq(Message)
    BY <1>3, <2>1 DEF Replace, ReplaceAt
  <2>. QED
    BY <1>3, <2>2 DEF Replace, phaseVars, turnVars, history
<1>4. CASE Remove(m)
  <2>1. nextTurn' \in Seq(Message) /\ nextStep' \in Seq(Message)
    BY <1>4, DropAtIsSeq DEF Remove
  <2>. QED
    BY <1>4, <2>1 DEF Remove, phaseVars, turnVars, history
<1>5. CASE Send(m, list)
  <2>1. nextTurn' \in Seq(Message) /\ nextStep' \in Seq(Message)
    BY <1>5, PushIsSeq DEF Send
  <2>2. frames' \in Seq(Frame)
    BY <1>5, AppendProperties DEF Send, WakeFrame, Frame
  <2>. QED
    BY <1>5, <2>1, <2>2 DEF Send, phaseVars, turnVars
<1>. QED
  BY <1>1, <1>2, <1>3, <1>4, <1>5

\* Starting the driver and latching a wake keep the state well typed.
LEMMA TypeWake ==
  ASSUME TypeOK, UNCHANGED <<inbox, batch, fates>>,
         StartDriver \/ \E a \in BOOLEAN : phase # "idle" /\ LatchWake(a)
  PROVE  TypeOK'
<1>. USE DEF TypeOK, inbox, fates
<1>0. Below \in Seq(Frame)
  BY BelowIsStack
<1>1. CASE StartDriver
  <2>1. frames' \in Seq(Frame)
    BY <1>0, <1>1, AppendProperties DEF StartDriver, Frame
  <2>. QED
    BY <1>1, <2>1 DEF StartDriver
<1>2. CASE \E a \in BOOLEAN : phase # "idle" /\ LatchWake(a)
  BY <1>0, <1>2 DEF LatchWake, Latches, turnVars, history
<1>. QED
  BY <1>1, <1>2

\* Aborting the activity keeps what it changes well typed.
LEMMA TypeAbort ==
  ASSUME TypeOK, NEW cause \in Cause, AbortActivity(cause)
  PROVE  abort' \in Cause \cup {None} /\ (phase = "idle" => abort' = None)
<1>1. abort \in Cause \cup {None} /\ (phase = "idle" => abort = None)
  BY DEF TypeOK
<1>. QED
  BY <1>1 DEF AbortActivity

\* So does withdrawing the latched wake and then aborting.
LEMMA TypeWithdraw ==
  ASSUME TypeOK, NEW cause \in Cause, Withdraw(cause), frames' \in Seq(Frame)
  PROVE  TypeOK'
<1>1. wakeRequested' \in BOOLEAN /\ ~wakeRequested'
  BY Zenon DEF Withdraw
<1>2. abort' \in Cause \cup {None} /\ (phase = "idle" => abort' = None)
  BY TypeAbort DEF Withdraw
<1>3. owed' \subseteq Message
  BY DEF Withdraw
<1>4. UNCHANGED <<phase, turnVars, inbox, batch, fates, queued>>
  BY DEF Withdraw
<1>. QED
  BY <1>1, <1>2, <1>3, <1>4 DEF TypeOK, turnVars, inbox, fates

\* Cancellation, maintenance and the callers that go on keep the state well
\* typed.
LEMMA TypeCallers ==
  ASSUME TypeOK, NEW cause \in Cause, NEW afterAbort \in BOOLEAN,
         \/ CancelKeepingInbox(cause) \/ CancelClear(cause) \/ CancelEmpty(cause)
         \/ CancelClearTurn(cause) \/ CancelAbort(cause) \/ Wake(afterAbort) \/ Replay
         \/ StartMaintenance \/ FinishMaintenance
  PROVE  TypeOK'
<1>. USE DEF TypeOK, inbox, fates
<1>0. Below \in Seq(Frame)
  BY BelowIsStack
<1>1. CASE CancelKeepingInbox(cause)
  <2>1. AbortActivity(cause) /\ owed' \subseteq owed
    BY <1>1 DEF CancelKeepingInbox
  <2>. QED
    BY <1>1, <2>1, TypeAbort DEF CancelKeepingInbox, turnVars
<1>2. CASE CancelClear(cause)
  <2>1. Range(nextStep) \subseteq Message /\ Range(nextTurn) \subseteq Message
    BY RangeOfSeq
  <2>2. frames' \in Seq(Frame)
    <3>1. cause \in Frame /\ Clearing[cause] \in Frame
      BY DEF Clearing, Frame, Cause
    <3>2. /\ Append(frames, cause) \in Seq(Frame)
          /\ Append(frames, Clearing[cause]) \in Seq(Frame)
      BY <3>1, AppendProperties
    <3>. QED
      BY <1>2, <3>2 DEF CancelClear
  <2>3. nextTurn' \in Seq(Message) /\ nextStep' \in Seq(Message) /\ discarded' \subseteq Message
    BY <1>2, <2>1, EmptySeq DEF CancelClear, ClearPrompts
  <2>. QED
    BY <1>2, <2>2, <2>3 DEF CancelClear, phaseVars, turnVars, history
<1>3. CASE CancelEmpty(cause)
  BY <1>3, TypeWithdraw DEF CancelEmpty
<1>4. CASE CancelAbort(cause)
  BY <1>0, <1>4, TypeWithdraw DEF CancelAbort
<1>5. CASE Wake(afterAbort)
  BY <1>5, TypeWake DEF Wake, wakeDriver
<1>6. CASE Replay
  <2>1. CASE hasPending /\ wakeDriver(FALSE)
    BY <1>6, <2>1, TypeWake DEF Replay, wakeDriver
  <2>2. CASE /\ frames' = Below
             /\ UNCHANGED <<phaseVars, turnVars, queued, owed>>
    BY <1>0, <1>6, <2>2 DEF Replay, phaseVars, turnVars
  <2>. QED
    BY <1>6, <2>1, <2>2 DEF Replay
<1>7. CASE StartMaintenance
  <2>1. wakeRequested' \in BOOLEAN /\ abort' = None /\ phase' = "maintenance"
    BY <1>7, Zenon DEF StartMaintenance
  <2>2. UNCHANGED <<turnVars, inbox, batch, fates, frames, history>>
    BY <1>7 DEF StartMaintenance
  <2>. QED
    BY <2>1, <2>2 DEF turnVars, history
<1>8. CASE FinishMaintenance
  <2>1. CASE StartDriver
    BY <1>8, <2>1, TypeWake DEF FinishMaintenance
  <2>2. CASE ~StartDriver
    <3>1. /\ phase' = "idle" /\ abort' = None /\ wakeRequested' = FALSE
      BY <1>8, <2>2, Zenon DEF FinishMaintenance
    <3>2. /\ wakeRequested' \in BOOLEAN /\ ~wakeRequested'
      BY <3>1, Zenon
    <3>3. UNCHANGED <<turnVars, frames, queued, owed, inbox, batch, fates>>
      BY <1>8, <2>2 DEF FinishMaintenance
    <3>. QED
      BY <3>1, <3>2, <3>3 DEF turnVars
  <2>. QED
    BY <2>1, <2>2
<1>9. CASE CancelClearTurn(cause)
  <2>1. Range(nextTurn) \subseteq Message
    BY RangeOfSeq
  <2>2. frames' \in Seq(Frame)
    BY <1>0, <1>9, AppendProperties DEF CancelClearTurn, Frame
  <2>3. nextTurn' \in Seq(Message) /\ nextStep' = nextStep /\ discarded' \subseteq Message
    BY <1>9, <2>1, EmptySeq DEF CancelClearTurn, ClearPrompts
  <2>. QED
    BY <1>9, <2>2, <2>3 DEF CancelClearTurn, phaseVars, turnVars, history
<1>. QED
  BY <1>1, <1>2, <1>3, <1>4, <1>5, <1>6, <1>7, <1>8, <1>9

\* Claims keep the state well typed.
LEMMA TypeClaims ==
  ASSUME TypeOK, ClaimTurnInput \/ AfterStep \/ Stop
  PROVE  TypeOK'
<1>. USE DEF TypeOK, inbox, fates
<1>0. Below \in Seq(Frame) /\ Range(nextStep) \subseteq Message /\ <<>> \in Seq(Message)
  BY BelowIsStack, RangeOfSeq, EmptySeq
<1>1. nextTurn # <<>> => Head(nextTurn) \in Message /\ Tail(nextTurn) \in Seq(Message)
  BY HeadTailProperties
<1>2. CASE ClaimTurnInput
  <2>1. ASSUME ClaimNextStep("claimTurn"), UNCHANGED frames
        PROVE  TypeOK'
    BY <1>0, <1>2, <2>1 DEF ClaimTurnInput, ClaimNextStep, phaseVars
  <2>2. ASSUME ClaimNextTurn, Suspend
        PROVE  TypeOK'
    <3>1. /\ nextTurn' \in Seq(Message) /\ nextStep' \in Seq(Message)
          /\ queued' \subseteq Message /\ batch' \subseteq Message
      BY <1>0, <1>1, <2>2 DEF ClaimNextTurn
    <3>2. frames' \in Seq(Frame) /\ pc' = "preStep"
      BY <1>0, <2>2 DEF ClaimNextTurn, Suspend
    <3>. QED
      BY <1>2, <3>1, <3>2 DEF ClaimTurnInput, phaseVars
  <2>. QED
    BY <1>2, <2>1, <2>2 DEF ClaimTurnInput
<1>3. CASE AfterStep
  BY <1>0, <1>3 DEF AfterStep, ClaimNextStep, At, phaseVars
<1>4. CASE Stop
  BY <1>0, <1>4 DEF Stop, ClaimNextStep, CloseTurn, At, phaseVars
<1>. QED
  BY <1>2, <1>3, <1>4

\* The driver's other actions keep the state well typed.
LEMMA TypeDriver ==
  ASSUME TypeOK, Driver
  PROVE  TypeOK'
<1>. USE DEF TypeOK, inbox, fates
<1>0. Below \in Seq(Frame)
  BY BelowIsStack
<1>a. ToolContext => nextStep' \in Seq(Message) /\ unsent' \subseteq Message
  BY ToolContextIsSeq
<1>1. CASE BeginTurn
  BY <1>0, <1>1 DEF BeginTurn, Suspend, phaseVars
<1>2. CASE ClaimTurnInput \/ AfterStep \/ Stop
  BY <1>2, TypeClaims
<1>3. CASE ThrowIfAborted
  BY <1>0, <1>3 DEF ThrowIfAborted, CloseTurn, Suspend, phaseVars, history
<1>4. CASE PreStepDecides
  BY <1>4 DEF PreStepDecides, phaseVars, history
<1>5. CASE PreStepThrows
  BY <1>5 DEF PreStepThrows, phaseVars, history
<1>6. CASE Reject
  BY <1>6 DEF Reject, CloseTurn, phaseVars, history
<1>7. CASE EnterEmpty
  BY <1>7 DEF EnterEmpty, CloseTurn, phaseVars, history
<1>8. CASE StartStep
  BY <1>8 DEF StartStep, phaseVars, history
<1>9. CASE Admit
  BY <1>9 DEF Admit, phaseVars, history
<1>10. CASE Retry
  BY <1>10 DEF Retry, phaseVars, history
<1>11. CASE StepReturns
  BY <1>11, <1>a DEF StepReturns, phaseVars, history
<1>12. CASE StepThrows
  BY <1>12, <1>a DEF StepThrows, phaseVars, history
<1>13. CASE EndStep
  BY <1>13 DEF EndStep, phaseVars, history
<1>14. CASE Fail
  BY <1>14 DEF Fail, CloseTurn, phaseVars, history
<1>15. CASE ContinueOrLeave
  BY <1>15 DEF ContinueOrLeave, At
<1>16. CASE Settle
  <2>1. frames' \in Seq(Frame)
    BY <1>16, AppendProperties DEF Settle, Frame
  <2>. QED
    BY <1>16, <2>1 DEF Settle
<1>17. CASE restoreOtherClaimed
  <2>1. \A m \in Message : <<m>> \o nextStep \in Seq(Message)
    BY ConcatProperties
  <2>. QED
    BY <1>17, <2>1 DEF restoreOtherClaimed, phaseVars, history
<1>. QED
  BY <1>1, <1>2, <1>3, <1>4, <1>5, <1>6, <1>7, <1>8, <1>9, <1>10, <1>11, <1>12,
     <1>13, <1>14, <1>15, <1>16, <1>17 DEF Driver

\* Every step keeps the state well typed.
LEMMA TypeStep == TypeOK /\ [Next]_vars => TypeOK'
<1>. SUFFICES ASSUME TypeOK, [Next]_vars
              PROVE  TypeOK'
  OBVIOUS
<1>1. CASE Caller
  <2>1. ASSUME NEW m \in Message, NEW n \in Message, NEW list \in {"next-turn", "next-step"},
               Insert(m, list) \/ Prepend(m) \/ Replace(m, n) \/ Remove(m) \/ Send(m, list)
        PROVE  TypeOK'
    BY <2>1, TypeCommands
  <2>2. ASSUME NEW cause \in Cause,
               \/ CancelKeepingInbox(cause) \/ CancelClear(cause)
               \/ CancelEmpty(cause) \/ StartMaintenance
        PROVE  TypeOK'
    BY <2>2, TypeCallers
  <2>. QED
    BY <1>1, <2>1, <2>2 DEF Caller, Cause
<1>2. CASE Resume
  BY <1>2, TypeCallers DEF Resume, Cause
<1>3. CASE Driver
  BY <1>3, TypeDriver
<1>4. CASE FinishMaintenance
  BY <1>4, TypeCallers DEF Cause
<1>5. CASE UNCHANGED vars
  BY <1>5 DEF TypeOK, vars, phaseVars, turnVars, inbox, fates, history
<1>. QED
  BY <1>1, <1>2, <1>3, <1>4, <1>5 DEF Next

\* Every state of every behaviour is well typed, and an idle agent holds
\* neither an abort cause nor a latched wake.
THEOREM TypeCorrect == Spec => []TypeOK
<1>1. Init => TypeOK
  BY TypeInit
<1>2. TypeOK /\ [Next]_vars => TypeOK'
  BY TypeStep
<1>. QED
  BY <1>1, <1>2, PTL DEF Spec

-----------------------------------------------------------------------------
(* The driver's control: where it is tells what is open and what is held.    *)

Before == {"off", "begin", "closed", "settling"}
InStep == {"request", "stream", "stepReturned", "stepFailed"}
Resting == Before \cup {"claim", "stream", "stepReturned", "afterStep", "stopping"}

\* The claimed batch lives from its claim to its admission or the turn's end,
\* and the log's brackets follow the driver.
ControlInv ==
  /\ phase = "running" <=> pc # "off"
  /\ pc \in Before => bracket = "none"
  /\ pc \in InStep => bracket = "step"
  /\ pc \notin Before \cup InStep => bracket = "turn"
  /\ pc \in Resting => batch = {}

\* A turn takes its prompt once, when it opens.
PromptInv ==
  /\ pc \in {"claim", "claimTurn"} => queued = {}
  /\ OnePromptPerTurn

\* Callers leave the driver's control alone, or start it.
LEMMA ControlCallers ==
  ASSUME Caller \/ Resume \/ FinishMaintenance
  PROVE  /\ UNCHANGED <<bracket, batch, queued>>
         /\ \/ UNCHANGED pc /\ (phase' = phase \/ {phase, phase'} = {"idle", "maintenance"})
            \/ phase # "running" /\ phase' = "running" /\ pc' = "begin"
<1>. USE DEF phaseVars, turnVars, history, inbox, fates
<1>1. CASE Caller
  BY <1>1 DEF Caller, Insert, Prepend, Replace, Remove, Send, CancelKeepingInbox,
     CancelClear, CancelEmpty, Withdraw, StartMaintenance
<1>2. CASE Resume
  BY <1>2 DEF Resume, Wake, Replay, wakeDriver, StartDriver, LatchWake,
     CancelClearTurn, CancelAbort, Withdraw
<1>3. CASE FinishMaintenance
  BY <1>3 DEF FinishMaintenance, StartDriver
<1>. QED
  BY <1>1, <1>2, <1>3

\* Every step keeps the control invariants.
LEMMA ControlStep == ControlInv /\ PromptInv /\ [Next]_vars => ControlInv' /\ PromptInv'
<1>. SUFFICES ASSUME ControlInv, PromptInv, [Next]_vars
              PROVE  ControlInv' /\ PromptInv'
  OBVIOUS
<1>. USE DEF ControlInv, PromptInv, Before, InStep, Resting, OnePromptPerTurn, At,
         phaseVars, turnVars, history, inbox, fates
<1>1. CASE Caller \/ Resume \/ FinishMaintenance
  BY <1>1, ControlCallers
<1>2. CASE BeginTurn
  BY <1>2 DEF BeginTurn
<1>3. CASE ClaimTurnInput
  BY <1>3 DEF ClaimTurnInput, ClaimNextStep, ClaimNextTurn
<1>4. CASE ThrowIfAborted
  BY <1>4 DEF ThrowIfAborted, CloseTurn
<1>5. CASE PreStepDecides
  BY <1>5 DEF PreStepDecides
<1>6. CASE PreStepThrows
  BY <1>6 DEF PreStepThrows
<1>7. CASE Reject
  BY <1>7 DEF Reject, CloseTurn
<1>8. CASE EnterEmpty
  BY <1>8 DEF EnterEmpty, CloseTurn
<1>9. CASE StartStep
  BY <1>9 DEF StartStep
<1>10. CASE Admit
  BY <1>10 DEF Admit
<1>11. CASE Retry
  BY <1>11 DEF Retry
<1>12. CASE StepReturns
  BY <1>12 DEF StepReturns
<1>13. CASE StepThrows
  BY <1>13 DEF StepThrows
<1>14. CASE EndStep
  BY <1>14 DEF EndStep
<1>15. CASE AfterStep
  BY <1>15 DEF AfterStep, ClaimNextStep
<1>16. CASE Stop
  BY <1>16 DEF Stop, ClaimNextStep, CloseTurn
<1>17. CASE Fail
  BY <1>17 DEF Fail, CloseTurn
<1>18. CASE ContinueOrLeave
  BY <1>18 DEF ContinueOrLeave
<1>19. CASE Settle
  BY <1>19 DEF Settle
<1>20. CASE UNCHANGED vars
  BY <1>20 DEF vars
<1>21. CASE restoreOtherClaimed
  BY <1>21 DEF restoreOtherClaimed
<1>. QED
  BY <1>1, <1>2, <1>3, <1>4, <1>5, <1>6, <1>7, <1>8, <1>9, <1>10, <1>11, <1>12, <1>13,
     <1>14, <1>15, <1>16, <1>17, <1>18, <1>19, <1>20, <1>21 DEF Next, Driver

\* The control invariants hold throughout.
THEOREM ControlCorrect == Spec => [](ControlInv /\ PromptInv)
<1>1. Init => ControlInv /\ PromptInv
  BY DEF Init, ControlInv, PromptInv, Before, InStep, Resting, OnePromptPerTurn
<1>2. ControlInv /\ PromptInv /\ [Next]_vars => (ControlInv /\ PromptInv)'
  BY ControlStep
<1>. QED
  BY <1>1, <1>2, PTL DEF Spec

\* However an activity ends, the idle agent has no open turn or step in its
\* log and holds no claimed message.
THEOREM QuietCorrect == Spec => []QuietUnlessRunning
<1>1. ControlInv => QuietUnlessRunning
  BY DEF ControlInv, QuietUnlessRunning, Before, InStep, Resting
<1>. QED
  BY <1>1, ControlCorrect, PTL

\* A turn is about one queued prompt at most.
THEOREM OnePromptCorrect == Spec => []OnePromptPerTurn
<1>1. PromptInv => OnePromptPerTurn
  BY DEF PromptInv
<1>. QED
  BY <1>1, ControlCorrect, PTL

-----------------------------------------------------------------------------
(* The stack of interrupted callers.                                         *)

Holds(s, f) == \E i \in DOMAIN s : s[i] = f
OneKick(s) == \A i, j \in DOMAIN s : s[i] = "kick" /\ s[j] = "kick" => i = j

\* Pushing a frame adds that frame.
LEMMA Pushing ==
  ASSUME NEW s \in Seq(Frame), NEW f \in Frame
  PROVE  /\ \A g : Holds(Append(s, f), g) <=> Holds(s, g) \/ g = f
         /\ OneKick(s) /\ (f = "kick" => ~Holds(s, "kick")) => OneKick(Append(s, f))
<1>1. DOMAIN s = 1 .. Len(s) /\ Len(s) \in Nat
  BY LenProperties
<1>2. /\ Append(s, f) \in Seq(Frame) /\ Len(Append(s, f)) = Len(s) + 1
      /\ \A i \in 1 .. Len(s) : Append(s, f)[i] = s[i]
      /\ Append(s, f)[Len(s) + 1] = f
  BY AppendProperties
<1>3. DOMAIN Append(s, f) = 1 .. Len(s) + 1
  BY <1>2, LenProperties
<1>. QED
  BY <1>1, <1>2, <1>3 DEF Holds, OneKick

\* Popping the stack removes its top frame.
LEMMA Popping ==
  ASSUME frames \in Seq(Frame), frames # <<>>
  PROVE  /\ \A g : Holds(frames, g) <=> Holds(Below, g) \/ g = frames[Len(frames)]
         /\ OneKick(frames) => /\ OneKick(Below)
                               /\ frames[Len(frames)] = "kick" => ~Holds(Below, "kick")
<1>1. /\ DOMAIN frames = 1 .. Len(frames) /\ Len(frames) \in Nat \ {0}
      /\ \A i \in 1 .. Len(frames) : frames[i] \in Frame
  BY LenProperties, ElementOfSeq, EmptySeq
<1>2. \A i \in 1 .. Len(frames) - 1 : frames[i] \in Frame
  BY <1>1
<1>3. /\ Below \in Seq(Frame)
      /\ Len(Below) = Len(frames) - 1
      /\ \A i \in 1 .. Len(frames) - 1 : Below[i] = frames[i]
  BY <1>1, <1>2, SubSeqProperties DEF Below
<1>4. DOMAIN Below = 1 .. Len(frames) - 1
  BY <1>3, LenProperties
<1>. QED
  BY <1>1, <1>3, <1>4 DEF Holds, OneKick

\* Nothing is below on an empty stack.
LEMMA PoppingEmpty ==
  ASSUME frames = <<>>
  PROVE  Below = <<>> /\ OneKick(<<>>) /\ \A g : ~Holds(<<>>, g)
  BY SubSeqEmpty DEF Below, Holds, OneKick

\* A new driver takes the place of the frame that started it.
LEMMA Starting ==
  ASSUME TypeOK, StartDriver, ~Holds(frames, "kick")
  PROVE  Holds(frames, "kick")' /\ OneKick(frames)'
<1>1. Below \in Seq(Frame) /\ "kick" \in Frame
  BY BelowIsStack DEF TypeOK, Frame
<1>2. ~Holds(Below, "kick")
  BY Popping, PoppingEmpty DEF TypeOK
<1>3. OneKick(Below)
  BY <1>2 DEF OneKick, Holds
<1>. QED
  BY <1>1, <1>2, <1>3, Pushing DEF StartDriver

\* On the stack there is at most one driver, one that has not yet reached its
\* first await: no awaiting driver resumes under an interrupted caller.
StackInv ==
  /\ Holds(frames, "kick") => pc \in {"begin", "claim", "claimTurn"}
  /\ OneKick(frames)

\* A driver past its first await runs on an empty stack only.
LEMMA ResumesAlone ==
  ASSUME TypeOK, StackInv, NEW where, At(where), where \notin {"begin", "claim", "claimTurn"}
  PROVE  frames = <<>>
<1>1. frames # <<>> => (Top("kick") => Holds(frames, "kick"))
  BY Popping DEF TypeOK, Top
<1>. QED
  BY <1>1 DEF At, StackInv, Top

\* Giving way takes the driver off the stack.
LEMMA Suspending ==
  ASSUME TypeOK, StackInv, frames = <<>> \/ Top("kick"), Suspend
  PROVE  ~Holds(frames, "kick")' /\ OneKick(frames)'
<1>1. CASE frames = <<>>
  BY <1>1, PoppingEmpty DEF Suspend, Top
<1>2. CASE Top("kick")
  BY <1>2, Popping DEF Suspend, Top, StackInv, TypeOK
<1>. QED
  BY <1>1, <1>2

\* Every step keeps the stack invariant.
LEMMA StackStep == TypeOK /\ ControlInv /\ StackInv /\ [Next]_vars => StackInv'
<1>. SUFFICES ASSUME TypeOK, ControlInv, StackInv, [Next]_vars
              PROVE  StackInv'
  OBVIOUS
<1>. USE DEF phaseVars, turnVars, history, inbox, fates
<1>a. frames \in Seq(Frame) /\ (Holds(frames, "kick") => phase = "running")
  BY DEF TypeOK, StackInv, ControlInv
<1>b. \A f \in Frame \ {"kick"} :
        frames' = Append(frames, f) /\ UNCHANGED pc => StackInv'
  BY <1>a, Pushing DEF StackInv
<1>c. \A f : Top(f) /\ frames' = Below /\ UNCHANGED pc => StackInv'
  BY <1>a, Popping DEF StackInv, Top
<1>d. StartDriver /\ phase # "running" => StackInv'
  BY <1>a, Starting DEF StackInv, StartDriver
<1>e. UNCHANGED <<frames, pc>> => StackInv'
  BY DEF StackInv
<1>f. frames = <<>> /\ UNCHANGED frames => StackInv'
  BY PoppingEmpty DEF StackInv
<1>1. CASE Caller
  <2>1. \A m, n \in Message, list \in {"next-turn", "next-step"} :
          Insert(m, list) \/ Prepend(m) \/ Replace(m, n) \/ Remove(m) => StackInv'
    BY <1>e DEF Insert, Prepend, Replace, Remove
  <2>2. \A m \in Message, list \in {"next-turn", "next-step"} : Send(m, list) => StackInv'
    BY <1>b DEF Send, WakeFrame, Frame
  <2>3. \A cause \in Cause : CancelClear(cause) => StackInv'
    BY <1>b DEF CancelClear, Clearing, Frame, Cause
  <2>4. \A cause \in Cause : CancelKeepingInbox(cause) \/ CancelEmpty(cause) => StackInv'
    BY <1>e DEF CancelKeepingInbox, CancelEmpty, Withdraw
  <2>5. StartMaintenance => StackInv'
    BY <1>e DEF StartMaintenance
  <2>. QED
    BY <1>1, <2>1, <2>2, <2>3, <2>4, <2>5 DEF Caller
<1>2. CASE Resume
  <2>1. \A a : Top("wake") \/ Top("wakeAfterAbort") \/ Top("replay")
          => (wakeDriver(a) => StackInv')
    BY <1>c, <1>d DEF wakeDriver, LatchWake
  <2>2. \A a \in BOOLEAN : Wake(a) => StackInv'
    BY <2>1 DEF Wake
  <2>3. Replay => StackInv'
    BY <1>c, <2>1 DEF Replay
  <2>4. \A cause \in Cause : CancelAbort(cause) => StackInv'
    BY <1>c DEF CancelAbort, Withdraw
  <2>5. ASSUME NEW cause \in Cause, CancelClearTurn(cause) PROVE StackInv'
    <3>1. Below \in Seq(Frame) /\ (\A g : Holds(Below, g) => Holds(frames, g)) /\ OneKick(Below)
      BY <1>a, <2>5, BelowIsStack, Popping DEF CancelClearTurn, Top, StackInv
    <3>2. cause \in Frame \ {"kick"}
      BY DEF Frame, Cause
    <3>. QED
      BY <2>5, <3>1, <3>2, Pushing DEF CancelClearTurn, StackInv
  <2>. QED
    BY <1>2, <2>2, <2>3, <2>4, <2>5 DEF Resume
<1>3. CASE FinishMaintenance
  BY <1>3, <1>d, <1>e DEF FinishMaintenance
<1>4. CASE BeginTurn
  BY <1>4, Suspending DEF BeginTurn, At, StackInv
<1>5. CASE ClaimTurnInput
  BY <1>5, Suspending DEF ClaimTurnInput, ClaimNextStep, ClaimNextTurn, At, StackInv
<1>6. CASE ThrowIfAborted
  BY <1>6, Suspending DEF ThrowIfAborted, CloseTurn, At, StackInv
<1>7. CASE \/ restoreOtherClaimed \/ PreStepDecides \/ PreStepThrows
           \/ Reject \/ EnterEmpty \/ StartStep \/ Admit
  BY <1>7, <1>f, ResumesAlone DEF restoreOtherClaimed, PreStepDecides, PreStepThrows,
     Reject, EnterEmpty, StartStep, Admit
<1>8. CASE Retry \/ StepReturns \/ StepThrows \/ EndStep \/ AfterStep \/ Stop \/ Fail \/ ContinueOrLeave
  BY <1>8, <1>f, ResumesAlone DEF Retry, StepReturns, StepThrows, EndStep, AfterStep,
     Stop, Fail, ContinueOrLeave
<1>9. CASE Settle
  <2>1. frames = <<>> /\ "replay" \in Frame
    BY <1>9, ResumesAlone DEF Settle, Frame
  <2>2. ~Holds(frames, "kick") /\ OneKick(frames)
    BY <2>1, PoppingEmpty
  <2>. QED
    BY <1>9, <1>a, <2>1, <2>2, Pushing DEF Settle, StackInv
<1>10. CASE UNCHANGED vars
  BY <1>10, <1>e DEF vars
<1>. QED
  BY <1>1, <1>2, <1>3, <1>4, <1>5, <1>6, <1>7, <1>8, <1>9, <1>10 DEF Next, Driver

-----------------------------------------------------------------------------
(* What waits in the inbox.                                                  *)

\* Appending adds one element.
LEMMA RangeAppend ==
  ASSUME NEW S, NEW s \in Seq(S), NEW e \in S
  PROVE  Range(Append(s, e)) = Range(s) \cup {e}
<1>1. DOMAIN s = 1 .. Len(s) /\ Len(s) \in Nat
  BY LenProperties
<1>2. /\ Append(s, e) \in Seq(S) /\ Len(Append(s, e)) = Len(s) + 1
      /\ \A i \in 1 .. Len(s) : Append(s, e)[i] = s[i]
      /\ Append(s, e)[Len(s) + 1] = e
  BY AppendProperties
<1>3. DOMAIN Append(s, e) = 1 .. Len(s) + 1
  BY <1>2, LenProperties
<1>. QED
  BY <1>1, <1>2, <1>3 DEF Range

\* So does prepending.
LEMMA RangeCons ==
  ASSUME NEW S, NEW s \in Seq(S), NEW e \in S
  PROVE  Range(<<e>> \o s) = {e} \cup Range(s)
<1>. DEFINE t == <<e>>
<1>1. t \in Seq(S) /\ Len(t) = 1 /\ t[1] = e
  OBVIOUS
<1>. HIDE DEF t
<1>2. DOMAIN s = 1 .. Len(s) /\ Len(s) \in Nat
  BY LenProperties
<1>3. /\ t \o s \in Seq(S) /\ Len(t \o s) = 1 + Len(s)
      /\ \A i \in 1 .. 1 + Len(s) : (t \o s)[i] = IF i <= 1 THEN t[i] ELSE s[i - 1]
  <2>1. /\ t \o s \in Seq(S) /\ Len(t \o s) = Len(t) + Len(s)
        /\ \A i \in 1 .. Len(t) + Len(s) : (t \o s)[i] = IF i <= Len(t) THEN t[i]
                                                                 ELSE s[i - Len(t)]
    <3>1. t \in Seq(S)
      BY <1>1
    <3>. QED
      BY <3>1, ConcatProperties, Zenon
  <2>2. Len(t) = 1
    BY <1>1
  <2>. QED
    BY <2>1, <2>2, Zenon
<1>4. DOMAIN (t \o s) = 1 .. 1 + Len(s)
  BY <1>3, LenProperties
<1>5. \A i \in 1 .. Len(s) : i + 1 \in 1 .. 1 + Len(s) /\ (t \o s)[i + 1] = s[i]
  BY <1>2, <1>3
<1>6. (t \o s)[1] = e /\ 1 \in 1 .. 1 + Len(s)
  BY <1>1, <1>2, <1>3
<1>7. \A i \in 2 .. 1 + Len(s) : (t \o s)[i] = s[i - 1] /\ i - 1 \in 1 .. Len(s)
  BY <1>2, <1>3
<1>8. 1 .. 1 + Len(s) = {1} \cup 2 .. 1 + Len(s)
  BY <1>2
<1>. DEFINE u == t \o s
<1>. HIDE DEF u
<1>a. /\ DOMAIN u = {1} \cup 2 .. 1 + Len(s) /\ u[1] = e
      /\ \A i \in 1 .. Len(s) : i + 1 \in DOMAIN u /\ u[i + 1] = s[i]
      /\ \A i \in 2 .. 1 + Len(s) : u[i] = s[i - 1] /\ i - 1 \in 1 .. Len(s)
  BY <1>4, <1>5, <1>6, <1>7, <1>8 DEF u
<1>b. Range(u) \subseteq {e} \cup Range(s)
  BY <1>2, <1>a DEF Range
<1>c. {e} \cup Range(s) \subseteq Range(u)
  BY <1>2, <1>a DEF Range
<1>9. Range(t \o s) = {e} \cup Range(s)
  BY <1>b, <1>c DEF u
<1>. QED
  BY <1>9 DEF t

\* Dropping an element adds none.
LEMMA RangeDropAt ==
  ASSUME NEW S, NEW s \in Seq(S), NEW i \in DOMAIN s
  PROVE  Range(DropAt(s, i)) \subseteq Range(s)
<1>1. DOMAIN s = 1 .. Len(s) /\ Len(s) \in Nat
  BY LenProperties
<1>2. \A j \in 1 .. Len(s) - 1 : j \in DOMAIN s /\ j + 1 \in DOMAIN s
  BY <1>1
<1>. QED
  BY <1>2 DEF Range, DropAt

\* Neither does taking the first one.
LEMMA RangeTail ==
  ASSUME NEW S, NEW s \in Seq(S), s # <<>>
  PROVE  Range(Tail(s)) \subseteq Range(s) /\ Head(s) \in Range(s)
<1>1. DOMAIN s = 1 .. Len(s) /\ Len(s) \in Nat \ {0}
  BY LenProperties, EmptySeq
<1>2. /\ Tail(s) \in Seq(S) /\ Len(Tail(s)) = Len(s) - 1
      /\ \A i \in 1 .. Len(Tail(s)) : Tail(s)[i] = s[i + 1]
  BY HeadTailProperties
<1>3. DOMAIN Tail(s) = 1 .. Len(s) - 1
  BY <1>2, LenProperties
<1>4. Head(s) = s[1]
  BY <1>1
<1>. QED
  BY <1>1, <1>2, <1>3, <1>4 DEF Range

\* Inserting adds the message to what is pending.
LEMMA PendingPush ==
  ASSUME TypeOK, NEW m \in Message, NEW list, Push(list, m)
  PROVE  Pending' = Pending \cup {m}
<1>1. /\ Range(Append(nextTurn, m)) = Range(nextTurn) \cup {m}
      /\ Range(Append(nextStep, m)) = Range(nextStep) \cup {m}
  BY RangeAppend DEF TypeOK
<1>. QED
  BY <1>1 DEF Push, Pending

\* Without pending work, nothing is pending.
LEMMA NothingPending == ~hasPending => Pending = {}
  BY DEF hasPending, Pending, Range

\* But for what a pre-step listener puts back, no step makes anything pending
\* but messages that were not submitted before.
LEMMA PendingStep ==
  ASSUME TypeOK, [Next]_vars, ~restoreOtherClaimed
  PROVE  Pending' \subseteq Pending \cup unsent /\ unsent' \subseteq unsent
<1>. USE DEF phaseVars, turnVars, history, inbox, fates
<1>a. nextTurn \in Seq(Message) /\ nextStep \in Seq(Message) /\ unsent \subseteq Message
  BY DEF TypeOK
<1>b. UNCHANGED <<nextTurn, nextStep, unsent>> => Pending' = Pending /\ unsent' = unsent
  BY DEF Pending
<1>c. nextStep' = <<>> /\ nextTurn' = nextTurn => Pending' \subseteq Pending
  BY DEF Pending, Range
<1>d. /\ nextTurn' = IF nextTurn = <<>> THEN <<>> ELSE Tail(nextTurn)
      /\ nextStep' = nextStep
      => Pending' \subseteq Pending
  BY <1>a, RangeTail DEF Pending
<1>e. ToolContext /\ nextTurn' = nextTurn => Pending' \subseteq Pending \cup unsent /\ unsent' \subseteq unsent
  <2>1. ASSUME NEW m \in unsent, nextStep' = Append(nextStep, m), unsent' = unsent \ {m},
               nextTurn' = nextTurn
        PROVE  Pending' \subseteq Pending \cup unsent /\ unsent' \subseteq unsent
    <3>1. Range(Append(nextStep, m)) = Range(nextStep) \cup {m}
      BY <1>a, RangeAppend
    <3>. QED
      BY <2>1, <3>1 DEF Pending
  <2>. QED
    BY <1>b, <2>1 DEF ToolContext
<1>1. CASE Caller
  <2>1. ASSUME NEW m \in Message, NEW list \in {"next-turn", "next-step"}, Insert(m, list)
        PROVE  Pending' \subseteq Pending \cup unsent /\ unsent' \subseteq unsent
    <3>1. Pending' = Pending \cup {m}
      BY <2>1, PendingPush DEF Insert
    <3>. QED
      BY <2>1, <3>1 DEF Insert
  <2>2. ASSUME NEW m \in Message, Prepend(m)
        PROVE  Pending' \subseteq Pending \cup unsent /\ unsent' \subseteq unsent
    <3>1. Range(<<m>> \o nextStep) = {m} \cup Range(nextStep)
      BY <1>a, RangeCons
    <3>. QED
      BY <2>2, <3>1 DEF Prepend, Pending
  <2>3. ASSUME NEW m \in Message, NEW n \in Message, Replace(m, n)
        PROVE  Pending' \subseteq Pending \cup unsent /\ unsent' \subseteq unsent
    <3>1. \A s \in Seq(Message) : \A i \in DOMAIN s :
            Range([s EXCEPT ![i] = n]) \subseteq Range(s) \cup {n}
      BY DEF Range
    <3>. QED
      BY <1>a, <2>3, <3>1 DEF Replace, ReplaceAt, Pending
  <2>4. ASSUME NEW m \in Message, Remove(m)
        PROVE  Pending' \subseteq Pending \cup unsent /\ unsent' \subseteq unsent
    <3>1. /\ \A i \in DOMAIN nextTurn : Range(DropAt(nextTurn, i)) \subseteq Range(nextTurn)
          /\ \A i \in DOMAIN nextStep : Range(DropAt(nextStep, i)) \subseteq Range(nextStep)
      BY <1>a, RangeDropAt
    <3>. QED
      BY <2>4, <3>1 DEF Remove, Pending
  <2>5. ASSUME NEW m \in Message, NEW list \in {"next-turn", "next-step"}, Send(m, list)
        PROVE  Pending' \subseteq Pending \cup unsent /\ unsent' \subseteq unsent
    BY <2>5, PendingPush DEF Send
  <2>6. ASSUME NEW cause \in Cause, CancelClear(cause)
        PROVE  Pending' \subseteq Pending \cup unsent /\ unsent' \subseteq unsent
    BY <2>6 DEF CancelClear, ClearPrompts, Pending, Range
  <2>7. ASSUME NEW cause \in Cause,
               CancelKeepingInbox(cause) \/ CancelEmpty(cause) \/ StartMaintenance
        PROVE  Pending' \subseteq Pending \cup unsent /\ unsent' \subseteq unsent
    BY <2>7, <1>b DEF CancelKeepingInbox, CancelEmpty, Withdraw, StartMaintenance
  <2>. QED
    BY <1>1, <2>1, <2>2, <2>3, <2>4, <2>5, <2>6, <2>7 DEF Caller, Cause
<1>2. CASE Resume \/ FinishMaintenance
  <2>1. ASSUME NEW cause \in Cause, CancelClearTurn(cause)
        PROVE  Pending' \subseteq Pending \cup unsent /\ unsent' \subseteq unsent
    BY <2>1 DEF CancelClearTurn, ClearPrompts, Pending, Range
  <2>. QED
    BY <1>2, <1>b, <2>1 DEF Resume, Wake, Replay, CancelAbort, Withdraw, FinishMaintenance
<1>3. CASE BeginTurn \/ ThrowIfAborted \/ PreStepDecides \/ PreStepThrows \/ Reject
  BY <1>3, <1>b DEF BeginTurn, ThrowIfAborted, PreStepDecides, PreStepThrows, Reject
<1>4. CASE EnterEmpty \/ StartStep \/ Admit \/ Retry \/ EndStep \/ Fail \/ ContinueOrLeave \/ Settle
  BY <1>4, <1>b DEF EnterEmpty, StartStep, Admit, Retry, EndStep, Fail, ContinueOrLeave, Settle
<1>5. CASE ClaimTurnInput
  BY <1>5, <1>c, <1>d DEF ClaimTurnInput, ClaimNextStep, ClaimNextTurn
<1>6. CASE AfterStep
  BY <1>6, <1>b, <1>c DEF AfterStep, ClaimNextStep
<1>7. CASE Stop
  BY <1>7, <1>b, <1>c DEF Stop, ClaimNextStep
<1>8. CASE StepReturns
  BY <1>8, <1>e DEF StepReturns
<1>9. CASE StepThrows
  BY <1>9, <1>b, <1>e DEF StepThrows
<1>10. CASE UNCHANGED vars
  BY <1>10, <1>b DEF vars
<1>. QED
  BY <1>1, <1>2, <1>3, <1>4, <1>5, <1>6, <1>7, <1>8, <1>9, <1>10 DEF Next, Driver

\* What the agent was given and has not settled.
Held == Pending \cup batch

\* No step makes anything held but messages that were not submitted before.
LEMMA HeldStep ==
  ASSUME TypeOK, [Next]_vars
  PROVE  Held' \subseteq Held \cup unsent /\ unsent' \subseteq unsent
<1>. USE DEF phaseVars, turnVars, history, inbox, fates
<1>1. CASE restoreOtherClaimed
  <2>1. PICK m \in batch : nextStep' = <<m>> \o nextStep /\ batch' = batch \ {m}
    BY <1>1 DEF restoreOtherClaimed
  <2>2. Range(<<m>> \o nextStep) = {m} \cup Range(nextStep)
    BY RangeCons DEF TypeOK
  <2>. QED
    BY <1>1, <2>1, <2>2 DEF restoreOtherClaimed, Pending, Held
<1>2. CASE ~restoreOtherClaimed
  <2>1. batch' \subseteq Held
    <3>1. CASE Caller \/ Resume \/ FinishMaintenance
      BY <3>1, ControlCallers DEF Held
    <3>2. CASE ClaimTurnInput
      <4>1. nextTurn # <<>> => Head(nextTurn) \in Range(nextTurn)
        BY RangeTail DEF TypeOK
      <4>. QED
        BY <3>2, <4>1 DEF ClaimTurnInput, ClaimNextStep, ClaimNextTurn, Held, Pending
    <3>3. CASE AfterStep \/ Stop
      BY <3>3 DEF AfterStep, Stop, ClaimNextStep, CloseTurn, Held, Pending
    <3>4. CASE BeginTurn \/ ThrowIfAborted \/ PreStepDecides \/ PreStepThrows \/ Reject
      BY <3>4 DEF BeginTurn, ThrowIfAborted, PreStepDecides, PreStepThrows, Reject,
         CloseTurn, Held
    <3>5. CASE EnterEmpty \/ StartStep \/ Admit \/ Retry \/ StepReturns \/ StepThrows
      BY <3>5 DEF EnterEmpty, StartStep, Admit, Retry, StepReturns, StepThrows,
         CloseTurn, Held
    <3>6. CASE EndStep \/ Fail \/ ContinueOrLeave \/ Settle
      BY <3>6 DEF EndStep, Fail, ContinueOrLeave, Settle, CloseTurn, Held
    <3>7. CASE UNCHANGED vars
      BY <3>7 DEF vars, Held
    <3>. QED
      BY <1>2, <3>1, <3>2, <3>3, <3>4, <3>5, <3>6, <3>7 DEF Next, Driver
  <2>. QED
    BY <1>2, <2>1, PendingStep DEF Held
<1>. QED
  BY <1>1, <1>2

-----------------------------------------------------------------------------
(* No wake is lost behind an aborted activity.                               *)

\* What will still start a driver for work that an activity keeps waiting:
\* its latch, a caller that is about to set the latch, or a caller that is
\* about to replay one.
Justified ==
  \/ phase # "idle" /\ abort # "disposed" /\ wakeRequested
  \/ phase # "idle" /\ abort # "disposed" /\ Holds(frames, "wakeAfterAbort")
  \/ phase = "maintenance" /\ abort # "disposed" /\ Holds(frames, "wake")
  \/ phase = "maintenance" /\ abort # "disposed" /\ Holds(frames, "replay")
  \/ phase = "idle" /\ Holds(frames, "replay")

WakeInv ==
  /\ owed \cap unsent = {}
  /\ owed \cap Held # {} => Justified

\* Steps that neither accept a wake nor withdraw one.
LEMMA WakeKept ==
  ASSUME TypeOK, WakeInv, [Next]_vars, owed' \subseteq owed, Justified => Justified'
  PROVE  WakeInv'
  BY HeldStep DEF WakeInv

\* Steps after which nothing is owed.
LEMMA WakeSettled == ASSUME owed' = {} PROVE WakeInv'
  BY DEF WakeInv

\* Starting the driver settles what was owed; a latch takes over from the
\* frame that sets it.
LEMMA WakeDriver ==
  ASSUME TypeOK, WakeInv, [Next]_vars, NEW a \in BOOLEAN, wakeDriver(a),
         \/ Top("replay") /\ ~a
         \/ Top(IF a THEN "wakeAfterAbort" ELSE "wake")
  PROVE  WakeInv'
<1>1. CASE StartDriver
  BY <1>1, WakeSettled DEF StartDriver
<1>2. CASE phase # "idle" /\ LatchWake(a)
  <2>1. frames \in Seq(Frame) /\ frames # <<>>
    BY DEF TypeOK, Top
  <2>2. \A g : Holds(frames, g) <=> Holds(Below, g) \/ g = frames[Len(frames)]
    BY <2>1, Popping
  <2>3. Justified => Justified'
    BY <1>2, <2>2 DEF Justified, LatchWake, Latches, Top, TypeOK
  <2>. QED
    BY <1>2, <2>3, WakeKept DEF LatchWake, history
<1>. QED
  BY <1>1, <1>2 DEF wakeDriver

\* Every step keeps the wake invariant.
LEMMA WakeStep == TypeOK /\ ControlInv /\ StackInv /\ WakeInv /\ [Next]_vars => WakeInv'
<1>. SUFFICES ASSUME TypeOK, ControlInv, StackInv, WakeInv, [Next]_vars
              PROVE  WakeInv'
  OBVIOUS
<1>. USE DEF phaseVars, turnVars, history, inbox, fates
<1>a. frames \in Seq(Frame)
  BY DEF TypeOK
<1>b. UNCHANGED <<phaseVars, frames>> => (Justified => Justified')
  BY DEF Justified
<1>c. UNCHANGED <<phaseVars, frames, owed>> => WakeInv'
  BY <1>b, WakeKept
<1>e. phase # "running" => batch = {}
  BY DEF ControlInv, Resting, Before
<1>1. CASE Caller
  <2>1. ASSUME NEW m \in Message, NEW list \in {"next-turn", "next-step"}, Send(m, list)
        PROVE  WakeInv'
    <3>1. WakeFrame \in Frame /\ frames' = Append(frames, WakeFrame)
      BY <2>1 DEF Send, WakeFrame, Frame
    <3>2. \A g : Holds(frames', g) <=> Holds(frames, g) \/ g = WakeFrame
      BY <1>a, <3>1, Pushing
    <3>3. Justified => Justified'
      BY <2>1, <3>2 DEF Send, Justified
    <3>4. CASE owed' = owed
      BY <3>3, <3>4, WakeKept
    <3>5. CASE phase # "idle" /\ abort # "disposed" /\ (phase = "maintenance" \/ aborted)
      <4>1. Justified'
        BY <2>1, <3>2, <3>5 DEF Send, Justified, WakeFrame, WakingAfterAbort, TypeOK
      <4>. QED
        BY <2>1, <4>1 DEF Send, WakeInv
    <3>. QED
      BY <2>1, <3>4, <3>5 DEF Send
  <2>2. ASSUME NEW cause \in Cause, CancelKeepingInbox(cause)
        PROVE  WakeInv'
    <3>1. CASE cause = "disposed"
      BY <2>2, <3>1, WakeSettled DEF CancelKeepingInbox
    <3>2. CASE cause = "user"
      <4>1. Justified => Justified'
        BY <2>2, <3>2 DEF CancelKeepingInbox, AbortActivity, Justified, TypeOK
      <4>. QED
        BY <2>2, <3>2, <4>1, WakeKept DEF CancelKeepingInbox
    <3>. QED
      BY <3>1, <3>2 DEF Cause
  <2>3. ASSUME NEW cause \in Cause, CancelClear(cause)
        PROVE  WakeInv'
    <3>1. \E f \in Frame : frames' = Append(frames, f)
      BY <2>3 DEF CancelClear, Clearing, Frame, Cause
    <3>2. Justified => Justified'
      BY <1>a, <2>3, <3>1, Pushing DEF CancelClear, Justified
    <3>. QED
      BY <2>3, <3>2, WakeKept DEF CancelClear
  <2>4. ASSUME NEW cause \in Cause, CancelEmpty(cause)
        PROVE  WakeInv'
    BY <2>4, WakeSettled DEF CancelEmpty, Withdraw
  <2>5. ASSUME StartMaintenance PROVE WakeInv'
    <3>1. Justified => Justified'
      BY <2>5, NoneAssumption DEF StartMaintenance, Justified, Cause
    <3>. QED
      BY <2>5, <3>1, WakeKept DEF StartMaintenance
  <2>. QED
    BY <1>1, <1>c, <2>1, <2>2, <2>3, <2>4, <2>5 DEF Caller, Insert, Prepend, Replace, Remove
<1>2. CASE Resume
  <2>1. ASSUME NEW a \in BOOLEAN, Wake(a) PROVE WakeInv'
    BY <2>1, WakeDriver DEF Wake
  <2>2. CASE Replay
    <3>1. CASE wakeDriver(FALSE)
      BY <2>2, <3>1, WakeDriver DEF Replay
    <3>2. CASE ~hasPending /\ phase # "running"
      <4>1. Held' = {}
        BY <2>2, <3>2, <1>e, NothingPending DEF Replay, Pending, Held
      <4>2. owed' \subseteq owed /\ unsent' = unsent
        BY <2>2, <3>2 DEF Replay
      <4>. QED
        BY <4>1, <4>2 DEF WakeInv
    <3>3. CASE ~hasPending /\ phase = "running"
      <4>1. UNCHANGED <<phaseVars, owed>> /\ frames' = Below
        BY <2>2, <3>3 DEF Replay
      <4>2. Holds(frames, "wakeAfterAbort") => Holds(frames', "wakeAfterAbort")
        BY <1>a, <2>2, <4>1, Popping DEF Replay, Top
      <4>. QED
        BY <3>3, <4>1, <4>2, WakeKept DEF Justified
    <3>. QED
      BY <2>2, <3>1, <3>2, <3>3 DEF Replay
  <2>3. ASSUME NEW cause \in Cause, CancelAbort(cause) PROVE WakeInv'
    BY <2>3, WakeSettled DEF CancelAbort, Withdraw
  <2>4. ASSUME NEW cause \in Cause, CancelClearTurn(cause) PROVE WakeInv'
    <3>1. Below \in Seq(Frame) /\ cause \in Frame
      BY <1>a, BelowIsStack DEF Frame
    <3>2. \A g : Holds(frames, g) /\ g # Clearing[cause] => Holds(Below, g)
      BY <1>a, <2>4, Popping DEF CancelClearTurn, Top
    <3>3. \A g : Holds(frames, g) /\ g # Clearing[cause] => Holds(frames', g)
      BY <2>4, <3>1, <3>2, Pushing DEF CancelClearTurn
    <3>4. Justified => Justified'
      BY <2>4, <3>3 DEF CancelClearTurn, Justified, Clearing, Cause
    <3>. QED
      BY <2>4, <3>4, WakeKept DEF CancelClearTurn
  <2>. QED
    BY <1>2, <2>1, <2>2, <2>3, <2>4 DEF Resume
<1>3. CASE FinishMaintenance
  <2>1. CASE StartDriver
    BY <2>1, WakeSettled DEF StartDriver
  <2>2. CASE ~StartDriver
    <3>1. \A g : ~Holds(frames, g)
      BY <1>3, PoppingEmpty DEF FinishMaintenance
    <3>2. abort = "disposed" \/ ~wakeRequested \/ ~hasPending
      BY <1>3, <2>2 DEF FinishMaintenance
    <3>3. owed \cap Held = {}
      BY <3>1, <3>2, <1>3, <1>e, NothingPending DEF WakeInv, Justified, FinishMaintenance, Held
    <3>. QED
      BY <1>3, <2>2, <3>3 DEF FinishMaintenance, WakeInv, Pending, Held
  <2>. QED
    BY <2>1, <2>2
<1>d. Suspend /\ (frames = <<>> \/ Top("kick")) /\ UNCHANGED phaseVars => (Justified => Justified')
  <2>1. frames # <<>> => \A g : Holds(frames, g) <=> Holds(Below, g) \/ g = frames[Len(frames)]
    BY <1>a, Popping
  <2>. QED
    BY <2>1 DEF Suspend, Top, Justified
<1>4. CASE BeginTurn \/ ClaimTurnInput \/ ThrowIfAborted
  <2>1. Justified => Justified'
    BY <1>4, <1>b, <1>d DEF BeginTurn, ClaimTurnInput, ThrowIfAborted, At
  <2>2. owed' = owed
    BY <1>4 DEF BeginTurn, ClaimTurnInput, ThrowIfAborted
  <2>. QED
    BY <2>1, <2>2, WakeKept
<1>5. CASE \/ restoreOtherClaimed \/ PreStepDecides \/ PreStepThrows
           \/ Reject \/ EnterEmpty \/ StartStep \/ Admit
  BY <1>5, <1>c DEF restoreOtherClaimed, PreStepDecides, PreStepThrows, Reject, EnterEmpty,
     StartStep, Admit
<1>6. CASE Retry \/ StepReturns \/ StepThrows \/ EndStep \/ AfterStep \/ Stop \/ Fail
  BY <1>6, <1>c DEF Retry, StepReturns, StepThrows, EndStep, AfterStep, Stop, Fail
<1>7. CASE ContinueOrLeave
  <2>1. CASE hasPending
    BY <1>7, <2>1, WakeSettled DEF ContinueOrLeave
  <2>2. CASE ~hasPending
    BY <1>7, <2>2, <1>c DEF ContinueOrLeave
  <2>. QED
    BY <2>1, <2>2
<1>8. CASE Settle
  <2>1. frames = <<>> /\ "replay" \in Frame /\ \A g : ~Holds(frames, g)
    BY <1>8, ResumesAlone, PoppingEmpty DEF Settle, Frame
  <2>2. Justified => wakeRequested
    BY <1>8, <2>1 DEF Justified, Settle, At
  <2>3. wakeRequested => Holds(frames', "replay")
    BY <1>8, <1>a, <2>1, Pushing DEF Settle
  <2>4. Justified => Justified'
    BY <1>8, <2>2, <2>3 DEF Justified, Settle
  <2>. QED
    BY <1>8, <2>4, WakeKept DEF Settle
<1>9. CASE UNCHANGED vars
  BY <1>9, <1>c DEF vars
<1>. QED
  BY <1>1, <1>2, <1>3, <1>4, <1>5, <1>6, <1>7, <1>8, <1>9 DEF Next, Driver

\* Types, control, stack and wakes hold together, in every reachable state.
THEOREM Inductive == Spec => [](TypeOK /\ ControlInv /\ PromptInv /\ StackInv /\ WakeInv)
<1>. DEFINE IInv == TypeOK /\ ControlInv /\ PromptInv /\ StackInv /\ WakeInv
<1>1. Init => IInv
  <2>1. Init => ControlInv /\ PromptInv
    BY DEF Init, ControlInv, PromptInv, Before, InStep, Resting, OnePromptPerTurn
  <2>2. Init => StackInv
    BY PoppingEmpty DEF Init, StackInv
  <2>3. Init => WakeInv
    BY DEF Init, WakeInv
  <2>. QED
    BY <2>1, <2>2, <2>3, TypeInit
<1>2. IInv /\ [Next]_vars => IInv'
  BY TypeStep, ControlStep, StackStep, WakeStep
<1>. QED
  BY <1>1, <1>2, PTL DEF Spec

\* Waking input accepted behind an aborted activity or maintenance is not
\* left behind when the agent has become idle.
THEOREM WakeOutlivesAbortCorrect == Spec => []WakeOutlivesAbort
<1>1. TypeOK /\ WakeInv => WakeOutlivesAbort
  <2>. SUFFICES ASSUME TypeOK, WakeInv, phase = "idle", frames = <<>>
                PROVE  owed \cap Pending = {}
    BY DEF WakeOutlivesAbort
  <2>1. ~Justified
    BY PoppingEmpty DEF Justified
  <2>. QED
    BY <2>1 DEF WakeInv, Held
<1>. QED
  BY <1>1, Inductive, PTL


-----------------------------------------------------------------------------
(* An aborted driver converges.                                              *)

\* How many steps of its own an aborted driver has left at most, not counting
\* the messages that a listener puts back one by one.
StepsLeft == CASE pc = "claimTurn" -> 5
               [] pc \in {"request", "stream", "preStep"} -> 4
               [] pc \in {"restoring", "enteredEmpty", "stepReturned", "stepFailed"} -> 3
               [] pc \in {"begin", "claim", "rejected", "entered", "afterStep",
                          "stopping", "failed", "closed"} -> 2
               [] pc = "settling" -> 1
               [] OTHER -> 0

\* Fewer steps are left, or fewer messages to put back.
Descends ==
  \/ StepsLeft' < StepsLeft
  \/ UNCHANGED pc /\ batch' \subseteq batch /\ batch' # batch

\* The driver has come to its end, or goes on to a turn under a fresh controller.
Converged == phase # "running" \/ ~aborted

\* An aborted driver takes five steps at most before it converges, and one more
\* for each message that a listener puts back; each leaves it fewer, and nobody
\* else moves it: no retry, no further step, no stopping listener and no caller
\* keeps it in its turn (agent.ts turn, preStep and step, every
\* signal.throwIfAborted; goal-round-driver restoreOtherClaimed).
THEOREM AbortedDriverDescends ==
  Spec => /\ [](phase = "running" => StepsLeft \in 1 .. 5)
          /\ [][~Converged => \/ Converged'
                              \/ Driver /\ Descends
                              \/ ~Driver /\ UNCHANGED pc]_vars
<1>1. TypeOK /\ ControlInv /\ phase = "running" => StepsLeft \in 1 .. 5
  BY DEF TypeOK, ControlInv, StepsLeft
<1>2. ASSUME Next, ~Converged, ~Converged'
      PROVE  \/ Driver /\ Descends
             \/ ~Driver /\ UNCHANGED pc
  <2>. USE <1>2 DEF Converged, phaseVars, turnVars, history, inbox, fates
  <2>1. CASE ~Driver
    BY <2>1, ControlCallers DEF Next
  <2>2. ASSUME Driver PROVE Descends
    <3>. USE DEF Descends, StepsLeft, At
    <3>1. CASE BeginTurn
      BY <3>1 DEF BeginTurn
    <3>2. CASE ClaimTurnInput
      BY <3>2 DEF ClaimTurnInput, ClaimNextTurn, aborted
    <3>3. CASE ThrowIfAborted
      BY <3>3 DEF ThrowIfAborted, CloseTurn
    <3>4. CASE StartStep \/ Admit \/ Retry \/ AfterStep \/ Stop
      BY <3>4 DEF StartStep, Admit, Retry, AfterStep, Stop
    <3>5. CASE restoreOtherClaimed
      BY <3>5 DEF restoreOtherClaimed
    <3>6. CASE PreStepDecides \/ PreStepThrows
      BY <3>6 DEF PreStepDecides, PreStepThrows
    <3>7. CASE Reject
      BY <3>7 DEF Reject, CloseTurn
    <3>8. CASE EnterEmpty
      BY <3>8 DEF EnterEmpty, CloseTurn
    <3>9. CASE StepReturns \/ StepThrows
      BY <3>9 DEF StepReturns, StepThrows
    <3>10. CASE EndStep
      BY <3>10 DEF EndStep
    <3>11. CASE Fail
      BY <3>11 DEF Fail, CloseTurn
    <3>12. CASE ContinueOrLeave
      BY <3>12, NoneAssumption DEF ContinueOrLeave, aborted
    <3>13. CASE Settle
      BY <3>13 DEF Settle
    <3>. QED
      BY <2>2, <3>1, <3>2, <3>3, <3>4, <3>5, <3>6, <3>7, <3>8, <3>9, <3>10, <3>11, <3>12,
         <3>13 DEF Driver
  <2>. QED
    BY <2>1, <2>2
<1>3. [Next]_vars => [~Converged => \/ Converged'
                                    \/ Driver /\ Descends
                                    \/ ~Driver /\ UNCHANGED pc]_vars
  BY <1>2
<1>. QED
  BY <1>1, <1>3, TypeCorrect, ControlCorrect, PTL DEF Spec

=============================================================================
