---------------------------- MODULE AgentDriver ----------------------------
(***************************************************************************)
(* The driver of one agent (ReactLoopAgent) and its durable inbox          *)
(* (ReactLoopInbox).                                                       *)
(*                                                                         *)
(* The host is single threaded.  An action is a stretch of code between    *)
(* two points at which other code may run: an await, or the synchronous    *)
(* publication of an event, whose observers may call the agent again       *)
(* before the publisher goes on.  A caller that such an observer           *)
(* interrupts waits in "frames", a stack: the frame on top finishes        *)
(* first, and the driver does not resume from an await while one is open.  *)
(*                                                                         *)
(* Step and turn numbers, request assembly and message contents are        *)
(* abstracted; ToolBatch models what happens inside a tool batch.  Callers *)
(* submit a message once: one that is removed and sent again under its     *)
(* identity, as schedule does with a recovered reminder, counts as two.    *)
(***************************************************************************)
EXTENDS Integers, Sequences, Functions

CONSTANTS Message,     \* user messages, each submitted at most once by callers
          None         \* no abort cause, no outcome

\* The causes of AgentCancelCause; "parent" and "hook" behave as "user" does.
Cause == {"user", "disposed"}

ASSUME NoneAssumption == None \notin Cause \cup {"completed", "max-tokens",
                                         "blocked", "aborted", "error"}

VARIABLES
  phase,          \* "idle", "maintenance" or "running"
  abort,          \* the reason of the phase's AbortController, or None
  wakeRequested,  \* the phase's latched wake
  pc,             \* where the running driver is
  stepped,        \* phase.step > 0
  turnEnds,       \* the turn's ending so far, or None
  bracket,        \* the innermost open bracket of the durable log
  nextTurn,       \* queued prompts, each the subject of a turn of its own
  nextStep,       \* input for the nearest step
  batch,          \* messages claimed by the open turn, neither admitted nor put back
  unsent,         \* messages nobody has submitted
  admitted,       \* messages in the model-visible history
  discarded,      \* messages cancelled while pending
  dropped,        \* claimed messages that ended without admission
  frames,         \* interrupted synchronous callers, the last one on top
  queued,         \* history: prompts claimed from nextTurn by this turn
  owed            \* history: wakes accepted behind an aborted activity

phaseVars == <<phase, abort, wakeRequested>>
turnVars  == <<pc, stepped, turnEnds, bracket>>
inbox     == <<nextTurn, nextStep>>
fates     == <<unsent, admitted, discarded, dropped>>
history   == <<queued, owed>>
vars == <<phaseVars, turnVars, inbox, batch, fates, frames, history>>

Pending == Range(nextTurn) \cup Range(nextStep)
hasPending == nextTurn # <<>> \/ nextStep # <<>>
aborted == abort # None

\* A cancellation that has cleared next-step input and not yet the prompts.
Clearing == [user |-> "clearUser", disposed |-> "clearDisposed"]

\* What an interrupted caller still does: wake the driver, replay a latched
\* wake, run a new driver up to its first await, clear the prompts and abort,
\* or abort with a cause.
Frame == {"wake", "wakeAfterAbort", "replay", "kick", "clearUser", "clearDisposed"}
           \cup Cause

TypeOK ==
  /\ phase \in {"idle", "maintenance", "running"}
  /\ abort \in Cause \cup {None}
  /\ wakeRequested \in BOOLEAN
  /\ phase = "idle" => abort = None /\ ~wakeRequested
  /\ pc \in {"off", "begin", "claim", "claimTurn", "preStep", "restoring",
             "rejected", "enteredEmpty", "entered", "request", "stream",
             "stepReturned", "stepFailed", "afterStep", "stopping", "failed",
             "closed", "settling"}
  /\ stepped \in BOOLEAN
  /\ turnEnds \in {None, "completed", "max-tokens", "blocked", "aborted", "error"}
  /\ bracket \in {"none", "turn", "step"}
  /\ nextTurn \in Seq(Message) /\ nextStep \in Seq(Message)
  /\ batch \subseteq Message
  /\ unsent \subseteq Message /\ admitted \subseteq Message
  /\ discarded \subseteq Message /\ dropped \subseteq Message
  /\ frames \in Seq(Frame)
  /\ queued \subseteq Message /\ owed \subseteq Message

Init ==
  /\ phase = "idle" /\ abort = None /\ wakeRequested = FALSE
  /\ pc = "off" /\ stepped = FALSE /\ turnEnds = None /\ bracket = "none"
  /\ nextTurn = <<>> /\ nextStep = <<>> /\ batch = {}
  /\ unsent = Message /\ admitted = {} /\ discarded = {} /\ dropped = {}
  /\ frames = <<>>
  /\ queued = {} /\ owed = {}

-----------------------------------------------------------------------------
(* Inbox commands.  Each is one durable splice; the ones that wake nobody    *)
(* are complete with it.                                                     *)

Push(list, m) ==
  \/ list = "next-turn" /\ nextTurn' = Append(nextTurn, m) /\ UNCHANGED nextStep
  \/ list = "next-step" /\ nextStep' = Append(nextStep, m) /\ UNCHANGED nextTurn

DropAt(s, i) == [j \in 1 .. Len(s) - 1 |-> IF j < i THEN s[j] ELSE s[j + 1]]

\* agent.inject, inbox.append, and send without a wakeup.
Insert(m, list) ==
  /\ m \in unsent
  /\ Push(list, m)
  /\ unsent' = unsent \ {m}
  /\ UNCHANGED <<phaseVars, turnVars, batch, admitted, discarded, dropped, frames, history>>

\* inbox.prepend of a new message; restoreOtherClaimed is its other use.
Prepend(m) ==
  /\ m \in unsent
  /\ nextStep' = <<m>> \o nextStep
  /\ unsent' = unsent \ {m}
  /\ UNCHANGED <<phaseVars, turnVars, nextTurn, batch, admitted, discarded,
                 dropped, frames, history>>

ReplaceAt(m, n) ==
  \/ \E i \in DOMAIN nextTurn : /\ nextTurn[i] = m
                                /\ nextTurn' = [nextTurn EXCEPT ![i] = n]
                                /\ UNCHANGED nextStep
  \/ \E i \in DOMAIN nextStep : /\ nextStep[i] = m
                                /\ nextStep' = [nextStep EXCEPT ![i] = n]
                                /\ UNCHANGED nextTurn

Replace(m, n) ==
  /\ n \in unsent
  /\ ReplaceAt(m, n)
  /\ unsent' = unsent \ {n} /\ discarded' = discarded \cup {m}
  /\ UNCHANGED <<phaseVars, turnVars, batch, admitted, dropped, frames, history>>

Remove(m) ==
  /\ \/ \E i \in DOMAIN nextTurn : /\ nextTurn[i] = m
                                   /\ nextTurn' = DropAt(nextTurn, i)
                                   /\ UNCHANGED nextStep
     \/ \E i \in DOMAIN nextStep : /\ nextStep[i] = m
                                   /\ nextStep' = DropAt(nextStep, i)
                                   /\ UNCHANGED nextTurn
  /\ discarded' = discarded \cup {m}
  /\ UNCHANGED <<phaseVars, turnVars, batch, unsent, admitted, dropped, frames, history>>

-----------------------------------------------------------------------------
(* Waking input: send inserts, its observers run, then it wakes the driver.  *)

\* send() classifies the wake before the insertion: input cannot join an
\* aborted activity, so it starts the next turn.
WakingAfterAbort == phase # "idle" /\ aborted

WakeFrame == IF WakingAfterAbort THEN "wakeAfterAbort" ELSE "wake"

SendTarget(list) == IF WakingAfterAbort THEN "next-turn" ELSE list

\* agent.followup (list = "next-turn") and agent.steer (list = "next-step").
Send(m, list) ==
  /\ m \in unsent
  /\ Push(SendTarget(list), m)
  /\ unsent' = unsent \ {m}
  /\ frames' = Append(frames, WakeFrame)
  /\ owed' = IF phase # "idle" /\ abort # "disposed" /\ (phase = "maintenance" \/ aborted)
             THEN owed \cup {m} ELSE owed
  /\ UNCHANGED <<phaseVars, turnVars, batch, admitted, discarded, dropped,
                 queued>>

Top(frame) == frames # <<>> /\ frames[Len(frames)] = frame
Below == SubSeq(frames, 1, Len(frames) - 1)

\* Mutation: a wake behind an aborted turn is left to the driver.
Latches_MaintenanceOnly(afterAbort) == abort # "disposed" /\ phase = "maintenance"

\* Whether wakeDriver latches a wake that finds work in progress.
Latches(afterAbort) == abort # "disposed" /\ (phase = "maintenance" \/ afterAbort)

\* wakeDriver, from idle: the running phase is published, then kick runs.
StartDriver ==
  /\ phase' = "running" /\ abort' = None /\ wakeRequested' = FALSE
  /\ pc' = "begin" /\ stepped' = FALSE
  /\ frames' = Append(Below, "kick")
  /\ owed' = {}
  /\ UNCHANGED <<turnEnds, bracket, queued>>

\* wakeDriver, behind an activity: latch the wake or leave it to the driver.
LatchWake(afterAbort) ==
  /\ wakeRequested' = (wakeRequested \/ Latches(afterAbort))
  /\ frames' = Below
  /\ UNCHANGED <<phase, abort, turnVars, history>>

wakeDriver(afterAbort) ==
  \/ phase = "idle" /\ StartDriver
  \/ phase # "idle" /\ LatchWake(afterAbort)

Wake(afterAbort) ==
  /\ Top(IF afterAbort THEN "wakeAfterAbort" ELSE "wake")
  /\ wakeDriver(afterAbort)
  /\ UNCHANGED <<inbox, batch, fates>>

\* The tail of kick, once observers of the idle status have run: replay a
\* latched wake, unless the queue no longer holds work.
Replay ==
  /\ Top("replay")
  /\ \/ hasPending /\ wakeDriver(FALSE)
     \/ /\ ~hasPending
        /\ frames' = Below
        /\ UNCHANGED <<phaseVars, turnVars, queued, owed>>
  /\ UNCHANGED <<inbox, batch, fates>>

-----------------------------------------------------------------------------
(* Cancellation.                                                             *)

\* AbortController.abort: the first cause wins.
AbortActivity(cause) ==
  /\ abort' = IF phase # "idle" /\ ~aborted THEN cause ELSE abort

\* cancel({ keepInbox: true }) leaves the queue and a latched wake alone.
CancelKeepingInbox(cause) ==
  /\ AbortActivity(cause)
  /\ owed' = IF cause = "disposed" THEN {} ELSE owed
  /\ UNCHANGED <<phase, wakeRequested, turnVars, inbox, batch, fates, frames, queued>>

\* inbox.clear empties next-step input first, then the prompts, and observers
\* of the discarded messages run after each ...
ClearPrompts ==
  /\ nextTurn # <<>>
  /\ nextTurn' = <<>> /\ discarded' = discarded \cup Range(nextTurn)
  /\ UNCHANGED nextStep

CancelClear(cause) ==
  /\ \/ /\ nextStep # <<>>
        /\ nextStep' = <<>> /\ discarded' = discarded \cup Range(nextStep)
        /\ frames' = Append(frames, Clearing[cause])
        /\ UNCHANGED nextTurn
     \/ nextStep = <<>> /\ ClearPrompts /\ frames' = Append(frames, cause)
  /\ UNCHANGED <<phaseVars, turnVars, batch, unsent, admitted, dropped, history>>

\* ... then it withdraws the latched wake and aborts.
Withdraw(cause) ==
  /\ wakeRequested' = FALSE
  /\ AbortActivity(cause)
  /\ owed' = {}
  /\ UNCHANGED <<phase, turnVars, inbox, batch, fates, queued>>

CancelAbort(cause) ==
  /\ frames' = Below
  /\ \/ Top(cause)
     \/ Top(Clearing[cause]) /\ nextTurn = <<>>
  /\ Withdraw(cause)

CancelClearTurn(cause) ==
  /\ Top(Clearing[cause])
  /\ ClearPrompts
  /\ frames' = Append(Below, cause)
  /\ UNCHANGED <<phaseVars, turnVars, batch, unsent, admitted, dropped, history>>

\* cancel with nothing to clear publishes nothing in between.
CancelEmpty(cause) == ~hasPending /\ Withdraw(cause) /\ UNCHANGED frames

-----------------------------------------------------------------------------
(* Maintenance owns the idle agent; its public status stays idle.            *)

StartMaintenance ==
  /\ phase = "idle"
  /\ phase' = "maintenance" /\ abort' = None /\ wakeRequested' = FALSE
  /\ UNCHANGED <<turnVars, inbox, batch, fates, frames, history>>

\* The status was idle all along, so nothing is published before the replay.
FinishMaintenance ==
  /\ phase = "maintenance" /\ frames = <<>>
  /\ IF abort # "disposed" /\ wakeRequested /\ hasPending
     THEN StartDriver
     ELSE /\ phase' = "idle" /\ abort' = None /\ wakeRequested' = FALSE
          /\ UNCHANGED <<turnVars, frames, queued, owed>>
  /\ UNCHANGED <<inbox, batch, fates>>

-----------------------------------------------------------------------------
(* The driver: kick, turn, preStep and step.                                 *)

At(where) == phase = "running" /\ pc = where /\ (frames = <<>> \/ Top("kick"))

\* A new driver reaches its first await or its end, and its starter goes on.
Suspend == frames' = IF Top("kick") THEN Below ELSE frames

CloseTurn(reason, next) ==
  /\ turnEnds' = reason /\ bracket' = "none" /\ pc' = next
  /\ dropped' = dropped \cup batch /\ batch' = {}

\* turn: an abort from the running notification opens no turn.
BeginTurn ==
  /\ At("begin")
  /\ IF aborted
     THEN pc' = "settling" /\ Suspend /\ UNCHANGED <<bracket, turnEnds, queued>>
     ELSE /\ pc' = "claim" /\ bracket' = "turn" /\ turnEnds' = None /\ queued' = {}
          /\ UNCHANGED frames
  /\ UNCHANGED <<phaseVars, stepped, inbox, batch, fates, owed>>

\* inbox.claim takes all next-step input ...
ClaimNextStep(next) ==
  /\ batch' = Range(nextStep) /\ nextStep' = <<>>
  /\ pc' = next
  /\ UNCHANGED <<nextTurn, queued>>

\* ... and, at a turn boundary, one queued prompt.
ClaimNextTurn ==
  /\ nextTurn' = IF nextTurn = <<>> THEN <<>> ELSE Tail(nextTurn)
  /\ queued' = IF nextTurn = <<>> THEN queued ELSE queued \cup {Head(nextTurn)}
  /\ batch' = IF nextTurn = <<>> THEN batch ELSE batch \cup {Head(nextTurn)}
  /\ pc' = "preStep"
  /\ UNCHANGED nextStep

ClaimTurnInput ==
  /\ \/ At("claim") /\ ~aborted /\ nextStep # <<>>
        /\ ClaimNextStep("claimTurn") /\ UNCHANGED frames
     \/ At("claim") /\ ~aborted /\ nextStep = <<>> /\ ClaimNextTurn /\ Suspend
     \/ At("claimTurn") /\ ClaimNextTurn /\ Suspend
  /\ UNCHANGED <<phaseVars, stepped, turnEnds, bracket, fates, owed>>

\* signal.throwIfAborted inside the turn.
ThrowIfAborted ==
  /\ At("claim") \/ At("entered") \/ At("afterStep") \/ At("stopping")
  /\ aborted
  /\ CloseTurn("aborted", "settling") /\ Suspend
  /\ UNCHANGED <<phaseVars, stepped, inbox, unsent, admitted, discarded, history>>

\* A pre-step listener that drops its own message puts others of the claimed
\* batch back in front of the next-step input, one durable splice each, whose
\* observers run in between; it enters no step after that.
restoreOtherClaimed ==
  /\ At("preStep") \/ At("restoring")
  /\ \E m \in batch : /\ batch # {m}
                      /\ nextStep' = <<m>> \o nextStep
                      /\ batch' = batch \ {m}
  /\ pc' = "restoring"
  /\ UNCHANGED <<phaseVars, stepped, turnEnds, bracket, nextTurn, fates, frames, history>>

\* Mutation: having put the others back, the listener enters all the same.
PreStepDecides_EntersRestored ==
  /\ \/ (At("preStep") \/ At("restoring")) /\ ~aborted
        /\ pc' = "rejected" /\ UNCHANGED <<batch, dropped>>
     \/ (At("preStep") \/ At("restoring")) /\ ~aborted /\ \E kept \in SUBSET batch :
          /\ batch' = kept /\ dropped' = dropped \cup (batch \ kept)
          /\ pc' \in IF kept = {} THEN {"enteredEmpty", "entered"} ELSE {"entered"}
  /\ UNCHANGED <<phaseVars, stepped, turnEnds, bracket, inbox, unsent, admitted,
                 discarded, frames, history>>

\* preStep: agent/pre-step may reject, or rewrite what it was given; runtime
\* context may join a batch that has become empty.
PreStepDecides ==
  /\ ~aborted
  /\ \/ /\ At("preStep") \/ At("restoring")
        /\ pc' = "rejected" /\ UNCHANGED <<batch, dropped>>
     \/ At("preStep") /\ \E kept \in SUBSET batch :
          /\ batch' = kept /\ dropped' = dropped \cup (batch \ kept)
          /\ pc' \in IF kept = {} THEN {"enteredEmpty", "entered"} ELSE {"entered"}
  /\ UNCHANGED <<phaseVars, stepped, turnEnds, bracket, inbox, unsent, admitted,
                 discarded, frames, history>>

\* Mutation: a pre-step listener is awaited without regard to the signal.
PreStepThrows_IgnoresAbort ==
  /\ At("preStep") \/ At("restoring")
  /\ ~aborted
  /\ pc' = "failed"
  /\ UNCHANGED <<phaseVars, stepped, turnEnds, bracket, inbox, batch, fates, frames, history>>

\* No model, tool resolution, assembly or a listener fails, or an abort shows.
PreStepThrows ==
  /\ At("preStep") \/ At("restoring")
  /\ pc' = "failed"
  /\ UNCHANGED <<phaseVars, stepped, turnEnds, bracket, inbox, batch, fates, frames, history>>

Reject ==
  /\ At("rejected")
  /\ CloseTurn("blocked", "settling")
  /\ UNCHANGED <<phaseVars, stepped, inbox, unsent, admitted, discarded, frames, history>>

\* Nothing to send: the turn's ending stands, or a first step ends the turn
\* without a model call, or tool results alone make the next request.
EnterEmpty ==
  /\ At("enteredEmpty")
  /\ \/ turnEnds # None /\ CloseTurn(turnEnds, "closed") /\ UNCHANGED stepped
     \/ turnEnds = None /\ ~stepped /\ CloseTurn("completed", "settling") /\ UNCHANGED stepped
     \/ turnEnds = None /\ stepped
        /\ IF aborted THEN CloseTurn("aborted", "settling") /\ UNCHANGED stepped
           ELSE /\ pc' = "request" /\ bracket' = "step" /\ stepped' = TRUE
                /\ UNCHANGED <<turnEnds, batch, dropped>>
  /\ UNCHANGED <<phaseVars, inbox, unsent, admitted, discarded, frames, history>>

StartStep ==
  /\ At("entered") /\ ~aborted
  /\ pc' = "request" /\ bracket' = "step" /\ stepped' = TRUE
  /\ UNCHANGED <<phaseVars, turnEnds, inbox, batch, fates, frames, history>>

\* step: the accepted batch enters history once the call is prepared, on the
\* first attempt only; a retry finds it empty.
Admit ==
  /\ At("request") /\ ~aborted
  /\ admitted' = admitted \cup batch /\ batch' = {}
  /\ pc' = "stream"
  /\ UNCHANGED <<phaseVars, stepped, turnEnds, bracket, inbox, unsent, discarded,
                 dropped, frames, history>>

Retry ==
  /\ At("stream") /\ ~aborted
  /\ pc' = "request"
  /\ UNCHANGED <<phaseVars, stepped, turnEnds, bracket, inbox, batch, fates, frames, history>>

\* A tool batch may leave context for the next step.
ToolContext ==
  \/ UNCHANGED <<nextStep, unsent>>
  \/ \E m \in unsent : nextStep' = Append(nextStep, m) /\ unsent' = unsent \ {m}

\* The step ends the turn, or (None) its tool results want another step.  A
\* max-tokens ending is sticky.
StepReturns ==
  /\ At("stream")
  /\ ToolContext
  /\ turnEnds' \in IF turnEnds = "max-tokens" THEN {turnEnds}
                   ELSE {None, "completed", "max-tokens"}
  /\ pc' = "stepReturned"
  /\ UNCHANGED <<phaseVars, stepped, bracket, nextTurn, batch, admitted,
                 discarded, dropped, frames, history>>

StepThrows ==
  /\ \/ At("request") /\ UNCHANGED <<nextStep, unsent>>
     \/ At("stream") /\ ToolContext
  /\ pc' = "stepFailed"
  /\ UNCHANGED <<phaseVars, stepped, turnEnds, bracket, nextTurn, batch,
                 admitted, discarded, dropped, frames, history>>

EndStep ==
  /\ \/ At("stepReturned") /\ pc' = "afterStep"
     \/ At("stepFailed") /\ pc' = "failed"
  /\ bracket' = "turn"
  /\ UNCHANGED <<phaseVars, stepped, turnEnds, inbox, batch, fates, frames, history>>

\* A turn that is ending lets agent/turn-stopping listeners add input.
AfterStep ==
  /\ At("afterStep") /\ ~aborted
  /\ IF turnEnds # None /\ nextStep = <<>>
     THEN pc' = "stopping" /\ UNCHANGED <<inbox, batch, queued>>
     ELSE ClaimNextStep("preStep")
  /\ UNCHANGED <<phaseVars, stepped, turnEnds, bracket, fates, frames, owed>>

Stop ==
  /\ At("stopping") /\ ~aborted
  /\ IF nextStep = <<>>
     THEN CloseTurn(turnEnds, "closed") /\ UNCHANGED <<inbox, queued>>
     ELSE ClaimNextStep("preStep") /\ UNCHANGED <<turnEnds, bracket, dropped>>
  /\ UNCHANGED <<phaseVars, stepped, unsent, admitted, discarded, frames, owed>>

\* The turn's catch: an abort explains every failure.
Fail ==
  /\ At("failed") \/ (At("stopping") /\ ~aborted)
  /\ CloseTurn(IF aborted THEN "aborted" ELSE "error", "settling")
  /\ UNCHANGED <<phaseVars, stepped, inbox, unsent, admitted, discarded, frames, history>>

\* After turn/end: pending work keeps this driver, under a fresh controller.
ContinueOrLeave ==
  /\ At("closed")
  /\ IF hasPending
     THEN /\ abort' = None /\ wakeRequested' = FALSE /\ stepped' = FALSE
          /\ pc' = "begin" /\ owed' = {}
     ELSE pc' = "settling" /\ UNCHANGED <<abort, wakeRequested, stepped, owed>>
  /\ UNCHANGED <<phase, turnEnds, bracket, inbox, batch, fates, frames, queued>>

\* Mutation: the driver converges without replaying a latched wake.
Settle_NoReplay ==
  /\ At("settling")
  /\ phase' = "idle" /\ abort' = None /\ wakeRequested' = FALSE /\ pc' = "off"
  /\ UNCHANGED <<stepped, turnEnds, bracket, inbox, batch, fates, frames, queued, owed>>

\* kick's finally, one microtask after turn returned.
Settle ==
  /\ At("settling")
  /\ phase' = "idle" /\ abort' = None /\ wakeRequested' = FALSE /\ pc' = "off"
  /\ frames' = IF wakeRequested THEN Append(frames, "replay") ELSE frames
  /\ UNCHANGED <<stepped, turnEnds, bracket, inbox, batch, fates, queued, owed>>

-----------------------------------------------------------------------------

\* Whatever other code may do to the agent, at any of its suspension points.
Caller ==
  \/ \E m \in Message, list \in {"next-turn", "next-step"} : Insert(m, list)
  \/ \E m \in Message : Prepend(m)
  \/ \E m, n \in Message : Replace(m, n)
  \/ \E m \in Message : Remove(m)
  \/ \E m \in Message, list \in {"next-turn", "next-step"} : Send(m, list)
  \/ \E cause \in Cause : CancelKeepingInbox(cause)
  \/ \E cause \in Cause : CancelClear(cause)
  \/ \E cause \in Cause : CancelEmpty(cause)
  \/ StartMaintenance

\* Interrupted callers going on.
Resume ==
  \/ \E afterAbort \in BOOLEAN : Wake(afterAbort)
  \/ Replay
  \/ \E cause \in Cause : CancelClearTurn(cause)
  \/ \E cause \in Cause : CancelAbort(cause)

Driver ==
  \/ BeginTurn
  \/ ClaimTurnInput
  \/ ThrowIfAborted
  \/ restoreOtherClaimed
  \/ PreStepDecides
  \/ PreStepThrows
  \/ Reject
  \/ EnterEmpty
  \/ StartStep
  \/ Admit
  \/ Retry
  \/ StepReturns
  \/ StepThrows
  \/ EndStep
  \/ AfterStep
  \/ Stop
  \/ Fail
  \/ ContinueOrLeave
  \/ Settle

Next == Caller \/ Resume \/ Driver \/ FinishMaintenance

Spec == Init /\ [][Next]_vars

\* Synchronous callers always finish, every boundary the driver awaits
\* settles, and so does a maintenance task.
Fairness == WF_vars(Resume) /\ WF_vars(Driver) /\ WF_vars(FinishMaintenance)

FairSpec == Spec /\ Fairness

-----------------------------------------------------------------------------
(* Properties.                                                               *)

\* Whenever no driver runs, the durable log has no open turn or step and no
\* message is held between its claim and its fate, whichever way the last
\* activity ended (agent.ts turn's finally blocks, kick).
QuietUnlessRunning ==
  phase # "running" => bracket = "none" /\ batch = {} /\ pc = "off"

\* Waking input submitted behind an activity that has been aborted, or behind
\* maintenance, is not left behind when that activity converges: once the
\* agent is idle and no caller is interrupted, none of it is still waiting,
\* unless it was withdrawn by a cancellation since (agent.ts send, wakeDriver,
\* kick, runMaintenance; runtime-types.ts "runs when the aborted activity
\* converges to idle").
WakeOutlivesAbort ==
  phase = "idle" /\ frames = <<>> => owed \cap Pending = {}

\* A turn is about one queued prompt at most: steps after the first take
\* steering only (agent.ts turn, "sole ordinary message of its own turn").
OnePromptPerTurn == \A m, n \in queued : m = n

LedgerFate ==
  [m \in Message |-> CASE m \in unsent    -> "unsent"
                       [] m \in Pending   -> "pending"
                       [] m \in batch     -> "claimed"
                       [] m \in admitted  -> "admitted"
                       [] m \in discarded -> "discarded"
                       [] m \in dropped   -> "dropped"]

Ledger == INSTANCE InputLedger WITH
            fate     <- LedgerFate,
            turnOpen <- (bracket # "none"),
            refused  <- (pc \in {"restoring", "rejected", "failed"})

\* The driver and its inbox keep the promises of InputLedger: claims happen
\* inside an open turn, a batch is admitted whole, no claimed message outlives
\* the turn, and none returns to the inbox (not by cancel({ keepInbox: true })
\* either) but in a turn that admits and claims nothing after that (inbox.ts,
\* agent.ts preStep and turn, goal-round-driver restoreOtherClaimed).
KeepsLedger == Ledger!Spec

\* An aborted driver converges: it becomes idle, or it had closed its turn
\* already and goes on to the next under a fresh controller.
AbortConverges == (phase = "running" /\ aborted) ~> (phase # "running" \/ ~aborted)

\* A wake accepted behind an aborted activity or maintenance does not wait
\* for ever: the work it queued is withdrawn, or a driver takes it up.
OwedIsTakenUp == (owed \cap Pending # {}) ~> (owed \cap Pending = {})

=============================================================================
