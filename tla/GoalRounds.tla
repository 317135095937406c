----------------------------- MODULE GoalRounds -----------------------------
(***************************************************************************)
(* Automatic rounds of a goal: the goal-round-driver plugin, which queues  *)
(* one prompt after another while an agent is idle, together with the goal *)
(* service whose state it follows and with the agent it drives.            *)
(*                                                                         *)
(* An action is a stretch of code between two awaits, or between two       *)
(* synchronous publications whose observers may call back ("waking",       *)
(* "begin", "claim", "ended" and "replay" below).  The listeners of the    *)
(* plugin run inside the action that publishes.                            *)
(*                                                                         *)
(* A goal's identity and revision are one number, ref, as the code only    *)
(* ever compares them together.  The agent is AgentDriver with one step    *)
(* boundary per turn; who may change a goal is left to the callers.        *)
(***************************************************************************)
EXTENDS Integers, Sequences, SequencesExt, Functions, FiniteSets

CONSTANTS Human,      \* messages that people send, each once
          None,       \* no outstanding attempt
          Cap,        \* values of maxGoalRounds
          MaxRef,     \* bound: no caller changes a goal beyond this revision
          MaxRounds   \* bound: round prompts that exist at the same time

ASSUME CapAssumption == Cap \subseteq Nat \ {0}
ASSUME BoundsAssumption == MaxRef \in Nat /\ MaxRounds \in Nat

\* A round's prompt: its message, the goal it is for, and its number.
Round == [id : 1 .. MaxRounds, ref : Nat, round : Nat \ {0}]

\* The outstanding round: where its prompt is, and what has happened to it.
Attempt == [of : Round, at : {"queued", "claimed", "admitted"},
            cancelled : BOOLEAN, stale : BOOLEAN]

ASSUME HumanAssumption == Human \cap Round = {}
ASSUME NoneAssumption == None \notin Attempt

VARIABLES
  goal,       \* the goal of the projection: phase, ref, rounds started and cap
  failed,     \* the projection has retained a replay failure
  armed,      \* the goal's activation
  phase,      \* the agent: "idle", "maintenance" or "running"
  aborted,    \* the signal of its activity
  wake,       \* its latched wake
  pc,         \* where its driver is
  nextTurn,   \* queued prompts: messages and rounds
  nextStep,   \* input for the nearest step
  batch,      \* what the open turn has claimed and not admitted
  attempt,    \* state.attempt: the round, its phase and its two flags
  competing,  \* state.competingQueued
  checkpoint, \* state.needsCheckpoint
  requested,  \* state.requested
  run,        \* state.run, and where it is
  view,       \* the goal that drive() holds while it awaits the children
  plugin,     \* "active", "closing" or "gone"
  joining,    \* the unload awaits the agent
  unsent,     \* messages nobody has sent
  settled,    \* history: messages that were admitted, cancelled, or dropped with
              \* a turn that was aborted, failed or rejected by somebody else
  halted,     \* history: the user has cancelled a turn and not changed the goal since
  loose,      \* history: rounds that were left in the queue without an attempt,
              \* or repeat one
  way         \* history: how the step was entered: through the fences, with a change
              \* of the goal since ("late"), or unfenced, the plugin being gone

goalVars   == <<goal, failed, armed>>
agentVars  == <<phase, aborted, wake, pc>>
inboxVars  == <<nextTurn, nextStep, batch>>
stateVars  == <<attempt, competing, checkpoint>>
runVars    == <<requested, run, view>>
pluginVars == <<plugin, joining>>
history    == <<settled, halted, loose, way>>
vars == <<goalVars, agentVars, inboxVars, stateVars, runVars, pluginVars,
          unsent, history>>

NoGoal == [phase |-> "none", ref |-> 0, rounds |-> 0, cap |-> 0]

Goal ==
  [phase : {"none"}, ref : Nat, rounds : {0}, cap : {0}]
    \cup [phase : {"active", "paused", "blocked", "complete"}, ref : Nat, rounds : Nat, cap : Cap]

TypeOK ==
  /\ goal \in Goal
  /\ failed \in BOOLEAN /\ armed \in BOOLEAN
  /\ phase \in {"idle", "maintenance", "running"}
  /\ aborted \in BOOLEAN /\ wake \in BOOLEAN
  /\ pc \in {"off", "waking", "begin", "claim", "prepare", "inner", "admit",
             "rejected", "step", "ended", "settling", "replay"}
  /\ nextTurn \in Seq(Human \cup Round)
  /\ nextStep \subseteq Human
  /\ batch \subseteq Human \cup Round
  /\ attempt \in Attempt \cup {None}
  /\ competing \in BOOLEAN /\ checkpoint \in BOOLEAN /\ requested \in BOOLEAN
  /\ run \in {"none", "drive", "flush", "children", "again", "retire"}
  /\ view \in Goal
  /\ plugin \in {"active", "closing", "gone"}
  /\ joining \in BOOLEAN
  /\ unsent \subseteq Human /\ settled \subseteq Human
  /\ halted \in BOOLEAN /\ loose \subseteq 1 .. MaxRounds /\ way \in {"fenced", "late", "unfenced"}

Init ==
  /\ goal = NoGoal /\ failed = FALSE /\ armed = FALSE
  /\ phase = "idle" /\ aborted = FALSE /\ wake = FALSE /\ pc = "off"
  /\ nextTurn = <<>> /\ nextStep = {} /\ batch = {}
  /\ attempt = None /\ competing = FALSE /\ checkpoint = FALSE
  /\ requested = FALSE /\ run = "none" /\ view = NoGoal
  /\ plugin = "active" /\ joining = FALSE
  /\ unsent = Human
  /\ settled = {} /\ halted = FALSE /\ loose = {} /\ way = "fenced"

Queued == Range(nextTurn)
QueuedRounds == Queued \ Human
hasPending == nextTurn # <<>> \/ nextStep # {}
claimedRounds == batch \ Human

\* Callers and observers act unless drive() is in its synchronous part; awaited
\* code goes on only when no publication is under way either.
Free == run # "drive"
Awaiting == Free /\ pc \notin {"waking", "begin", "claim", "ended", "replay"}

drivable(g) == g.phase = "active" /\ armed

-----------------------------------------------------------------------------
(* Listeners and helpers of the plugin.                                      *)

\* requestDrive: the first pass of a new run is synchronous.
Requests ==
  IF plugin # "active" THEN UNCHANGED <<requested, run>>
  ELSE IF run = "none" THEN run' = "drive" /\ requested' = FALSE
  ELSE requested' = TRUE /\ UNCHANGED run

\* disarm; a failed projection cannot be read, and the attempt is logged.
Disarms == armed' = (armed /\ (failed \/ goal.phase = "none"))

Same(m, n) == m.ref = n.ref /\ m.round = n.round

\* sameQueued, which does not look at the message's id.
IsAttempt(m) == attempt # None /\ m \notin Human /\ Same(m, attempt.of)

\* agent/inbox/inserted for a prompt that is not the reservation.
Competes ==
  IF plugin = "gone" THEN UNCHANGED <<attempt, competing>>
  ELSE /\ competing' = TRUE
       /\ attempt' = IF attempt # None /\ attempt.at = "queued"
                       THEN [attempt EXCEPT !.stale = TRUE] ELSE attempt

\* agent/inbox/claimed for the prompt m.
Claims(m) ==
  attempt' = IF plugin # "gone" /\ IsAttempt(m)
               THEN [attempt EXCEPT !.at = "claimed"] ELSE attempt

\* agent/inbox/discarded for everything in next-turn.
Discards ==
  attempt' = IF plugin # "gone" /\ \E i \in Queued : IsAttempt(i)
               THEN [attempt EXCEPT !.cancelled = TRUE] ELSE attempt

readyToDrive ==
  plugin = "active" /\ phase # "running" /\ ~competing

readyAfterCheckpoint == readyToDrive /\ ~checkpoint

validReservation(i) ==
  /\ plugin = "active" /\ ~failed
  /\ IsAttempt(i) /\ attempt.at = "claimed" /\ ~attempt.stale
  /\ drivable(goal) /\ i.ref = goal.ref /\ i.round = goal.rounds + 1

-----------------------------------------------------------------------------
(* The goal service.  Every change is one durable event and one goal/changed *)
(* notice, on which the plugin asks for a checkpoint and for a drive.        *)

\* A change of the goal, as the plugin's listener sees it.
Changed(g, a) ==
  /\ goal' = g /\ armed' = a
  /\ checkpoint' = (plugin # "gone" \/ checkpoint)
  /\ way' = IF pc = "admit" /\ way = "fenced" THEN "late" ELSE way

NextRef(g) == [g EXCEPT !.ref = @ + 1]

\* A caller that is not a turn of this agent.
Mutates(g, a) ==
  /\ Free /\ ~failed /\ goal.ref < MaxRef
  /\ Changed(NextRef(g), a)
  /\ Requests
  /\ halted' = FALSE
  /\ UNCHANGED <<failed, inboxVars, attempt, competing, view, pluginVars,
                 unsent, settled, loose>>

Create(c) ==
  /\ goal.phase \in {"none", "complete"}
  /\ Mutates([phase |-> "active", ref |-> goal.ref, rounds |-> 0, cap |-> c], TRUE)
  /\ UNCHANGED agentVars

Edit(c) ==
  /\ goal.phase # "none"
  /\ Mutates([goal EXCEPT !.cap = c], armed)
  /\ UNCHANGED agentVars

\* A host's pause cancels the running turn and keeps its inbox.
Pause ==
  /\ goal.phase = "active"
  /\ Mutates([goal EXCEPT !.phase = "paused"], FALSE)
  /\ aborted' = (aborted \/ (phase = "running" /\ plugin # "gone"))
  /\ UNCHANGED <<phase, wake, pc>>

\* update_goal pauses from inside the agent's own turn, which goes on.
ModelPause ==
  /\ pc = "step" /\ goal.phase = "active"
  /\ Mutates([goal EXCEPT !.phase = "paused"], FALSE)
  /\ UNCHANGED agentVars

Resume ==
  /\ goal.phase \in {"active", "paused", "blocked"}
  /\ ~drivable(goal) /\ goal.rounds < goal.cap
  /\ Mutates([goal EXCEPT !.phase = "active"], TRUE)
  /\ UNCHANGED agentVars

Complete ==
  /\ goal.phase \in {"active", "paused", "blocked"}
  /\ Mutates([goal EXCEPT !.phase = "complete"], FALSE)
  /\ UNCHANGED agentVars

Block ==
  /\ goal.phase = "active"
  /\ Mutates([goal EXCEPT !.phase = "blocked"], FALSE)
  /\ UNCHANGED agentVars

Clear ==
  /\ goal.phase # "none"
  /\ Mutates([NoGoal EXCEPT !.ref = goal.ref], FALSE)
  /\ UNCHANGED agentVars

-----------------------------------------------------------------------------
(* People and other callers of the agent.                                    *)

\* followup and steer.  Behind an aborted activity both go to next-turn.
Send(h, list) ==
  /\ Free /\ h \in unsent
  /\ unsent' = unsent \ {h}
  /\ LET prompt == list = "next-turn" \/ (phase # "idle" /\ aborted) IN
     /\ IF prompt THEN nextTurn' = Append(nextTurn, h) /\ UNCHANGED nextStep
        ELSE nextStep' = nextStep \cup {h} /\ UNCHANGED nextTurn
     /\ IF prompt THEN Competes ELSE UNCHANGED <<attempt, competing>>
  /\ \/ /\ phase = "idle"
        /\ phase' = "running" /\ pc' = "begin"
        /\ UNCHANGED <<aborted, wake>>
     \/ /\ phase # "idle"
        /\ wake' = (wake \/ phase = "maintenance" \/ aborted)
        /\ UNCHANGED <<phase, aborted, pc>>
  /\ UNCHANGED <<goalVars, batch, checkpoint, runVars, pluginVars, history>>

\* agent.cancel, by a user or an owner.
Clears ==
  /\ nextTurn' = <<>> /\ nextStep' = {}
  /\ Discards
  /\ settled' = settled \cup ((Queued \cup nextStep) \cap Human)

Cancel ==
  /\ Free
  /\ Clears
  /\ wake' = FALSE /\ aborted' = (phase # "idle")
  /\ UNCHANGED <<goalVars, phase, pc, batch, competing, checkpoint, runVars,
                 pluginVars, unsent, halted, loose, way>>

\* The user's cancel, which keeps the inbox.
CancelKeepingInbox ==
  /\ Free /\ phase # "idle" /\ ~aborted
  /\ aborted' = TRUE
  /\ UNCHANGED <<goalVars, phase, wake, pc, inboxVars, stateVars, runVars,
                 pluginVars, unsent, history>>

\* runMaintenance: the status stays idle, and wakes are latched.
StartMaintenance ==
  /\ Awaiting /\ phase = "idle"
  /\ phase' = "maintenance" /\ aborted' = FALSE /\ wake' = FALSE
  /\ UNCHANGED <<goalVars, pc, inboxVars, stateVars, runVars, pluginVars,
                 unsent, history>>

FinishMaintenance ==
  /\ Awaiting /\ phase = "maintenance"
  /\ IF wake /\ hasPending THEN phase' = "running" /\ pc' = "begin"
     ELSE phase' = "idle" /\ UNCHANGED pc
  /\ aborted' = FALSE /\ wake' = FALSE
  /\ UNCHANGED <<goalVars, inboxVars, stateVars, runVars, pluginVars, unsent, history>>

-----------------------------------------------------------------------------
(* drive() and the loop of requestDrive() around it.                         *)

\* The pass is over; the loop looks at requested in a microtask.
Passes == run' = "again"

\* Durable changes that the plugin makes itself.
DriverChange(g, a) ==
  /\ Changed(NextRef(g), a)
  /\ UNCHANGED <<failed, halted>>

NoChange == UNCHANGED <<goalVars, checkpoint, halted, way>>

\* followup of a new round; other plugins observe the insertion before it wakes.
Ids(rounds) == {i.id : i \in rounds}

Queues(v) == \E id \in 1 .. MaxRounds :
  LET used  == QueuedRounds \cup claimedRounds
      round == [id |-> id, ref |-> v.ref, round |-> v.rounds + 1] IN
  /\ id \notin Ids(used) /\ 1 .. id - 1 \subseteq Ids(used)
  /\ attempt' = [of |-> round, at |-> "queued", cancelled |-> FALSE, stale |-> FALSE]
  /\ nextTurn' = Append(nextTurn, round)
  /\ IF phase = "idle" THEN pc' = "waking" /\ UNCHANGED wake
     ELSE wake' = TRUE /\ UNCHANGED pc
  /\ loose' = IF \E i \in used : i.id \in loose /\ Same(i, round)
                THEN loose \cup {id} ELSE loose \ {id}
  /\ NoChange
  /\ UNCHANGED <<requested, settled>>

\* goals.block, when the goal is still the one that was read; its notice asks
\* for another pass.
Blocks ==
  /\ DriverChange([goal EXCEPT !.phase = "blocked"], FALSE)
  /\ requested' = TRUE

QueueRest == UNCHANGED <<attempt, nextTurn, pc, wake, settled, loose>>

\* The round limit.  A block that is refused throws, and the loop disarms.
Exhausts(v) ==
  /\ IF goal.ref = v.ref /\ goal.phase = "active" THEN Blocks
     ELSE Disarms /\ UNCHANGED <<goal, failed, checkpoint, way, halted, requested>>
  /\ QueueRest

\* followup throws before it has inserted anything.
QueueFails(v) ==
  /\ IF goal.ref = v.ref /\ drivable(goal) THEN Blocks
     ELSE NoChange /\ UNCHANGED requested
  /\ QueueRest

Reserves(v) ==
  /\ Passes
  /\ \/ v.rounds >= v.cap /\ Exhausts(v)
     \/ v.rounds < v.cap /\ (Queues(v) \/ QueueFails(v))

\* Nothing but the run changes.
Skips == NoChange /\ QueueRest

\* drive() from its look at the attempt on.
Proceeds ==
  \/ /\ attempt # None
     /\ attempt' = None /\ checkpoint' = TRUE /\ requested' = TRUE
     /\ loose' = IF phase = "maintenance" THEN loose \cup {attempt.of.id} ELSE loose
     /\ Passes
     /\ UNCHANGED <<goalVars, halted, way, nextTurn, pc, wake, settled, view>>
  \/ /\ attempt = None /\ (failed \/ ~drivable(goal))
     /\ Passes /\ Skips /\ UNCHANGED <<requested, view>>
  \/ /\ attempt = None /\ ~failed /\ drivable(goal)
     /\ \/ run' = "children" /\ view' = goal /\ Skips /\ UNCHANGED requested
        \/ Reserves(goal) /\ UNCHANGED view

DriverRest == UNCHANGED <<phase, aborted, nextStep, batch, competing, pluginVars, unsent>>

Drive ==
  /\ run = "drive"
  /\ \/ /\ ~readyToDrive
        /\ Passes /\ Skips /\ UNCHANGED <<requested, view>>
     \/ /\ readyToDrive /\ checkpoint
        /\ run' = "flush" /\ checkpoint' = FALSE
        /\ UNCHANGED <<goalVars, attempt, nextTurn, pc, wake, requested, view, history>>
     \/ readyToDrive /\ ~checkpoint /\ Proceeds
  /\ DriverRest

\* The checkpoint has settled; a change or a prompt that came meanwhile goes first.
Flushed ==
  /\ run = "flush" /\ Awaiting
  /\ IF readyAfterCheckpoint THEN Proceeds
     ELSE Passes /\ Skips /\ UNCHANGED <<requested, view>>
  /\ DriverRest

\* The checkpoint or the wait fails.
WaitFails ==
  /\ run \in {"flush", "children"} /\ Awaiting
  /\ Passes /\ Disarms /\ view' = NoGoal
  /\ UNCHANGED <<goal, failed, checkpoint, way, attempt, nextTurn, pc, wake, requested,
                 settled, loose, halted>>
  /\ DriverRest

\* The children have settled, or the plugin unloads.
ChildrenSettle ==
  /\ run = "children" /\ Awaiting
  /\ IF readyAfterCheckpoint THEN Reserves(view)
     ELSE Passes /\ Skips /\ UNCHANGED requested
  /\ view' = NoGoal
  /\ DriverRest

LoopRest ==
  UNCHANGED <<goalVars, agentVars, inboxVars, stateVars, view, pluginVars, unsent, history>>

Loop ==
  /\ run = "again" /\ Awaiting
  /\ IF requested /\ plugin = "active" THEN run' = "drive" /\ requested' = FALSE
     ELSE run' = "retire" /\ UNCHANGED requested
  /\ LoopRest

\* Mutation: retire does not look at requested.
Retire_Forgets ==
  /\ run = "retire" /\ Awaiting
  /\ run' = "none" /\ UNCHANGED requested
  /\ LoopRest

\* retire: what was requested after the loop's last look starts a new run.
Retire ==
  /\ run = "retire" /\ Awaiting
  /\ IF requested /\ plugin = "active" THEN run' = "drive" /\ requested' = FALSE
     ELSE run' = "none" /\ UNCHANGED requested
  /\ LoopRest

-----------------------------------------------------------------------------
(* The turn.                                                                 *)

\* The wake of a followup whose observers have returned.
Wake ==
  /\ pc = "waking" /\ Free
  /\ phase' = "running" /\ pc' = "begin" /\ aborted' = FALSE /\ wake' = FALSE
  /\ UNCHANGED <<goalVars, inboxVars, stateVars, runVars, pluginVars, unsent, history>>

\* turn/start, unless the activity has been aborted already.
BeginTurn ==
  /\ pc = "begin" /\ Free
  /\ pc' = IF aborted THEN "settling" ELSE "claim"
  /\ UNCHANGED <<goalVars, phase, aborted, wake, inboxVars, stateVars, runVars,
                 pluginVars, unsent, history>>

\* turn/end with kind aborted: the attempt is cancelled or the goal disarmed.
Ends(lost) ==
  /\ pc' = "settling" /\ batch' = {}
  /\ settled' = settled \cup (lost \cap Human)

\* Mutation: an aborted turn does not mark the round it was running.
EndsAborted_Unmarked(lost) ==
  /\ Ends(lost)
  /\ halted' = (plugin = "active" /\ (attempt = None \/ attempt.of.ref = goal.ref))
  /\ IF plugin = "gone" \/ (attempt # None /\ attempt.at \in {"claimed", "admitted"})
     THEN UNCHANGED <<attempt, armed>>
     ELSE Disarms /\ UNCHANGED attempt

EndsAborted(lost) ==
  /\ Ends(lost)
  /\ halted' = (plugin = "active" /\ (attempt = None \/ attempt.of.ref = goal.ref))
  /\ IF plugin = "gone" THEN UNCHANGED <<attempt, armed>>
     ELSE IF attempt # None /\ attempt.at \in {"claimed", "admitted"}
     THEN attempt' = [attempt EXCEPT !.cancelled = TRUE] /\ UNCHANGED armed
     ELSE Disarms /\ UNCHANGED attempt

\* agent/error, then turn/end.
EndsFailed(lost) ==
  /\ Ends(lost)
  /\ IF plugin = "gone" THEN UNCHANGED armed ELSE Disarms
  /\ UNCHANGED <<attempt, halted>>

EndsBlocked(lost) ==
  /\ Ends(lost)
  /\ UNCHANGED <<armed, attempt, halted>>

EndRest ==
  UNCHANGED <<goal, failed, phase, aborted, wake, nextTurn, nextStep, competing,
              checkpoint, requested, run, view, pluginVars, unsent, loose, way>>

\* The first claim: next-step input and one prompt.
Claim ==
  /\ pc = "claim" /\ Free
  /\ IF aborted THEN EndsAborted({}) /\ UNCHANGED <<nextTurn, nextStep>>
     ELSE /\ batch' = nextStep \cup IF nextTurn = <<>> THEN {} ELSE {Head(nextTurn)}
          /\ nextStep' = {}
          /\ nextTurn' = IF nextTurn = <<>> THEN <<>> ELSE Tail(nextTurn)
          /\ IF nextTurn = <<>> THEN UNCHANGED attempt ELSE Claims(Head(nextTurn))
          /\ pc' = "prepare"
          /\ UNCHANGED <<armed, settled, halted>>
  /\ UNCHANGED <<goal, failed, phase, aborted, wake, competing, checkpoint,
                 requested, run, view, pluginVars, unsent, loose, way>>

\* The ways in which an awaited part of a turn ends it.
Aborts == /\ pc \in {"prepare", "inner", "admit", "rejected", "step"} /\ Awaiting /\ aborted
          /\ EndsAborted(batch)
          /\ EndRest

Fails == /\ pc \in {"prepare", "admit", "rejected", "step"} /\ Awaiting /\ ~aborted
         /\ EndsFailed(batch)
         /\ EndRest

\* A listener outside the plugin's own rejects the step.
Rejected == /\ pc \in {"prepare", "admit", "rejected"} /\ Awaiting /\ ~aborted
            /\ EndsBlocked(batch)
            /\ EndRest

\* The first claim found nothing, and no context was added.
EntersEmpty == /\ pc = "prepare" /\ Awaiting /\ ~aborted /\ batch = {}
               /\ EndsBlocked({})
               /\ EndRest

FenceRest ==
  UNCHANGED <<goalVars, phase, aborted, wake, nextTurn, competing, checkpoint,
              view, pluginVars, unsent, settled, halted, loose>>

\* Mutation: a rejected round takes the rest of its batch with it.
Restores_Not == UNCHANGED nextStep

\* restoreOtherClaimed.
Restores == nextStep' = nextStep \cup (batch \cap Human)

\* The plugin rejects its own round: the rest of the batch returns to the inbox.
RejectsStale ==
  /\ Restores
  /\ batch' = {} /\ pc' = "rejected"
  /\ Requests

\* The pre-step listener, before next(); without a round it passes.
Passed ==
  /\ pc = "prepare" /\ Awaiting
  /\ claimedRounds = {} \/ plugin = "gone"
  /\ pc' = "admit"
  /\ way' = IF claimedRounds = {} THEN "fenced" ELSE "unfenced"
  /\ UNCHANGED <<goalVars, phase, aborted, wake, inboxVars, stateVars, runVars,
                 pluginVars, unsent, settled, halted, loose>>

FenceBefore == \E i \in claimedRounds :
  /\ pc = "prepare" /\ Awaiting /\ plugin # "gone"
  /\ IF validReservation(i)
     THEN pc' = "inner" /\ UNCHANGED <<attempt, nextStep, batch, requested, run>>
     ELSE /\ attempt' = IF IsAttempt(i) THEN None ELSE attempt
          /\ RejectsStale
  /\ UNCHANGED way
  /\ FenceRest

\* Mutation: the fence is not checked again after the inner listeners.
FenceAfter_Unchecked ==
  /\ pc = "inner" /\ Awaiting /\ ~aborted
  /\ pc' = "admit" /\ way' = "fenced"
  /\ UNCHANGED <<attempt, nextStep, batch, requested, run>>
  /\ FenceRest

\* The listener after next() has entered the step.
FenceAfter == \E i \in claimedRounds :
  /\ pc = "inner" /\ Awaiting
  /\ IF aborted
     THEN /\ Restores /\ batch' = {} /\ pc' = "rejected"
          /\ UNCHANGED <<attempt, requested, run, way>>
     ELSE IF validReservation(i)
     THEN /\ pc' = "admit" /\ way' = "fenced"
          /\ UNCHANGED <<attempt, nextStep, batch, requested, run>>
     ELSE attempt' = None /\ RejectsStale /\ UNCHANGED way
  /\ FenceRest

\* Mutation: a failed step does not disarm.
InnerThrows_StaysArmed ==
  /\ pc = "inner" /\ Awaiting /\ ~aborted
  /\ Ends(batch)
  /\ attempt' = None
  /\ Requests
  /\ UNCHANGED <<goalVars, phase, aborted, wake, nextTurn, nextStep, competing,
                 checkpoint, view, pluginVars, unsent, halted, loose, way>>

\* An inner listener throws: the round may be reserved again.
InnerThrows ==
  /\ pc = "inner" /\ Awaiting /\ ~aborted
  /\ Ends(batch)
  /\ attempt' = None
  /\ Requests
  /\ Disarms
  /\ UNCHANGED <<goal, failed, phase, aborted, wake, nextTurn, nextStep, competing,
                 checkpoint, view, pluginVars, unsent, halted, loose, way>>

\* An inner listener rejects the round: a goal that still stands is blocked.
InnerRejects == \E i \in claimedRounds :
  /\ pc = "inner" /\ Awaiting /\ ~aborted
  /\ attempt' = None
  /\ batch' = {} /\ pc' = "rejected"
  /\ settled' = settled \cup (batch \cap Human)
  /\ IF ~failed /\ drivable(goal) /\ i.ref = goal.ref
     THEN /\ Changed(NextRef([goal EXCEPT !.phase = "blocked"]), FALSE)
          /\ Requests
     ELSE UNCHANGED <<goal, armed, checkpoint, way, requested, run>>
  /\ UNCHANGED <<failed, phase, aborted, wake, nextTurn, nextStep, competing,
                 view, pluginVars, unsent, halted, loose>>

\* user/message for each of the batch: the fold takes a round that is the next of
\* the active goal, and retains a failure otherwise.
Folds(i) ==
  IF failed THEN UNCHANGED <<goal, failed>>
  ELSE IF /\ goal.phase = "active" /\ i.ref = goal.ref
          /\ i.round = goal.rounds + 1 /\ i.round <= goal.cap
  THEN goal' = [goal EXCEPT !.rounds = i.round] /\ UNCHANGED failed
  ELSE failed' = TRUE /\ UNCHANGED goal

Admit ==
  /\ pc = "admit" /\ Awaiting /\ ~aborted
  /\ IF claimedRounds = {} THEN UNCHANGED <<goal, failed, attempt>>
     ELSE \E i \in claimedRounds :
            /\ Folds(i)
            /\ attempt' = IF plugin # "gone" /\ attempt # None /\ attempt.of.id = i.id
                            THEN [attempt EXCEPT !.at = "admitted"] ELSE attempt
  /\ settled' = settled \cup (batch \cap Human)
  /\ batch' = {} /\ pc' = "step"
  /\ UNCHANGED <<armed, phase, aborted, wake, nextTurn, nextStep, competing, checkpoint,
                 runVars, pluginVars, unsent, halted, loose, way>>

\* More input for the nearest step.
NextStep ==
  /\ pc = "step" /\ Awaiting /\ ~aborted /\ nextStep # {}
  /\ batch' = nextStep /\ nextStep' = {} /\ pc' = "prepare"
  /\ UNCHANGED <<goalVars, phase, aborted, wake, nextTurn, stateVars, runVars,
                 pluginVars, unsent, history>>

\* turn/end after the last step; max-tokens disarms.
EndTurn ==
  /\ pc = "step" /\ Awaiting /\ ~aborted /\ nextStep = {}
  /\ pc' = "ended"
  /\ UNCHANGED armed \/ (plugin # "gone" /\ Disarms)
  /\ UNCHANGED <<goal, failed, phase, aborted, wake, inboxVars, stateVars, runVars,
                 pluginVars, unsent, history>>

NextTurn ==
  /\ pc = "ended" /\ Free
  /\ IF hasPending THEN pc' = "begin" /\ aborted' = FALSE /\ wake' = FALSE
     ELSE pc' = "settling" /\ UNCHANGED <<aborted, wake>>
  /\ UNCHANGED <<goalVars, phase, inboxVars, stateVars, runVars, pluginVars,
                 unsent, history>>

\* Mutation: a queued reservation stays in the queue at idle.
Withdraws_Not(queued) == UNCHANGED nextTurn

\* A reservation that is still queued at idle cannot run.
Withdraws(queued) ==
  IF queued /\ attempt.of \in Queued
  THEN \E k \in DOMAIN nextTurn : nextTurn[k] = attempt.of /\ nextTurn' = RemoveAt(nextTurn, k)
  ELSE UNCHANGED nextTurn

\* The driver leaves: the phase is idle, and the plugin settles the attempt.  A
\* failed projection stops the listener where it reads the goal.
Settle ==
  /\ pc = "settling" /\ Awaiting
  /\ phase' = "idle" /\ aborted' = FALSE /\ wake' = FALSE
  /\ pc' = IF wake THEN "replay" ELSE "off"
  /\ competing' = (plugin = "gone" /\ competing)
  /\ IF plugin = "gone" \/ failed
     THEN UNCHANGED <<goal, armed, checkpoint, way, attempt, nextTurn, requested, run>>
     ELSE LET queued == attempt # None /\ attempt.at = "queued"
              pause  == /\ attempt # None
                        /\ attempt.at # "admitted" \/ attempt.cancelled
                        /\ drivable(goal) /\ attempt.of.ref = goal.ref
          IN /\ attempt' = IF pause \/ queued THEN None ELSE attempt
             /\ Withdraws(queued)
             /\ IF pause THEN Changed(NextRef([goal EXCEPT !.phase = "paused"]), FALSE)
                ELSE UNCHANGED <<goal, armed, checkpoint, way>>
             /\ IF plugin # "active" THEN UNCHANGED <<requested, run>>
                ELSE /\ run' = IF run = "none" THEN "drive" ELSE run
                     /\ requested' = (pause \/ run # "none")
  /\ UNCHANGED <<failed, nextStep, batch, view, pluginVars, unsent, settled, halted, loose>>

\* The wake that was latched behind the aborted activity.
Replay ==
  /\ pc = "replay" /\ Free
  /\ IF phase = "idle" /\ hasPending THEN phase' = "running" /\ pc' = "begin"
     ELSE pc' = "off" /\ UNCHANGED phase
  /\ UNCHANGED <<goalVars, aborted, wake, inboxVars, stateVars, runVars, pluginVars,
                 unsent, history>>

-----------------------------------------------------------------------------
(* The plugin unloads and loads; the process stops and starts.               *)

\* Mutation: the unload leaves the turn alone.
BeginUnload_LeavesTurn ==
  /\ plugin = "active" /\ Awaiting
  /\ plugin' = "closing"
  /\ Disarms
  /\ joining' = FALSE
  /\ attempt' = IF attempt = None THEN None ELSE [attempt EXCEPT !.stale = TRUE]
  /\ UNCHANGED <<goal, failed, agentVars, inboxVars, competing, checkpoint, runVars, unsent,
                 history>>

\* The fiber calls the plugin's disposer in a microtask of its own.
BeginUnload ==
  /\ plugin = "active" /\ Awaiting
  /\ plugin' = "closing"
  /\ Disarms
  /\ joining' = (attempt # None /\ phase = "running")
  /\ IF joining'
     THEN /\ nextTurn' = <<>> /\ nextStep' = {}
          /\ attempt' = [attempt EXCEPT !.stale = TRUE,
                                        !.cancelled = @ \/ \E i \in Queued : IsAttempt(i)]
          /\ settled' = settled \cup ((Queued \cup nextStep) \cap Human)
          /\ aborted' = TRUE /\ wake' = FALSE
     ELSE /\ attempt' = IF attempt = None THEN None ELSE [attempt EXCEPT !.stale = TRUE]
          /\ UNCHANGED <<nextTurn, nextStep, settled, aborted, wake>>
  /\ UNCHANGED <<goal, failed, phase, pc, batch, competing, checkpoint, runVars, unsent,
                 halted, loose, way>>

\* The listeners leave when the runs and the agent have settled.
FinishUnload ==
  /\ plugin = "closing" /\ Awaiting
  /\ run = "none" /\ (joining => phase = "idle")
  /\ plugin' = "gone" /\ joining' = FALSE
  /\ attempt' = None /\ competing' = FALSE /\ checkpoint' = FALSE
  /\ loose' = loose \cup Ids(QueuedRounds \cup claimedRounds)
  /\ UNCHANGED <<goalVars, agentVars, inboxVars, runVars, unsent, settled, halted, way>>

\* A new instance over a live agent arms nothing.
Load ==
  /\ plugin = "gone" /\ Awaiting
  /\ plugin' = "active" /\ Disarms
  /\ requested' = FALSE
  /\ UNCHANGED <<goal, failed, agentVars, inboxVars, stateVars, run, view, joining,
                 unsent, history>>

\* The session is resumed from its log in a new process.
Restart ==
  /\ Awaiting
  /\ armed' = FALSE
  /\ phase' = "idle" /\ aborted' = FALSE /\ wake' = FALSE /\ pc' = "off"
  /\ batch' = {} /\ settled' = settled \cup (batch \cap Human)
  /\ attempt' = None /\ competing' = FALSE /\ checkpoint' = FALSE
  /\ requested' = FALSE /\ run' = "none" /\ view' = NoGoal
  /\ plugin' = "active" /\ joining' = FALSE
  /\ loose' = loose \cup Ids(QueuedRounds)
  /\ UNCHANGED <<goal, failed, nextTurn, nextStep, unsent, halted, way>>

-----------------------------------------------------------------------------
GoalCaller ==
  \/ \E c \in Cap : Create(c) \/ Edit(c)
  \/ Pause \/ ModelPause \/ Resume \/ Complete \/ Block \/ Clear

Caller ==
  \/ \E h \in Human, list \in {"next-turn", "next-step"} : Send(h, list)
  \/ Cancel \/ CancelKeepingInbox \/ StartMaintenance
  \/ BeginUnload \/ Load \/ Restart

Pass == Drive \/ Flushed \/ WaitFails \/ ChildrenSettle \/ Loop \/ Retire

Turn ==
  \/ Wake \/ BeginTurn \/ Claim \/ Aborts \/ Fails \/ Rejected \/ EntersEmpty
  \/ Passed \/ FenceBefore \/ FenceAfter \/ InnerThrows \/ InnerRejects
  \/ Admit \/ NextStep \/ EndTurn \/ NextTurn \/ Settle \/ Replay

Next == GoalCaller \/ Caller \/ Pass \/ Turn \/ FinishMaintenance \/ FinishUnload

Spec == Init /\ [][Next]_vars

\* Promises that the agent and the plugin await settle.
Fairness ==
  WF_vars(Pass) /\ WF_vars(Turn) /\ WF_vars(FinishMaintenance) /\ WF_vars(FinishUnload)

FairSpec == Spec /\ Fairness

-----------------------------------------------------------------------------
(* Properties.                                                               *)

\* The message of a round enters the history; a loose one has no fence left.
StartsRound == pc = "admit" /\ pc' = "step" /\ ~(Ids(claimedRounds) \subseteq loose)

\* The strict fold takes every round that has passed both fences and whose goal
\* is unchanged since, however reservations, cancellations, edits and unloads
\* interleave before (index.ts:365-378, fold.ts:325-330).  It can refuse only a
\* round whose goal a caller changed between its second fence and its message, or
\* one that an unload left in the queue and that passed no fence.
FencedRoundsReplay == [][~failed /\ failed' => way # "fenced"]_vars

\* After a turn is cancelled no round starts until a caller changes the goal
\* again: the attempt is paused at idle or the goal is disarmed (index.ts:283-286,
\* 353-358).  A turn whose attempt was for an earlier revision is exempt.
CancelHalts == [][StartsRound => ~halted]_vars

\* A queued round is the attempt's, unless an unload, a restart or a second
\* reservation during maintenance has left it behind: no fence and no cancellation
\* strands a round in front of human input (index.ts:287-294, 393-401).
RoundsAreWatched ==
  plugin = "active" => \A i \in QueuedRounds : i.id \in loose \/ (attempt # None /\ attempt.of = i)

\* Where nothing is under way, an armed goal waits only for a prompt that
\* competes with it or for an attempt that was cancelled in maintenance: no
\* trigger is lost between a pass, its awaits and its retirement (index.ts:224-257).
AtRest == run = "none" /\ phase = "idle" /\ pc = "off"

ArmedIsDriven ==
  AtRest /\ plugin = "active" /\ ~failed /\ drivable(goal)
    => competing \/ (attempt # None /\ attempt.cancelled)

\* What people have sent is pending, claimed, or was settled by the agent itself:
\* a round that its own fence rejects takes no human message with it
\* (index.ts:135-143), and nothing is queued twice.
HumanInputIsConserved ==
  LET places == <<unsent, Queued \cap Human, nextStep, batch \cap Human, settled>> IN
  /\ \A h \in Human : \E k \in 1 .. 5 : h \in places[k]
  /\ \A j, k \in 1 .. 5 : j # k => places[j] \cap places[k] = {}
  /\ \A j, k \in DOMAIN nextTurn : nextTurn[j] = nextTurn[k] => j = k

\* Once the plugin unloads it starts no round; only one that a listener no longer
\* watches can enter the history (index.ts:456-475).
UnloadIsFinal == [][StartsRound => plugin = "active"]_vars

\* An armed goal does not spin: unless maintenance is started for ever, it comes to
\* rest or is handed to somebody (index.ts:164-169, 411, 440).
GoalComesToRest ==
  <>[][phase' # "maintenance"]_phase
    => []<>(~drivable(goal) \/ competing \/ failed \/ plugin # "active"
            \/ (attempt # None /\ attempt.cancelled))

\* "the driver continues the new revision" (goal-round-driver/README.md): a change
\* of the goal leaves its log replayable.
ReplayHolds == ~failed

=============================================================================
