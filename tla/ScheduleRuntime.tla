-------------------------- MODULE ScheduleRuntime --------------------------
(***************************************************************************)
(* The host's reminders (ScheduleRuntime and ScheduleService): one timer   *)
(* over a durable table of tasks, deliveries that enqueue a message in the *)
(* inbox of a session, and management edits between them.                  *)
(*                                                                         *)
(* Deliveries, manual runs and edits share one queue (serialize): a drive  *)
(* or a manual run is the operation "op", and edits happen while no        *)
(* operation is open.  Everything else runs at each await of an operation: *)
(* agents, the archive of sessions, the clock, stop and crash.             *)
(*                                                                         *)
(* A row of the table is written atomically.  The log of a session is not  *)
(* durable before it is flushed: a crash leaves any of tails[s].  Prompts, *)
(* titles, notices, retained history and calendar rules are abstracted: a  *)
(* recurring task occurs every Every units, until its rule is exhausted.   *)
(***************************************************************************)
EXTENDS Integers, FiniteSets

CONSTANTS Task, Session, None,
          Recurring,    \* tasks that occur more than once
          Existing,     \* sessions that exist at the first start
          Kinds,        \* kinds of targets: "session", "once" (new_once), "new"
          Every,        \* distance of occurrences
          Floor,        \* MIN_DELIVERY_INTERVAL_MS, newSessionIntervalMs
          Faults,       \* what may go wrong
          Edits,        \* what users and other components may do
          MaxFaults, MaxEdits, MaxTime, MaxMessages     \* bounds of the model

ASSUME TaskAssumption == None \notin Task \cup Session
ASSUME TimerAssumption == None \notin Nat
ASSUME InboxAssumption == \A messages \in SUBSET (1 .. MaxMessages) : messages # None
ASSUME ConfigAssumption == Existing \subseteq Session
ASSUME TimeAssumption == Every \in Nat \ {0} /\ Floor \in Nat /\ MaxTime \in Nat
ASSUME BoundAssumption == MaxMessages \in Nat /\ MaxFaults \in Nat /\ MaxEdits \in Nat

VARIABLES
  rows,        \* the table of tasks
  archive,     \* of each session, with or without a stop of its activity
  op,          \* the operation that holds the queue
  loop,        \* the drive loop: "off", "queued", "driving"
  requested,   \* another drive was requested meanwhile
  timer,       \* when the timer fires, or None
  failed,      \* tasks the last drive leaves to the next one
  executing,   \* tasks that hold their slot
  watches,     \* slots to release when an agent is idle
  stopping,
  now,         \* the wall clock
  agent,       \* of each session: "absent", "idle", "busy"
  inbox,       \* reminders that wait in it, None before the session exists
  tails,       \* the inboxes that a crash may leave
  faults, edits,
  sent,        \* history: messages created
  acked,       \* history: the tasks whose slot and receipt a message has
  consumed,    \* history: messages a turn claimed, or a cancel or disposal discarded
  unseen,      \* history: messages a later delivery of their task passed by
  requeued,    \* history: messages sent again, whose requeue is not durable
  fate         \* history: what became of a session reserved for a "new" target

driveVars == <<loop, requested, timer, failed>>
slotVars  == <<executing, watches>>
logVars   == <<agent, inbox, tails>>
history   == <<sent, acked, consumed, unseen, requeued, fate>>
world     == <<now, stopping, archive, edits>>
vars == <<rows, op, driveVars, slotVars, logVars, world, faults, history>>

Message == 1 .. MaxMessages
Instant == 0 .. MaxTime + Every
Receipt == [message : Message, session : Session, occurrence : Instant, delivered : Instant]
ASSUME ReceiptAssumption == None \notin Receipt

Row == [status : {"absent", "active", "paused", "ended", "deleted"},
        kind : {"session", "once", "new"}, session : Session \cup {None}, at : Instant,
        last : Receipt \cup {None}, reserved : Session \cup {None}]

Rest == [pc |-> "none", manual |-> FALSE, due |-> {}, group |-> {}, candidates |-> {},
         unchecked |-> {}, subject |-> None, session |-> None, message |-> 0,
         sentAt |-> 0, ackAt |-> 0, left |-> {}, held |-> {}, idled |-> FALSE]

\* Types, and two facts of storage: what waits in an inbox is among what a crash
\* may leave of it, and a session that does not exist has no inbox (runtime.ts
\* ScheduleTask, SentReminder; inbox.ts splice).
TypeOK ==
  /\ rows \in [Task -> Row]
  /\ archive \in [Session -> {"open", "asked", "archived", "stopping", "stopped"}]
  /\ op \in [pc : {"none", "pick", "check", "restore", "requeue", "reserve", "open",
                   "create", "send", "flush", "commit"},
             manual : BOOLEAN, due : SUBSET Task, group : SUBSET Task,
             candidates : SUBSET Task, unchecked : SUBSET Task,
             subject : Task \cup {None}, session : Session \cup {None},
             message : Message \cup {0}, sentAt : Instant, ackAt : Instant,
             left : SUBSET Task, held : SUBSET Task, idled : BOOLEAN]
  /\ loop \in {"off", "queued", "driving"} /\ requested \in BOOLEAN
  /\ timer \in Nat \cup {None} /\ failed \subseteq Task /\ executing \subseteq Task
  /\ watches \subseteq [tasks : SUBSET Task, session : Session, done : BOOLEAN]
  /\ stopping \in BOOLEAN /\ now \in 0 .. MaxTime
  /\ agent \in [Session -> {"absent", "idle", "busy"}]
  /\ \A s \in Session : inbox[s] \in (SUBSET Message) \cup {None}
  /\ \A s \in Session : inbox[s] \in tails[s] /\ tails[s] \subseteq (SUBSET Message) \cup {None}
  /\ faults \in 0 .. MaxFaults /\ edits \in 0 .. MaxEdits /\ sent \in 0 .. MaxMessages
  /\ acked \in [Message -> SUBSET Task]
  /\ consumed \subseteq Message /\ unseen \subseteq Message /\ requeued \subseteq Message
  /\ fate \in [Session -> {"none", "reserved", "delivered", "forsaken"}]

NewRow(status, kind, session, at) ==
  [status |-> status, kind |-> kind, session |-> session, at |-> at,
   last |-> None, reserved |-> None]

\* A task may be in the table already, and target a session that exists, one to
\* be created at the first delivery, which no other task names, or one created at
\* each delivery.
InitialRows ==
  {NewRow("absent", "session", None, 0)}
  \cup {row \in {NewRow("active", "session", s, 1) : s \in Existing}
                \cup {NewRow("active", "once", s, 1) : s \in Session \ Existing}
                \cup {NewRow("active", "new", None, 1)} : row.kind \in Kinds}

\* The table of an earlier run, and the request for a drive at startup.
Init ==
  /\ rows \in [Task -> InitialRows]
  /\ \A t, u \in Task : t # u /\ rows[t].kind = "once" => rows[u].session # rows[t].session
  /\ archive = [s \in Session |-> "open"]
  /\ op = Rest /\ loop = "queued" /\ requested = FALSE /\ timer = None
  /\ failed = {} /\ executing = {} /\ watches = {} /\ stopping = FALSE /\ now = 0
  /\ agent = [s \in Session |-> "absent"]
  /\ inbox = [s \in Session |-> IF s \in Existing THEN {} ELSE None]
  /\ tails = [s \in Session |-> {inbox[s]}]
  /\ faults = 0 /\ edits = 0 /\ sent = 0
  /\ acked = [m \in Message |-> {}]
  /\ consumed = {} /\ unseen = {} /\ requeued = {}
  /\ fate = [s \in Session |-> "none"]

-----------------------------------------------------------------------------
(* Helpers.                                                                  *)

Present(t) == rows[t].status \in {"active", "paused", "ended"}
Active(t)  == rows[t].status = "active"

Later(a, b)  == IF a >= b THEN a ELSE b
Earliest(S)  == CHOOSE a \in S : \A b \in S : a <= b

Archived(s) == archive[s] \in {"archived", "stopping", "stopped"}
Exists(s)   == inbox[s] # None
Waiting(s)  == IF Exists(s) THEN inbox[s] ELSE {}

\* Due recurring tasks of one session share a message.
BatchSession(t) ==
  IF rows[t].kind = "session" /\ t \in Recurring THEN rows[t].session ELSE None

\* Mutation: a reservation is not looked up.
Destination_Fresh(t) == IF rows[t].kind = "new" THEN None ELSE rows[t].session

\* The session of the next delivery, None when it is not chosen yet.
Destination(t) == IF rows[t].kind = "new" THEN rows[t].reserved ELSE rows[t].session

\* When t may be delivered again: an occurrence whose successor keeps the
\* interval anchors it, and the acknowledgment otherwise.
NextAdmission(t) ==
  IF rows[t].last = None THEN 0
  ELSE LET last == rows[t].last
       IN  Floor + (IF rows[t].at - last.occurrence >= Floor THEN last.occurrence
                                                              ELSE last.delivered)

\* resolveRecurringOccurrence: the latest occurrence that has come.
Occurrence(t, time) ==
  IF t \in Recurring THEN rows[t].at + Every * ((time - rows[t].at) \div Every)
                     ELSE rows[t].at

Fault(kind) == kind \in Faults /\ faults < MaxFaults /\ faults' = faults + 1
Edit(kind)  == kind \in Edits /\ edits < MaxEdits /\ edits' = edits + 1

Splice(s, box) ==
  /\ inbox' = [inbox EXCEPT ![s] = box]
  /\ tails' = [tails EXCEPT ![s] = @ \cup {box}]

\* sessions.flush
Flushed(s) == tails' = [tails EXCEPT ![s] = {inbox[s]}]

Activated(s) == IF agent[s] = "absent" THEN "idle" ELSE agent[s]

RequestDrive ==
  /\ timer' = IF stopping THEN timer ELSE None
  /\ loop' = IF loop = "off" /\ ~stopping THEN "queued" ELSE loop
  /\ requested' = (requested \/ (loop # "off" /\ ~stopping))
  /\ UNCHANGED failed

-----------------------------------------------------------------------------
(* A drive picks due groups; a manual run is one task (drive, runNow).       *)

\* What the operation goes on with when its group is done.
Proceed == IF op.manual THEN Rest ELSE [Rest EXCEPT !.pc = "pick", !.due = op.due]

\* The catch clause of deliverDue: pending tasks that are due wait for the next
\* drive, whatever requests it.  A manual run rejects.
Abandon(pending) ==
  /\ op' = Proceed
  /\ failed' = IF op.manual THEN failed
               ELSE failed \cup {t \in pending : rows[t].at <= now}
  /\ UNCHANGED <<loop, requested, timer>>

BeginDrive ==
  /\ loop = "queued" /\ op = Rest
  /\ loop' = "driving" /\ timer' = None /\ failed' = {}
  /\ op' = [Rest EXCEPT !.pc = "pick",
              !.due = {t \in Task \ executing : Active(t) /\ rows[t].at <= now}]
  /\ UNCHANGED <<rows, requested, slotVars, logVars, world, faults, history>>

Pick(t) ==
  /\ op.pc = "pick" /\ ~stopping /\ t \in op.due
  /\ LET group == {u \in op.due : u = t \/ BatchSession(t) \in {BatchSession(u)} \ {None}}
     IN  op' = [op EXCEPT !.pc = "check", !.due = @ \ group, !.group = group,
                          !.unchecked = group]
  /\ UNCHANGED <<rows, driveVars, slotVars, logVars, world, faults, history>>

\* When the tasks the timer has to serve may be delivered.
Obligations == {Later(rows[t].at, NextAdmission(t)) :
                  t \in {u \in Task \ (failed \cup executing) : Active(u)}}

\* The end of drive, and of the round of the loop it runs in.
EndDrive ==
  /\ op.pc = "pick" /\ (stopping \/ op.due = {})
  /\ timer' = IF stopping \/ Obligations = {} THEN None ELSE Earliest(Obligations)
  /\ op' = Rest
  /\ loop' = IF requested /\ ~stopping THEN "queued" ELSE "off"
  /\ requested' = FALSE
  /\ UNCHANGED <<rows, failed, slotVars, logVars, world, faults, history>>

RunNow(t) ==
  /\ op = Rest /\ Present(t) /\ Edit("run")
  /\ op' = [Rest EXCEPT !.pc = "check", !.manual = TRUE, !.group = {t}, !.unchecked = {t}]
  /\ UNCHANGED <<rows, driveVars, slotVars, logVars, now, stopping, archive, faults, history>>

\* The timer may fire early: its delay is capped, and the clock may be set back.
TimerFires ==
  /\ timer # None
  /\ RequestDrive
  /\ UNCHANGED <<rows, op, slotVars, logVars, world, faults, history>>

-----------------------------------------------------------------------------
(* Admission: the floor, the slot, and the last delivery that may still wait *)
(* in its inbox (deliverDue, recoverOutstandingExecution).                   *)

Skip(t)     == [op EXCEPT !.pc = "check", !.unchecked = @ \ {t}]
Consider(t) == [op EXCEPT !.pc = "check", !.unchecked = @ \ {t}, !.candidates = @ \cup {t}]

\* Mutation: the floor is not looked at.
Refuses_NoFloor(t) == t \in executing

\* Mutation: a held slot does not refuse a delivery.
Refuses_NoSlot(t) == NextAdmission(t) > now

Refuses(t) == NextAdmission(t) > now \/ t \in executing

\* Mutation: the inbox of the last delivery is not looked up.
LooksUp_Never(t) == FALSE

\* A task that was never delivered, or whose last session is archived, is not
\* looked up.
LooksUp(t) == rows[t].last # None /\ ~Archived(rows[t].last.session)

Check(t) ==
  /\ op.pc = "check" /\ t \in op.unchecked
  /\ \/ Refuses(t) /\ op' = Skip(t) /\ UNCHANGED unseen
     \/ /\ ~Refuses(t) /\ LooksUp(t)
        /\ op' = [op EXCEPT !.pc = "restore", !.subject = t, !.session = rows[t].last.session]
        /\ UNCHANGED unseen
     \/ /\ ~Refuses(t) /\ ~LooksUp(t)
        /\ IF rows[t].last # None /\ Archived(rows[t].last.session)
           THEN unseen' = unseen \cup {rows[t].last.message} ELSE UNCHANGED unseen
        /\ op' = Consider(t)
  /\ UNCHANGED <<rows, driveVars, slotVars, logVars, world, faults, sent, acked, consumed,
                 requeued, fate>>

\* The tasks that hold a slot for message m.
Holders(m) == {t \in Task : /\ Present(t) /\ rows[t].kind # "new"
                            /\ rows[t].last # None /\ rows[t].last.message = m}

Watch(tasks, s, done) ==
  watches' = watches \cup {[tasks |-> T, session |-> s, done |-> done] : T \in {tasks} \ {{}}}

\* The session of the last delivery is restored, or fails to be.
Restored ==
  LET t == op.subject
      s == op.session
      m == rows[t].last.message
      holders == Holders(m)
  IN
  /\ op.pc = "restore"
  /\ \/ /\ Fault("restore")
        /\ op' = Consider(t) /\ unseen' = unseen \cup {m}
        /\ UNCHANGED <<slotVars, logVars, requeued>>
     \/ /\ m \notin Waiting(s)
        /\ agent' = [agent EXCEPT ![s] = Activated(s)]
        /\ op' = Consider(t)
        /\ UNCHANGED <<slotVars, inbox, tails, faults, unseen, requeued>>
     \/ /\ m \in Waiting(s) /\ agent[s] = "busy"
        /\ executing' = executing \cup holders
        /\ Watch(holders, s, FALSE)
        /\ op' = IF t \in holders THEN Skip(t) ELSE Consider(t)
        /\ unseen' = IF t \in holders THEN unseen ELSE unseen \cup {m}
        /\ UNCHANGED <<logVars, faults, requeued>>
     \/ /\ m \in Waiting(s) /\ agent[s] # "busy"         \* requeued: removed, sent again
        /\ executing' = executing \cup holders
        /\ agent' = [agent EXCEPT ![s] = "busy"]
        /\ tails' = [tails EXCEPT ![s] = @ \cup {inbox[s] \ {m}, inbox[s]}]
        /\ op' = [op EXCEPT !.pc = "requeue", !.held = holders, !.idled = FALSE]
        /\ requeued' = requeued \cup {m}
        /\ UNCHANGED <<watches, inbox, faults, unseen>>
  /\ UNCHANGED <<rows, driveVars, world, sent, acked, consumed, fate>>

\* Mutation: a failed flush keeps the slots.
FreesHeld_Not == UNCHANGED executing

\* A flush that fails frees the slots that were taken for it.
FreesHeld == executing' = executing \ op.held

Requeued ==
  /\ op.pc = "requeue"
  /\ \/ /\ agent[op.session] # "absent" /\ Flushed(op.session)
        /\ Watch(op.held, op.session, op.idled)
        /\ op' = IF op.subject \in op.held THEN Skip(op.subject) ELSE Consider(op.subject)
        /\ unseen' = IF op.subject \in op.held THEN unseen
                     ELSE unseen \cup {rows[op.subject].last.message}
        /\ requeued' = requeued \ {rows[op.subject].last.message}
        /\ UNCHANGED <<driveVars, executing, faults>>
     \/ /\ IF agent[op.session] = "absent" THEN UNCHANGED faults ELSE Fault("flush")
        /\ FreesHeld /\ Abandon(op.group)
        /\ UNCHANGED <<watches, tails, unseen, requeued>>
  /\ UNCHANGED <<rows, agent, inbox, world, sent, acked, consumed, fate>>

-----------------------------------------------------------------------------
(* The target session (resolveTarget).                                       *)

\* The due candidates are admitted; an archived destination refuses them.
Admit ==
  LET admitted == {t \in op.candidates : op.manual \/ rows[t].at <= now}
      first == CHOOSE t \in admitted : TRUE
      s == Destination(first)
  IN
  /\ op.pc = "check" /\ op.unchecked = {}
  /\ \/ admitted = {} /\ op' = Proceed /\ UNCHANGED driveVars
     \/ /\ admitted # {} /\ s # None
        /\ Archived(s) /\ Abandon(admitted)
     \/ /\ admitted # {} /\ s # None
        /\ ~Archived(s)
        /\ op' = [Proceed EXCEPT !.pc = "open", !.manual = op.manual, !.group = admitted,
                                 !.subject = first, !.session = s]
        /\ UNCHANGED driveVars
     \/ /\ admitted # {} /\ s = None
        /\ op' = [Proceed EXCEPT !.pc = "reserve", !.manual = op.manual, !.group = admitted,
                                 !.subject = first]
        /\ UNCHANGED driveVars
  /\ UNCHANGED <<rows, slotVars, logVars, world, faults, history>>

Unused(s) == /\ ~Exists(s) /\ fate[s] = "none"
             /\ \A t \in Task : rows[t].session # s /\ rows[t].reserved # s

\* The identity of a new session is in the table before the session exists.
Reserve ==
  /\ op.pc = "reserve"
  /\ \/ \E s \in Session :
          /\ Unused(s)
          /\ rows' = [rows EXCEPT ![op.subject].reserved = s]
          /\ fate' = [fate EXCEPT ![s] = "reserved"]
          /\ op' = [op EXCEPT !.pc = "create", !.session = s]
          /\ UNCHANGED <<driveVars, faults>>
     \/ Fault("commit") /\ Abandon(op.group) /\ UNCHANGED <<rows, fate>>
  /\ UNCHANGED <<slotVars, logVars, world, sent, acked, consumed, unseen, requeued>>

\* An existing session is resolved; a missing one is created unless a user
\* chose it as an existing one.
Open ==
  LET s == op.session IN
  /\ op.pc = "open"
  /\ \/ /\ Exists(s)
        /\ agent' = [agent EXCEPT ![s] = Activated(s)]
        /\ op' = [op EXCEPT !.pc = "send"]
        /\ UNCHANGED <<driveVars, faults>>
     \/ /\ ~Exists(s) /\ rows[op.subject].kind # "session"
        /\ op' = [op EXCEPT !.pc = "create"]
        /\ UNCHANGED <<driveVars, agent, faults>>
     \/ /\ IF ~Exists(s) /\ rows[op.subject].kind = "session" THEN UNCHANGED faults
           ELSE Fault("restore")
        /\ Abandon(op.group)
        /\ UNCHANGED agent
  /\ UNCHANGED <<rows, inbox, tails, slotVars, world, history>>

Create ==
  LET s == op.session IN
  /\ op.pc = "create"
  /\ \/ /\ Splice(s, {})
        /\ agent' = [agent EXCEPT ![s] = "idle"]
        /\ \/ op' = [op EXCEPT !.pc = "send"] /\ UNCHANGED <<driveVars, faults>>
           \/ Fault("create") /\ Abandon(op.group)         \* created, not resolved
     \/ Fault("create") /\ Abandon(op.group) /\ UNCHANGED logVars
  /\ UNCHANGED <<rows, slotVars, world, history>>

-----------------------------------------------------------------------------
(* Delivery: the message is enqueued, flushed, and committed task by task    *)
(* (send, advanced, delivered, settle).                                      *)

\* Members that the clock made future while the session was resolved drop out.
Send ==
  LET s == op.session
      m == sent + 1
      admitted == {t \in op.group : op.manual \/ rows[t].at <= now}
      holders == {t \in admitted : rows[t].kind # "new"}
  IN
  /\ op.pc = "send"
  /\ \/ /\ stopping \/ admitted = {}
        /\ op' = Proceed
        /\ UNCHANGED <<driveVars, slotVars, logVars, sent>>
     \/ /\ ~stopping /\ admitted # {} /\ agent[s] = "absent"    \* unloaded meanwhile
        /\ Abandon(admitted)
        /\ UNCHANGED <<slotVars, logVars, sent>>
     \/ /\ ~stopping /\ admitted # {} /\ agent[s] # "absent" /\ m \in Message
        /\ sent' = m
        /\ executing' = executing \cup holders
        /\ Splice(s, inbox[s] \cup {m})
        /\ agent' = [agent EXCEPT ![s] = "busy"]
        /\ op' = [op EXCEPT !.pc = "flush", !.group = admitted, !.left = admitted,
                            !.held = holders, !.message = m, !.sentAt = now, !.idled = FALSE]
        /\ UNCHANGED <<driveVars, watches>>
  /\ UNCHANGED <<rows, world, faults, acked, consumed, unseen, requeued, fate>>

\* Mutation: the message is taken for durable without waiting for the flush.
Flush_NoWait ==
  /\ op.pc = "flush"
  /\ op' = [op EXCEPT !.pc = "commit", !.ackAt = now]
  /\ UNCHANGED <<rows, driveVars, slotVars, logVars, world, faults, history>>

Flush ==
  /\ op.pc = "flush"
  /\ \/ /\ agent[op.session] # "absent" /\ Flushed(op.session)
        /\ op' = [op EXCEPT !.pc = "commit", !.ackAt = now]
        /\ UNCHANGED <<driveVars, executing, faults>>
     \/ /\ IF agent[op.session] = "absent" THEN UNCHANGED faults ELSE Fault("flush")
        /\ FreesHeld /\ Abandon(op.group)
        /\ UNCHANGED tails
  /\ UNCHANGED <<rows, watches, agent, inbox, world, history>>

Delivered(t, occurrence) ==
  [rows[t] EXCEPT !.kind = IF @ = "once" THEN "session" ELSE @,
                  !.last = [message |-> op.message, session |-> op.session,
                            occurrence |-> occurrence, delivered |-> op.ackAt],
                  !.reserved = None]

\* A rule may have no occurrence after this one.
Advanced(t) ==
  LET occurrence == Occurrence(t, op.sentAt) IN
  {[Delivered(t, occurrence) EXCEPT !.status = "ended", !.at = occurrence]}
  \cup IF t \in Recurring
       THEN {[Delivered(t, occurrence) EXCEPT !.status = "active", !.at = occurrence + Every]}
       ELSE {}

\* Mutation: nobody waits for the agent.
Settle_Unwatched(left) == executing' = executing \ (op.held \cap left) /\ UNCHANGED watches

\* Slots of committed tasks wait for the agent, the others are free.
Settle(left) ==
  /\ executing' = executing \ (op.held \cap left)
  /\ Watch(op.held \ left, op.session, op.idled)

Commit(t) ==
  LET left == op.left \ {t} IN
  /\ op.pc = "commit" /\ t \in op.left
  /\ \/ /\ \E row \in IF op.manual THEN {Delivered(t, op.sentAt)} ELSE Advanced(t) :
             rows' = [rows EXCEPT ![t] = row]
        /\ acked' = [acked EXCEPT ![op.message] = @ \cup ({t} \cap op.held)]
        /\ fate' = [fate EXCEPT ![op.session] = IF @ = "none" THEN @ ELSE "delivered"]
        /\ IF left = {} THEN Settle({}) /\ op' = Proceed
           ELSE op' = [op EXCEPT !.left = left] /\ UNCHANGED slotVars
        /\ UNCHANGED <<driveVars, faults>>
     \/ /\ Fault("commit")
        /\ Settle(op.left) /\ Abandon(op.left)
        /\ UNCHANGED <<rows, acked, fate>>
  /\ UNCHANGED <<logVars, world, sent, consumed, unseen, requeued>>

\* Mutation: a free slot requests no drive.
Release_NoDrive(w) ==
  /\ w \in watches /\ w.done
  /\ watches' = watches \ {w}
  /\ executing' = executing \ w.tasks
  /\ UNCHANGED <<rows, op, driveVars, logVars, world, faults, history>>

\* The agent a slot waits for was idle: the slot is free, and a drive is due.
Release(w) ==
  /\ w \in watches /\ w.done
  /\ watches' = watches \ {w}
  /\ executing' = executing \ w.tasks
  /\ RequestDrive
  /\ UNCHANGED <<rows, op, logVars, world, faults, history>>

-----------------------------------------------------------------------------
(* Management, between operations (create, edit, deleteInactive, and the     *)
(* archive stop).  ValidTarget is validateTarget.                            *)

\* Mutation: an archived session is accepted.
ValidTarget_Archived(k, s) ==
  \/ k = "session" /\ s \in Session /\ Exists(s)
  \/ k = "once" /\ s \in Session
  \/ k = "new" /\ s = None

ValidTarget(k, s) ==
  \/ k = "session" /\ s \in Session /\ Exists(s) /\ ~Archived(s)
  \/ k = "once" /\ s \in Session /\ ~Archived(s)
  \/ k = "new" /\ s = None

\* Mutation: management does not wait for the queue.
Manages_Unqueued == TRUE

\* What was queued before the service stops still runs.
Manages == op = Rest

Forsaken(T) == fate' = [s \in Session |-> IF \E t \in T : rows[t].reserved = s
                                          THEN "forsaken" ELSE fate[s]]

\* The row is built from a reading of the clock taken before the queue.
CreateTask(t, k, s, at) ==
  /\ Manages /\ Edit("create") /\ rows[t].status = "absent"
  /\ k \in Kinds /\ ValidTarget(k, s) /\ (k = "once" => Unused(s))
  /\ rows' = [rows EXCEPT ![t] = NewRow("active", k, s, at)]
  /\ RequestDrive
  /\ UNCHANGED <<op, slotVars, logVars, now, stopping, archive, faults, history>>

Pause(t) ==
  /\ Manages /\ Edit("pause") /\ Present(t)
  /\ rows' = [rows EXCEPT ![t].status = "paused"]
  /\ RequestDrive
  /\ UNCHANGED <<op, slotVars, logVars, now, stopping, archive, faults, history>>

\* Mutation: another occurrence requests no drive.
Rearm_NoDrive(t, at, resume) ==
  /\ Manages /\ Edit("rearm") /\ Present(t) /\ at > now
  /\ ValidTarget(rows[t].kind, rows[t].session)
  /\ rows' = [rows EXCEPT ![t].at = at,
                          ![t].status = IF resume \/ @ = "ended" THEN "active" ELSE @,
                          ![t].reserved = IF at = rows[t].at THEN @ ELSE None]
  /\ Forsaken({u \in {t} : at # rows[t].at})
  /\ UNCHANGED <<op, driveVars, slotVars, logVars, now, stopping, archive, faults, sent,
                 acked, consumed, unseen, requeued>>

\* A resumed task, or one with another rule, gets a future occurrence; another
\* rule wakes an ended task and leaves a paused one paused.
Rearm(t, at, resume) ==
  /\ Manages /\ Edit("rearm") /\ Present(t) /\ at > now
  /\ ValidTarget(rows[t].kind, rows[t].session)
  /\ rows' = [rows EXCEPT ![t].at = at,
                          ![t].status = IF resume \/ @ = "ended" THEN "active" ELSE @,
                          ![t].reserved = IF at = rows[t].at THEN @ ELSE None]
  /\ Forsaken({u \in {t} : at # rows[t].at})
  /\ RequestDrive
  /\ UNCHANGED <<op, slotVars, logVars, now, stopping, archive, faults, sent, acked,
                 consumed, unseen, requeued>>

Retarget(t, k, s) ==
  /\ Manages /\ Edit("retarget") /\ Present(t)
  /\ k \in Kinds /\ ValidTarget(k, s) /\ (k = "once" => Unused(s))
  /\ <<k, s>> # <<rows[t].kind, rows[t].session>>
  /\ rows' = [rows EXCEPT ![t].kind = k, ![t].session = s, ![t].reserved = None]
  /\ Forsaken({t})
  /\ RequestDrive
  /\ UNCHANGED <<op, slotVars, logVars, now, stopping, archive, faults, sent, acked,
                 consumed, unseen, requeued>>

Removed(T) ==
  /\ rows' = [t \in Task |-> IF t \in T THEN [rows[t] EXCEPT !.status = "deleted",
                                                             !.reserved = None]
                                        ELSE rows[t]]
  /\ Forsaken(T)
  /\ UNCHANGED <<sent, acked, consumed, unseen, requeued>>

Delete(t) ==
  /\ Manages /\ Edit("delete") /\ Present(t)
  /\ Removed({t})
  /\ RequestDrive
  /\ UNCHANGED <<op, slotVars, logVars, now, stopping, archive, faults>>

DeleteInactive ==
  /\ Manages /\ Edit("clear")
  /\ Removed({t \in Task : rows[t].status = "ended"})
  /\ UNCHANGED <<op, driveVars, slotVars, logVars, now, stopping, archive, faults>>

ActiveSessionTasks(s) == {t \in Task : Active(t) /\ rows[t].kind # "new" /\ rows[t].session = s}

\* Archiving asks for activity, and writes the archive set in a later step; the
\* table is read outside the queue.
AskArchive(s) ==
  /\ archive[s] = "open" /\ Exists(s) /\ Edit("archive")
  /\ ActiveSessionTasks(s) = {} /\ agent[s] # "busy"
  /\ archive' = [archive EXCEPT ![s] = "asked"]
  /\ UNCHANGED <<rows, op, driveVars, slotVars, logVars, now, stopping, faults, history>>

Archive(s) ==
  /\ archive[s] = "asked"
  /\ archive' = [archive EXCEPT ![s] = "archived"]
  /\ UNCHANGED <<rows, op, driveVars, slotVars, logVars, now, stopping, edits, faults, history>>

\* With stopActivity, the archive set is written first.  A running turn is
\* cancelled and its queue discarded; the tasks are deleted in the queue.
ArchiveAndStop(s) ==
  /\ archive[s] = "open" /\ Exists(s) /\ Edit("archiveStop")
  /\ archive' = [archive EXCEPT ![s] = "stopping"]
  /\ IF agent[s] = "busy" THEN Splice(s, {}) /\ consumed' = consumed \cup inbox[s]
     ELSE UNCHANGED <<inbox, tails, consumed>>
  /\ UNCHANGED <<rows, op, driveVars, slotVars, agent, now, stopping, faults, sent, acked,
                 unseen, requeued, fate>>

StopSessionTasks(s) ==
  /\ Manages /\ archive[s] = "stopping"
  /\ \/ /\ archive' = [archive EXCEPT ![s] = "stopped"]
        /\ Removed(ActiveSessionTasks(s))
        /\ IF ActiveSessionTasks(s) = {} THEN UNCHANGED driveVars ELSE RequestDrive
        /\ UNCHANGED faults
     \/ /\ Fault("commit")                               \* logged by the registry
        /\ archive' = [archive EXCEPT ![s] = "archived"]
        /\ UNCHANGED <<rows, driveVars, history>>
  /\ UNCHANGED <<op, slotVars, logVars, now, stopping, edits>>

Unarchive(s) ==
  /\ archive[s] \in {"archived", "stopped"} /\ Edit("unarchive")
  /\ archive' = [archive EXCEPT ![s] = "open"]
  /\ UNCHANGED <<rows, op, driveVars, slotVars, logVars, now, stopping, faults, history>>

-----------------------------------------------------------------------------
(* Agents, the clock, stop and crash.                                        *)

\* A turn takes a reminder.  The turn of an archived session is blocked after it
\* has claimed its input, which is gone all the same.
Claim(s, m) ==
  /\ agent[s] = "busy" /\ m \in Waiting(s)
  /\ Splice(s, inbox[s] \ {m}) /\ consumed' = consumed \cup {m}
  /\ UNCHANGED <<rows, op, driveVars, slotVars, agent, world, faults, sent, acked, unseen,
                 requeued, fate>>

\* whenIdle resolves for the slots, and for the delivery in progress.
Resolves(s) ==
  /\ watches' = {IF w.session = s THEN [w EXCEPT !.done = TRUE] ELSE w : w \in watches}
  /\ op' = IF op.session = s /\ op.pc \in {"requeue", "flush", "commit"}
           THEN [op EXCEPT !.idled = TRUE] ELSE op

\* A cancelled agent goes idle and keeps what waits in its inbox.
Idle(s) ==
  /\ agent[s] = "busy"
  /\ agent' = [agent EXCEPT ![s] = "idle"]
  /\ Resolves(s)
  /\ UNCHANGED <<rows, driveVars, executing, inbox, tails, world, faults, history>>

\* Other input of the session wakes its agent.
Wake(s) ==
  /\ Exists(s) /\ agent[s] # "busy" /\ Edit("wake")
  /\ agent' = [agent EXCEPT ![s] = "busy"]
  /\ UNCHANGED <<rows, op, driveVars, slotVars, inbox, tails, now, stopping, archive, faults,
                 history>>

\* An agent is disposed, and may discard its queue.
Dispose(s) ==
  /\ agent[s] # "absent" /\ Edit("dispose")
  /\ agent' = [agent EXCEPT ![s] = "absent"]
  /\ Resolves(s)
  /\ \/ Splice(s, {}) /\ consumed' = consumed \cup inbox[s]
     \/ UNCHANGED <<inbox, tails, consumed>>
  /\ UNCHANGED <<rows, driveVars, executing, now, stopping, archive, faults, sent, acked,
                 unseen, requeued, fate>>

\* A provider that can restore sessions appears.
ProviderReady ==
  /\ Edit("provider") /\ RequestDrive
  /\ UNCHANGED <<rows, op, slotVars, logVars, now, stopping, archive, faults, history>>

Tick ==
  /\ now < MaxTime /\ now' = now + 1
  /\ UNCHANGED <<rows, op, driveVars, slotVars, logVars, stopping, archive, edits, faults,
                 history>>

RollBack ==
  /\ Fault("rollback") /\ now' \in 0 .. now - 1
  /\ UNCHANGED <<rows, op, driveVars, slotVars, logVars, stopping, archive, edits, history>>

\* The service unloads; an open operation is drained.
Stop ==
  /\ ~stopping /\ Edit("stop")
  /\ stopping' = TRUE /\ timer' = None
  /\ UNCHANGED <<rows, op, loop, requested, failed, slotVars, logVars, now, archive, faults,
                 history>>

\* The process dies and starts again.
Crash ==
  /\ Fault("crash")
  /\ op' = Rest /\ loop' = "queued" /\ requested' = FALSE /\ timer' = None /\ failed' = {}
  /\ executing' = {} /\ watches' = {} /\ stopping' = FALSE
  /\ agent' = [s \in Session |-> "absent"]
  /\ \E left \in [Session -> UNION {tails[s] : s \in Session}] :
        /\ \A s \in Session : left[s] \in tails[s]
        /\ inbox' = left
        /\ tails' = [s \in Session |-> {left[s]}]
  /\ archive' = [s \in Session |-> IF archive[s] = "asked" THEN "open"
                                   ELSE IF archive[s] = "stopping" THEN "archived"
                                   ELSE archive[s]]
  /\ UNCHANGED <<rows, now, edits, history>>

-----------------------------------------------------------------------------

Operation ==
  \/ \E t \in Task : Pick(t) \/ Check(t) \/ Commit(t)
  \/ Restored \/ Requeued \/ Admit \/ Reserve \/ Open \/ Create \/ Send \/ Flush
  \/ EndDrive

Management ==
  \/ \E t \in Task :
       \/ RunNow(t) \/ Pause(t) \/ Delete(t)
       \/ \E k \in Kinds, s \in Session \cup {None} :
            \/ Retarget(t, k, s)
            \/ \E at \in 1 .. MaxTime : CreateTask(t, k, s, at)
       \/ \E at \in 1 .. MaxTime + Every, resume \in BOOLEAN : Rearm(t, at, resume)
  \/ DeleteInactive
  \/ \E s \in Session : \/ AskArchive(s) \/ Archive(s) \/ ArchiveAndStop(s)
                        \/ StopSessionTasks(s) \/ Unarchive(s)

Agents ==
  \E s \in Session : \/ Idle(s) \/ Wake(s) \/ Dispose(s)
                     \/ \E m \in Message : Claim(s, m)

Next ==
  \/ BeginDrive \/ Operation \/ TimerFires \/ \E w \in watches : Release(w)
  \/ Management
  \/ Agents
  \/ ProviderReady \/ Tick \/ RollBack \/ Stop \/ Crash

Spec == Init /\ [][Next]_vars

\* The queue is first in, first out, so a queued drive gets its turn whatever
\* is queued meanwhile; promises and timers run; the turns of agents end, and
\* not each of them is cancelled before it takes what waits in the inbox.
Fairness ==
  /\ SF_vars(BeginDrive)
  /\ WF_vars(Operation)
  /\ WF_vars(timer # None /\ timer <= now /\ TimerFires)
  /\ \A s \in Session : /\ WF_vars(Idle(s))
                        /\ SF_vars(\E m \in Message : Claim(s, m))
                        /\ WF_vars(\E w \in watches : w.session = s /\ Release(w))

FairSpec == Spec /\ Fairness

-----------------------------------------------------------------------------
(* Properties.                                                               *)

\* At rest no active task is forgotten: it was left to the next drive by a
\* failure, an agent is watched for it, whose idleness requests a drive, or the
\* timer fires in time for it, whatever edits, manual runs and failures came before
\* (runtime.ts drive, deliverDue, watchExecution, requestDrive).  When the clock may
\* be set back, a manual run can shorten the floor behind the back of the timer: it
\* fires, but it is late.
ObligationHeld ==
  loop = "off" /\ op = Rest /\ ~stopping =>
    \A t \in Task : Active(t) =>
      \/ t \in failed
      \/ \E w \in watches : t \in w.tasks
      \/ /\ timer # None
         /\ timer <= Later(rows[t].at, NextAdmission(t)) \/ "rollback" \in Faults

\* No slot is held for ever: each belongs to the operation or has a watch
\* (runtime.ts send, settle, watchExecution, recoverOutstandingExecution).
SlotsAreWatched ==
  executing \subseteq (UNION {w.tasks : w \in watches})
                      \cup (IF op.pc \in {"requeue", "flush", "commit"} THEN op.held ELSE {})

\* runtime.ts:175 says that a slot is held while "a delivery to the task's
\* reused target Session has not yet reached whole-agent idle".
SlotCoversDelivery == \A w \in watches : ~w.done => w.tasks \subseteq executing

\* Reminders of one task do not pile up in an inbox: only one acknowledged
\* reminder waits there, even after restarts, cancelled turns and changes of
\* target, unless a later delivery passed the earlier one by: it could not be
\* looked up, or waited while the target was "new", which holds no slot (runtime.ts
\* recoverOutstandingExecution).
NoPileUp ==
  \A t \in Task, s \in Session :
    Cardinality({m \in Waiting(s) : t \in acked[m] /\ m \notin unseen \cup consumed}) <= 1

\* A receipt is true: the reminder it names waits in its session, or was taken
\* by a turn, or was discarded with its agent, and no crash undoes that.  A
\* requeue that is not flushed yet is excepted: a crash that keeps its removal
\* and not its followup loses the reminder (runtime.ts send, commit).
ReceiptIsDurable ==
  \A t \in Task : LET last == rows[t].last IN
    last # None => last.message \in Waiting(last.session) \cup consumed \cup requeued

\* Manual and timed deliveries of one task keep the floor, though the floor is
\* looked at before sessions are restored and messages are flushed (runtime.ts
\* nextAdmissionAt).  A clock set back is excepted.
FloorHolds ==
  [][\A t \in Task : LET last == rows[t].last IN
       last # None /\ rows'[t].last # last /\ "rollback" \notin Faults =>
         NextAdmission(t) <= rows'[t].last.delivered]_vars

\* A failed delivery of a "new" target uses the session it reserved again: a
\* reserved session is never replaced before a delivery to it is acknowledged
\* or an edit drops it (runtime.ts resolveTarget).
ReservationIsReused ==
  \A s \in Session : fate[s] = "reserved" => \E t \in Task : rows[t].reserved = s

\* An edit is not undone by a delivery that began before it: a task that is
\* deleted stays deleted, and one that is paused or ended is not armed except
\* by an edit (index.ts serialize; runtime.ts commit writes whole rows).
EditsStand ==
  [][\A t \in Task :
       /\ rows[t].status = "deleted" => rows'[t].status = "deleted"
       /\ rows[t].status \in {"paused", "ended"} /\ rows'[t].status = "active" => edits' > edits]_vars

\* An archive that stops the activity of a session leaves no task armed for
\* it, and no queued edit or delivery arms one later (index.ts
\* stopSessionTasks, validateTarget; workspace/index.ts archiveSession writes
\* the archive set before it asks providers to stop).
StoppedStaysUnarmed ==
  \A s \in Session, t \in Task :
    archive[s] = "stopped" => ~(Active(t) /\ rows[t].kind # "new" /\ rows[t].session = s)

\* A task that may be delivered is delivered, unless a failure leaves it to a
\* later drive, or the service stops (runtime.ts drive, watchExecution).
OwedIsServed ==
  \A t \in Task :
    Active(t) /\ rows[t].at <= now /\ NextAdmission(t) <= now
      ~> \/ ~Active(t) \/ rows[t].at > now \/ NextAdmission(t) > now
         \/ t \in failed \/ stopping \/ sent = MaxMessages

\* A slot is released in the end, though the delivery it belongs to may fail at
\* any point and its agent may be idle before anyone waits for it (runtime.ts
\* settle, watchExecution).
SlotsAreReleased == \A t \in Task : t \in executing ~> t \notin executing

=============================================================================
