------------------------ MODULE ScheduleRuntimeProofs ------------------------
(***************************************************************************)
(* Theorems about ScheduleRuntime, for any tasks, sessions, kinds of       *)
(* targets, faults, edits and bounds.                                      *)
(***************************************************************************)
EXTENDS ScheduleRuntime, FiniteSetTheorems, WellFoundedInduction, TLAPS

-----------------------------------------------------------------------------
(* Instants.                                                                 *)

\* The timer is set to an instant at which it has something to serve.
LEMMA EarliestIs ==
  ASSUME NEW S \in SUBSET Nat, S # {}
  PROVE  Earliest(S) \in S /\ \A b \in S : Earliest(S) <= b
<1>. DEFINE R == OpToRel(<, Nat)
<1>1. IsWellFoundedOn(R, Nat)
  BY NatLessThanWellFounded, Zenon
<1>2. \A a, b \in S : a <= b \/ <<b, a>> \in R
  BY SMT DEF OpToRel
<1>. HIDE DEF R
<1>3. PICK a \in S : \A b \in S : ~(<<b, a>> \in R)
  BY <1>1, WFMin, Zenon
<1>4. \A b \in S : a <= b
  BY <1>2, <1>3, Zenon
<1>. QED
  BY <1>4 DEF Earliest

\* The latest occurrence that has come is not before the task's own instant, and
\* not after the reading of the clock.
LEMMA OccurrenceIs ==
  ASSUME NEW a \in Nat, NEW b \in Nat, a <= b
  PROVE  /\ a + Every * ((b - a) \div Every) \in Nat
         /\ a + Every * ((b - a) \div Every) <= b
<1>1. Every \in Nat \ {0} /\ b - a \in Nat
  BY TimeAssumption
<1>. DEFINE q == (b - a) \div Every
<1>2. q \in Nat /\ Every * q <= b - a
  BY <1>1
<1>3. Every * q \in Nat
  BY <1>1, <1>2
<1>. QED
  BY <1>1, <1>2, <1>3

-----------------------------------------------------------------------------
(* The invariant.                                                            *)

OpType == [pc : {"none", "pick", "check", "restore", "requeue", "reserve", "open",
                 "create", "send", "flush", "commit"},
           manual : BOOLEAN, due : SUBSET Task, group : SUBSET Task,
           candidates : SUBSET Task, unchecked : SUBSET Task,
           subject : Task \cup {None}, session : Session \cup {None},
           message : Message \cup {0}, sentAt : Instant, ackAt : Instant,
           left : SUBSET Task, held : SUBSET Task, idled : BOOLEAN]

\* Where the operation looks at tasks, at one session, and at one message.
Looking  == {"check", "restore", "requeue"}
Facing   == {"restore", "requeue", "open", "create", "send", "flush", "commit"}
Sending  == {"flush", "commit"}
Resolved == {"open", "create", "send", "flush", "commit"}

\* The tasks the operation may still deliver, alone and with those that are due.
Batch == IF op.pc = "commit" THEN op.left ELSE op.group
Ahead == op.due \cup Batch

\* An agent that has been loaded has a session.
StoreInv ==
  /\ inbox \in [Session -> (SUBSET Message) \cup {None}]
  /\ tails \in [Session -> SUBSET ((SUBSET Message) \cup {None})]
  /\ \A s \in Session : agent[s] # "absent" => Exists(s)

\* A "new" target names no session; only such a target reserves one.
RowInv ==
  \A t \in Task :
    /\ Present(t) => (rows[t].kind = "new" <=> rows[t].session = None)
    /\ rows[t].reserved # None => Present(t) /\ rows[t].kind = "new"

\* What each place of the operation is about.
FlowInv ==
  /\ op.due \cap op.group = {}
  /\ op.pc = "pick" => op.candidates = {}
  /\ op.pc \in Looking => op.unchecked \cup op.candidates \subseteq op.group
  /\ op.pc \in {"restore", "requeue"} =>
       /\ op.subject \in op.group /\ rows[op.subject].last # None
       /\ op.session = rows[op.subject].last.session
  /\ op.pc \in {"reserve", "open", "create"} => op.subject \in op.group
  /\ op.pc \in Facing => op.session \in Session
  /\ op.pc = "create" => ~Exists(op.session)
  /\ op.pc \in Sending => /\ op.left \subseteq op.group
                          /\ op.message \in Message /\ op.message <= sent

\* The table has not changed under the operation: its tasks are there, and active
\* unless a user runs one, only tasks of one session share a message, and a
\* reservation is that of the session which is being resolved.
TaskInv ==
  /\ \A t \in Ahead : Present(t) /\ (op.manual \/ Active(t))
  /\ \A t, u \in Batch : t # u => rows[u].kind = "session"
  /\ op.pc = "reserve" => /\ rows[op.subject].kind = "new"
                          /\ rows[op.subject].reserved = None
  /\ op.pc \in Resolved => \A t \in Batch : rows[t].reserved \in {None, op.session}
  /\ op.pc \in Sending => /\ op.sentAt <= MaxTime
                          /\ op.manual \/ \A t \in op.left : rows[t].at <= op.sentAt

\* A crash can not take m out of the log of s, nor s away, before a turn or a
\* discarded queue has taken m, unless m is being requeued.
Kept(m, s) == \A box \in tails[s] : box # None /\ m \in box \cup consumed \cup requeued

\* Receipts name messages that have been sent, each to one session, and that are
\* kept; so is the message that is being committed.
ReceiptInv ==
  /\ \A t \in Task : rows[t].last # None =>
       rows[t].last.message <= sent /\ Kept(rows[t].last.message, rows[t].last.session)
  /\ \A t, u \in Task : /\ rows[t].last # None /\ rows[u].last # None
                        /\ rows[t].last.message = rows[u].last.message
                        => rows[t].last.session = rows[u].last.session
  /\ op.pc = "requeue" => rows[op.subject].last.message \in Waiting(op.session) \cup consumed
  /\ op.pc = "flush" => op.message \in Waiting(op.session) \cup consumed
  /\ op.pc = "commit" => Kept(op.message, op.session)
  /\ op.pc \in Sending => \A t \in Task :
       rows[t].last # None /\ rows[t].last.message = op.message
         => rows[t].last.session = op.session

-----------------------------------------------------------------------------
(* Types.                                                                    *)

LEMMA Instants == /\ 0 \in Instant /\ 1 \in Instant /\ Instant \subseteq Nat
                  /\ 0 .. MaxTime \subseteq Instant
                  /\ 1 .. MaxTime + Every \subseteq Instant /\ 1 .. MaxTime \subseteq Instant
BY TimeAssumption DEF Instant

LEMMA RestIs ==
  /\ Rest \in OpType /\ Rest.pc = "none" /\ Rest.manual = FALSE
  /\ Rest.due = {} /\ Rest.group = {} /\ Rest.left = {} /\ Rest.held = {}
  /\ Rest.candidates = {}
BY Instants DEF Rest, OpType

\* What the operation goes on with is at rest, or picks what is due.
LEMMA ProceedIs ==
  ASSUME op \in OpType
  PROVE  /\ Proceed \in OpType /\ Proceed.pc \in {"none", "pick"}
         /\ Proceed.manual = FALSE /\ Proceed.group = {} /\ Proceed.left = {}
         /\ Proceed.candidates = {}
         /\ Proceed.due \subseteq op.due /\ (op.manual => Proceed.due = {})
         /\ (~op.manual => Proceed.due = op.due)
BY RestIs DEF Proceed, Rest, OpType

LEMMA TypeInit == Init => TypeOK
<1>. SUFFICES ASSUME Init PROVE TypeOK
  OBVIOUS
<1>1. InitialRows \subseteq Row
  BY Instants, ConfigAssumption DEF InitialRows, NewRow, Row
<1>2. rows \in [Task -> Row]
  BY <1>1 DEF Init
<1>3. op \in OpType
  BY RestIs DEF Init
<1>4. \A s \in Session : /\ inbox[s] \in (SUBSET Message) \cup {None}
                         /\ inbox[s] \in tails[s] /\ tails[s] \subseteq (SUBSET Message) \cup {None}
  BY ConfigAssumption DEF Init
<1>5. /\ faults \in 0 .. MaxFaults /\ edits \in 0 .. MaxEdits /\ sent \in 0 .. MaxMessages
      /\ now \in 0 .. MaxTime
  BY TimeAssumption, BoundAssumption DEF Init
<1>. QED
  BY <1>2, <1>3, <1>4, <1>5 DEF Init, TypeOK, OpType

\* The types of everything but the operation.
Types ==
  /\ rows \in [Task -> Row]
  /\ archive \in [Session -> {"open", "asked", "archived", "stopping", "stopped"}]
  /\ loop \in {"off", "queued", "driving"} /\ requested \in BOOLEAN
  /\ timer \in Nat \cup {None} /\ failed \subseteq Task /\ executing \subseteq Task
  /\ watches \subseteq [tasks : SUBSET Task, session : Session, done : BOOLEAN]
  /\ stopping \in BOOLEAN /\ now \in 0 .. MaxTime
  /\ agent \in [Session -> {"absent", "idle", "busy"}]
  /\ \A s \in Session : /\ inbox[s] \in (SUBSET Message) \cup {None}
                        /\ inbox[s] \in tails[s]
                        /\ tails[s] \subseteq (SUBSET Message) \cup {None}
  /\ faults \in 0 .. MaxFaults /\ edits \in 0 .. MaxEdits /\ sent \in 0 .. MaxMessages
  /\ acked \in [Message -> SUBSET Task]
  /\ consumed \subseteq Message /\ unseen \subseteq Message /\ requeued \subseteq Message
  /\ fate \in [Session -> {"none", "reserved", "delivered", "forsaken"}]

LEMMA TypeSplit == /\ TypeOK <=> Types /\ op \in OpType
                   /\ TypeOK' <=> Types' /\ op' \in OpType
BY DEF TypeOK, Types, OpType, Row, Receipt, Message, Instant

\* Faults and edits stay within their bounds.
LEMMA Bounded ==
  ASSUME TypeOK
  PROVE  /\ \A k : Fault(k) => faults' \in 0 .. MaxFaults
         /\ \A k : Edit(k) => edits' \in 0 .. MaxEdits /\ edits' > edits
BY BoundAssumption DEF Fault, Edit, TypeOK

\* So does the loop of drives.
LEMMA DriveTypes ==
  ASSUME TypeOK
  PROVE  /\ RequestDrive => /\ loop' \in {"off", "queued", "driving"} /\ requested' \in BOOLEAN
                            /\ timer' \in Nat \cup {None} /\ failed' \subseteq Task
         /\ \A T \in SUBSET Task : Abandon(T) =>
              /\ loop' \in {"off", "queued", "driving"} /\ requested' \in BOOLEAN
              /\ timer' \in Nat \cup {None} /\ failed' \subseteq Task
              /\ op' = Proceed /\ op' \in OpType
BY ProceedIs DEF RequestDrive, Abandon, TypeOK, OpType

\* New watches are watches.
LEMMA WatchTypes ==
  ASSUME TypeOK, NEW T \in SUBSET Task, NEW s \in Session, NEW d \in BOOLEAN, Watch(T, s, d)
  PROVE  /\ watches' \subseteq [tasks : SUBSET Task, session : Session, done : BOOLEAN]
         /\ UNION {w.tasks : w \in watches'} = (UNION {w.tasks : w \in watches}) \cup T
<1>1. watches' = watches \cup {[tasks |-> U, session |-> s, done |-> d] : U \in {T} \ {{}}}
  BY DEF Watch
<1>2. CASE T = {}
  <2>1. watches' = watches
    BY <1>1, <1>2
  <2>. QED
    BY <1>2, <2>1 DEF TypeOK
<1>3. CASE T # {}
  <2>1. {T} \ {{}} = {T}
    BY <1>3
  <2>2. watches' = watches \cup {[tasks |-> T, session |-> s, done |-> d]}
    BY <1>1, <2>1
  <2>. DEFINE new == [tasks |-> T, session |-> s, done |-> d]
  <2>3. UNION {w.tasks : w \in watches'} = (UNION {w.tasks : w \in watches}) \cup T
    <3>1. new.tasks = T /\ watches' = watches \cup {new}
      BY <2>2
    <3>. HIDE DEF new
    <3>2. {w.tasks : w \in watches'} = {w.tasks : w \in watches} \cup {T}
      BY <3>1
    <3>. QED
      BY <3>2
  <2>4. watches' \subseteq [tasks : SUBSET Task, session : Session, done : BOOLEAN]
    BY <2>2 DEF TypeOK
  <2>. QED
    BY <2>3, <2>4
<1>. QED
  BY <1>2, <1>3

\* When t may be delivered again is an instant.
LEMMA AdmissionType ==
  ASSUME TypeOK, NEW t \in Task
  PROVE  NextAdmission(t) \in Nat /\ rows[t].at \in Nat /\ rows[t] \in Row
<1>1. rows[t] \in Row /\ rows[t].at \in Nat
  BY Instants DEF TypeOK, Row
<1>2. CASE rows[t].last = None
  BY <1>1, <1>2 DEF NextAdmission
<1>3. CASE rows[t].last # None
  <2>1. rows[t].last \in Receipt
    BY <1>1, <1>3 DEF Row
  <2>2. rows[t].last.occurrence \in Nat /\ rows[t].last.delivered \in Nat
    BY <2>1, Instants DEF Receipt
  <2>. QED
    BY <1>1, <1>3, <2>2, TimeAssumption DEF NextAdmission
<1>. QED
  BY <1>2, <1>3

\* A drive starts with the active tasks whose instant has come.
LEMMA BeginOp ==
  ASSUME TypeOK, BeginDrive
  PROVE  /\ op' \in OpType /\ op'.pc = "pick" /\ op'.group = {} /\ op'.manual = FALSE
         /\ op'.due = {t \in Task \ executing : Active(t) /\ rows[t].at <= now}
         /\ op'.left = {} /\ op'.held = {} /\ op'.candidates = {} /\ op = Rest
<1>. DEFINE D == {t \in Task \ executing : Active(t) /\ rows[t].at <= now}
<1>1. op' = [Rest EXCEPT !.pc = "pick", !.due = D] /\ op = Rest
  BY DEF BeginDrive
<1>2. D \in SUBSET Task
  OBVIOUS
<1>. HIDE DEF D
<1>3. /\ op' \in OpType /\ op'.pc = "pick" /\ op'.group = {} /\ op'.manual = FALSE
      /\ op'.due = D /\ op'.left = {} /\ op'.held = {} /\ op'.candidates = {}
  BY <1>1, <1>2, RestIs DEF OpType
<1>. QED
  BY <1>1, <1>3 DEF D

\* What one pass of a drive is about: one task, or the tasks of one session.
LEMMA PickOp ==
  ASSUME TypeOK, NEW t \in Task, Pick(t)
  PROVE  /\ op' \in OpType /\ op'.pc = "check" /\ op'.manual = op.manual
         /\ op'.group \subseteq op.due /\ op'.due = op.due \ op'.group
         /\ op'.unchecked = op'.group /\ op'.candidates = op.candidates
         /\ \A u, v \in op'.group : u # v => rows[u].kind = "session"
         /\ op.pc = "pick" /\ t \in op.due
<1>. DEFINE g == {u \in op.due : u = t \/ BatchSession(t) \in {BatchSession(u)} \ {None}}
<1>1. op' = [op EXCEPT !.pc = "check", !.due = @ \ g, !.group = g, !.unchecked = g]
  BY DEF Pick
<1>2. op \in OpType /\ g \subseteq op.due
  BY DEF TypeOK, OpType
<1>3. \A u, v \in g : u # v => rows[u].kind = "session"
  BY DEF BatchSession
<1>. HIDE DEF g
<1>4. op.pc = "pick" /\ t \in op.due
  BY DEF Pick
<1>5. g \in SUBSET Task
  BY <1>2 DEF OpType
<1>. QED
  BY <1>1, <1>2, <1>3, <1>4, <1>5 DEF OpType

\* A manual run is about one task.
LEMMA RunOp ==
  ASSUME TypeOK, NEW t \in Task, RunNow(t)
  PROVE  /\ op' \in OpType /\ op'.pc = "check" /\ op'.manual = TRUE
         /\ op'.group = {t} /\ op'.due = {} /\ op'.unchecked = {t}
         /\ op'.candidates = {} /\ op = Rest /\ Present(t)
BY RestIs DEF RunNow, Rest, OpType

\* The end of a drive, and a new obligation for the timer.
LEMMA ObligationTypes ==
  ASSUME TypeOK
  PROVE  Obligations \subseteq Nat /\ (Obligations # {} => Earliest(Obligations) \in Nat)
<1>1. Obligations \subseteq Nat
  BY AdmissionType DEF Obligations, Later
<1>. QED
  BY <1>1, EarliestIs

\* The drive and its timer.
LEMMA DriveStepTypes ==
  ASSUME TypeOK,
         \/ BeginDrive \/ TimerFires \/ EndDrive
         \/ \E t \in Task : Pick(t) \/ RunNow(t)
         \/ \E w \in watches : Release(w)
  PROVE  TypeOK'
<1>. USE TypeSplit
<1>1. CASE BeginDrive
  <2>1. op' \in OpType
    BY <1>1, BeginOp
  <2>. QED
    BY <1>1, <2>1 DEF BeginDrive, slotVars, logVars, world, history, Types
<1>2. CASE TimerFires
  BY <1>2, DriveTypes DEF TimerFires, slotVars, logVars, world, history, Types
<1>3. CASE EndDrive
  <2>1. op' \in OpType
    BY <1>3, RestIs DEF EndDrive
  <2>2. timer' \in Nat \cup {None}
    BY <1>3, ObligationTypes DEF EndDrive
  <2>. QED
    BY <1>3, <2>1, <2>2 DEF EndDrive, slotVars, logVars, world, history, Types
<1>4. ASSUME NEW t \in Task, Pick(t)
      PROVE  TypeOK'
  <2>1. op' \in OpType
    BY <1>4, PickOp
  <2>. QED
    BY <1>4, <2>1 DEF Pick, driveVars, slotVars, logVars, world, history, Types
<1>5. ASSUME NEW t \in Task, RunNow(t)
      PROVE  TypeOK'
  <2>1. op' \in OpType /\ edits' \in 0 .. MaxEdits
    BY <1>5, RunOp, Bounded DEF RunNow
  <2>. QED
    BY <1>5, <2>1 DEF RunNow, driveVars, slotVars, logVars, history, Types
<1>6. ASSUME NEW w \in watches, Release(w)
      PROVE  TypeOK'
  BY <1>6, DriveTypes DEF Release, logVars, world, history, Types
<1>. QED
  BY <1>1, <1>2, <1>3, <1>4, <1>5, <1>6

\* A dropped reservation is one of the fates.
LEMMA ForsakenIs ==
  ASSUME NEW T \in SUBSET Task, TypeOK, Forsaken(T)
  PROVE  /\ fate' \in [Session -> {"none", "reserved", "delivered", "forsaken"}]
         /\ \A s \in Session : fate'[s] = "reserved" =>
              fate[s] = "reserved" /\ \A t \in T : rows[t].reserved # s
<1>1. \A s \in Session : fate[s] \in {"none", "reserved", "delivered", "forsaken"}
  BY DEF TypeOK
<1>2. fate' = [s \in Session |-> IF \E t \in T : rows[t].reserved = s
                                THEN "forsaken" ELSE fate[s]]
  BY DEF Forsaken
<1>3. \A s \in Session : \/ fate'[s] = "forsaken"
                         \/ fate'[s] = fate[s] /\ \A t \in T : rows[t].reserved # s
  BY <1>2
<1>4. \A s \in Session : fate'[s] \in {"none", "reserved", "delivered", "forsaken"}
  BY <1>1, <1>3
<1>5. fate' = [s \in Session |-> fate'[s]]
  BY <1>2
<1>. QED
  BY <1>3, <1>4, <1>5

\* Tasks that are removed keep everything but their status and reservation.
LEMMA RemovedIs ==
  ASSUME NEW T \in SUBSET Task, TypeOK, Removed(T)
  PROVE  /\ rows' \in [Task -> Row]
         /\ \A t \in T : /\ rows'[t].status = "deleted" /\ rows'[t].reserved = None
                         /\ rows'[t].last = rows[t].last /\ rows'[t].kind = rows[t].kind
         /\ \A t \in Task \ T : rows'[t] = rows[t]
         /\ Forsaken(T) /\ UNCHANGED <<sent, acked, consumed, unseen, requeued>>
<1>1. rows' = [t \in Task |-> IF t \in T THEN [rows[t] EXCEPT !.status = "deleted",
                                                             !.reserved = None]
                                        ELSE rows[t]]
  BY DEF Removed
<1>2. \A t \in Task : rows[t] \in Row
  BY DEF TypeOK
<1>. DEFINE gone(t) == [rows[t] EXCEPT !.status = "deleted", !.reserved = None]
<1>3. \A t \in Task : /\ gone(t) \in Row /\ gone(t).status = "deleted"
                      /\ gone(t).reserved = None /\ gone(t).last = rows[t].last
                      /\ gone(t).kind = rows[t].kind
  BY <1>2 DEF Row
<1>4. rows' = [t \in Task |-> IF t \in T THEN gone(t) ELSE rows[t]]
  BY <1>1
<1>. HIDE DEF gone
<1>5. rows' \in [Task -> Row]
  BY <1>2, <1>3, <1>4
<1>6. \A t \in T : rows'[t] = gone(t)
  BY <1>4
<1>. QED
  BY <1>3, <1>4, <1>5, <1>6 DEF Removed

\* Another target takes the reservation with it.
LEMMA RetargetIs ==
  ASSUME TypeOK, NEW t \in Task, NEW k \in Kinds, NEW s \in Session \cup {None},
         Retarget(t, k, s)
  PROVE  /\ rows' \in [Task -> Row]
         /\ rows'[t].kind = k /\ rows'[t].session = s /\ rows'[t].reserved = None
         /\ rows'[t].status = rows[t].status /\ rows'[t].last = rows[t].last
         /\ \A u \in Task \ {t} : rows'[u] = rows[u]
         /\ k \in {"session", "once", "new"} /\ (k = "new" <=> s = None)
         /\ s # None => ~Archived(s)
<1>. DEFINE r == [rows[t] EXCEPT !.kind = k, !.session = s, !.reserved = None]
<1>1. k \in {"session", "once", "new"} /\ (k = "new" <=> s = None) /\ (s # None => ~Archived(s))
  BY TaskAssumption DEF Retarget, ValidTarget
<1>2. rows \in [Task -> Row] /\ rows[t] \in Row
  BY DEF TypeOK
<1>3. /\ r \in Row /\ r.kind = k /\ r.session = s /\ r.reserved = None
      /\ r.status = rows[t].status /\ r.last = rows[t].last
  BY <1>1, <1>2 DEF Row
<1>4. rows' = [rows EXCEPT ![t] = r]
  BY <1>2 DEF Retarget, Row
<1>. HIDE DEF r
<1>5. rows' \in [Task -> Row] /\ rows'[t] = r /\ \A u \in Task \ {t} : rows'[u] = rows[u]
  BY <1>2, <1>3, <1>4
<1>. QED
  BY <1>1, <1>3, <1>5

\* Another occurrence drops the reservation, unless it is the same instant.
LEMMA RearmIs ==
  ASSUME TypeOK, NEW t \in Task, NEW at \in 1 .. MaxTime + Every, NEW resume \in BOOLEAN,
         Rearm(t, at, resume)
  PROVE  /\ rows' \in [Task -> Row]
         /\ rows'[t].kind = rows[t].kind /\ rows'[t].session = rows[t].session
         /\ rows'[t].last = rows[t].last /\ rows'[t].status \in {"active", rows[t].status}
         /\ rows'[t].reserved = IF at = rows[t].at THEN rows[t].reserved ELSE None
         /\ \A u \in Task \ {t} : rows'[u] = rows[u]
<1>. DEFINE status == IF resume \/ rows[t].status = "ended" THEN "active" ELSE rows[t].status
            reserved == IF at = rows[t].at THEN rows[t].reserved ELSE None
            r == [rows[t] EXCEPT !.at = at, !.status = status, !.reserved = reserved]
<1>1. rows \in [Task -> Row] /\ rows[t] \in Row
  BY DEF TypeOK
<1>2. status \in {"active", rows[t].status} /\ reserved \in {None, rows[t].reserved}
  OBVIOUS
<1>3. rows' = [rows EXCEPT ![t] = r]
  BY <1>1 DEF Rearm, Row
<1>. HIDE DEF status, reserved
<1>4. /\ r \in Row /\ r.reserved = reserved /\ r.status = status /\ r.kind = rows[t].kind
      /\ r.session = rows[t].session /\ r.last = rows[t].last
  BY <1>1, <1>2, Instants DEF Row
<1>. HIDE DEF r
<1>5. rows' \in [Task -> Row] /\ rows'[t] = r /\ \A u \in Task \ {t} : rows'[u] = rows[u]
  BY <1>1, <1>3, <1>4
<1>. QED
  BY <1>2, <1>4, <1>5 DEF reserved

\* Management, whose edits are counted.
LEMMA ManagementTypes ==
  ASSUME TypeOK, StoreInv, Management
  PROVE  TypeOK'
<1>. USE TypeSplit
<1>1. ASSUME NEW t \in Task, RunNow(t) PROVE TypeOK'
  BY <1>1, DriveStepTypes
<1>2. ASSUME NEW T \in SUBSET Task, Removed(T)
      PROVE  /\ rows' \in [Task -> Row]
             /\ fate' \in [Session -> {"none", "reserved", "delivered", "forsaken"}]
  BY <1>2, RemovedIs, ForsakenIs
<1>3. ASSUME NEW t \in Task, Pause(t) PROVE TypeOK'
  <2>1. rows' \in [Task -> Row]
    BY <1>3 DEF Pause, Types, Row
  <2>. QED
    BY <1>3, <2>1, Bounded, DriveTypes DEF Pause, slotVars, logVars, history, Types
<1>4. ASSUME NEW t \in Task, Delete(t) PROVE TypeOK'
  <2>1. Removed({t}) /\ edits' \in 0 .. MaxEdits
    BY <1>4, Bounded DEF Delete
  <2>2. UNCHANGED <<sent, acked, consumed, unseen, requeued>>
    BY <2>1 DEF Removed
  <2>. QED
    BY <1>2, <1>4, <2>1, <2>2, DriveTypes DEF Delete, slotVars, logVars, Types
<1>5. ASSUME NEW t \in Task, NEW k \in Kinds, NEW s \in Session \cup {None}, Retarget(t, k, s)
      PROVE  TypeOK'
  <2>1. rows' \in [Task -> Row]
    BY <1>5, RetargetIs
  <2>2. fate' \in [Session -> {"none", "reserved", "delivered", "forsaken"}]
    BY <1>5, ForsakenIs DEF Retarget
  <2>. QED
    BY <1>5, <2>1, <2>2, Bounded, DriveTypes DEF Retarget, slotVars, logVars, Types
<1>6. ASSUME NEW t \in Task, NEW k \in Kinds, NEW s \in Session \cup {None},
             NEW at \in 1 .. MaxTime, CreateTask(t, k, s, at)
      PROVE  TypeOK'
  <2>1. rows' \in [Task -> Row]
    BY <1>6, Instants DEF CreateTask, ValidTarget, NewRow, Types, Row
  <2>. QED
    BY <1>6, <2>1, Bounded, DriveTypes DEF CreateTask, slotVars, logVars, history, Types
<1>7. ASSUME NEW t \in Task, NEW at \in 1 .. MaxTime + Every, NEW resume \in BOOLEAN,
             Rearm(t, at, resume)
      PROVE  TypeOK'
  <2>1. rows' \in [Task -> Row]
    BY <1>7, RearmIs
  <2>2. fate' \in [Session -> {"none", "reserved", "delivered", "forsaken"}]
    BY <1>7, ForsakenIs DEF Rearm
  <2>. QED
    BY <1>7, <2>1, <2>2, Bounded, DriveTypes DEF Rearm, slotVars, logVars, Types
<1>8. CASE DeleteInactive
  <2>. DEFINE T == {t \in Task : rows[t].status = "ended"}
  <2>1. Removed(T) /\ edits' \in 0 .. MaxEdits
    BY <1>8, Bounded DEF DeleteInactive
  <2>2. UNCHANGED <<sent, acked, consumed, unseen, requeued>>
    BY <2>1 DEF Removed
  <2>3. rows' \in [Task -> Row]
        /\ fate' \in [Session -> {"none", "reserved", "delivered", "forsaken"}]
    BY <1>2, <2>1
  <2>. QED
    BY <1>8, <2>1, <2>2, <2>3 DEF DeleteInactive, driveVars, slotVars, logVars, Types
<1>9. ASSUME NEW s \in Session, StopSessionTasks(s) PROVE TypeOK'
  <2>. DEFINE T == ActiveSessionTasks(s)
  <2>1. T \in SUBSET Task
    BY DEF ActiveSessionTasks
  <2>2. /\ UNCHANGED <<op, slotVars, logVars, now, stopping, edits>>
        /\ \/ /\ archive' = [archive EXCEPT ![s] = "stopped"] /\ Removed(T)
              /\ UNCHANGED driveVars \/ RequestDrive
              /\ UNCHANGED faults
           \/ /\ Fault("commit") /\ archive' = [archive EXCEPT ![s] = "archived"]
              /\ UNCHANGED <<rows, driveVars, history>>
    BY <1>9 DEF StopSessionTasks
  <2>3. CASE /\ archive' = [archive EXCEPT ![s] = "stopped"] /\ Removed(T)
             /\ UNCHANGED driveVars \/ RequestDrive
             /\ UNCHANGED faults
    <3>1. UNCHANGED <<sent, acked, consumed, unseen, requeued>>
      BY <2>3 DEF Removed
    <3>2. rows' \in [Task -> Row]
          /\ fate' \in [Session -> {"none", "reserved", "delivered", "forsaken"}]
      BY <1>2, <2>1, <2>3
    <3>. QED
      BY <2>2, <2>3, <3>1, <3>2, DriveTypes DEF driveVars, slotVars, logVars, Types
  <2>4. CASE /\ Fault("commit") /\ archive' = [archive EXCEPT ![s] = "archived"]
             /\ UNCHANGED <<rows, driveVars, history>>
    BY <2>2, <2>4, Bounded DEF driveVars, slotVars, logVars, history, Types
  <2>. QED
    BY <2>2, <2>3, <2>4
<1>10. ASSUME NEW s \in Session, AskArchive(s) \/ Archive(s) \/ Unarchive(s)
       PROVE  TypeOK'
  BY <1>10, Bounded
  DEF AskArchive, Archive, Unarchive, driveVars, slotVars, logVars, history, Types
<1>11. ASSUME NEW s \in Session, ArchiveAndStop(s) PROVE TypeOK'
  <2>1. /\ archive' \in [Session -> {"open", "asked", "archived", "stopping", "stopped"}]
        /\ edits' \in 0 .. MaxEdits /\ inbox[s] \subseteq Message
    BY <1>11, Bounded DEF ArchiveAndStop, Exists, Types
  <2>2. CASE Splice(s, {}) /\ consumed' = consumed \cup inbox[s]
    BY <1>11, <2>1, <2>2 DEF ArchiveAndStop, Splice, driveVars, slotVars, Types, StoreInv
  <2>3. CASE UNCHANGED <<inbox, tails, consumed>>
    BY <1>11, <2>1, <2>3 DEF ArchiveAndStop, driveVars, slotVars, Types
  <2>. QED
    BY <1>11, <2>2, <2>3 DEF ArchiveAndStop
<1>. QED
  BY <1>1, <1>3, <1>4, <1>5, <1>6, <1>7, <1>8, <1>9, <1>10, <1>11 DEF Management

-----------------------------------------------------------------------------
(* What the steps of an operation do to it.                                  *)

\* A task that has been looked at is refused or becomes a candidate.
LEMMA LookedIs ==
  ASSUME op \in OpType, NEW t \in op.group, op.unchecked \cup op.candidates \subseteq op.group,
         NEW next, next = Skip(t) \/ next = Consider(t)
  PROVE  /\ next \in OpType /\ next.pc = "check" /\ next.manual = op.manual
         /\ next.due = op.due /\ next.group = op.group
         /\ next.unchecked \cup next.candidates \subseteq op.group
<1>1. t \in Task
  BY DEF OpType
<1>2. CASE next = Skip(t)
  <2>1. next = [op EXCEPT !.pc = "check", !.unchecked = op.unchecked \ {t}]
    BY <1>2 DEF Skip
  <2>2. /\ next \in OpType /\ next.pc = "check" /\ next.manual = op.manual
        /\ next.due = op.due /\ next.group = op.group
        /\ next.unchecked = op.unchecked \ {t} /\ next.candidates = op.candidates
    BY <2>1 DEF OpType
  <2>. QED
    BY <2>2
<1>3. CASE next = Consider(t)
  <2>1. next = [op EXCEPT !.pc = "check", !.unchecked = op.unchecked \ {t},
                          !.candidates = op.candidates \cup {t}]
    BY <1>3 DEF Consider
  <2>2. /\ next \in OpType /\ next.pc = "check" /\ next.manual = op.manual
        /\ next.due = op.due /\ next.group = op.group
        /\ next.unchecked = op.unchecked \ {t} /\ next.candidates = op.candidates \cup {t}
    BY <1>1, <2>1 DEF OpType
  <2>. QED
    BY <2>2
<1>. QED
  BY <1>2, <1>3

LEMMA CheckOp ==
  ASSUME TypeOK, FlowInv, NEW t \in Task, Check(t)
  PROVE  /\ op' \in OpType /\ op'.manual = op.manual
         /\ op'.due = op.due /\ op'.group = op.group /\ op.pc = "check"
         /\ op'.unchecked \cup op'.candidates \subseteq op.group
         /\ \/ op'.pc = "check"
            \/ /\ op'.pc = "restore" /\ op'.subject = t /\ t \in op.unchecked
               /\ rows[t].last # None /\ op'.session = rows[t].last.session
               /\ op'.session \in Session
<1>. USE TypeSplit
<1>1. /\ op.pc = "check" /\ t \in op.unchecked /\ op \in OpType
      /\ op.unchecked \cup op.candidates \subseteq op.group
  BY DEF Check, FlowInv, Looking
<1>2. CASE op' = Skip(t) \/ op' = Consider(t)
  BY <1>1, <1>2, LookedIs
<1>3. CASE /\ LooksUp(t)
           /\ op' = [op EXCEPT !.pc = "restore", !.subject = t, !.session = rows[t].last.session]
  <2>1. rows[t].last # None /\ rows[t].last.session \in Session
    BY <1>3 DEF LooksUp, Types, Row, Receipt
  <2>. QED
    BY <1>1, <1>3, <2>1 DEF OpType
<1>. QED
  BY <1>2, <1>3 DEF Check

\* The last delivery of the task is found waiting, and sent again, or not.
LEMMA RestoredOp ==
  ASSUME TypeOK, FlowInv, Restored
  PROVE  /\ op' \in OpType /\ op'.manual = op.manual
         /\ op'.due = op.due /\ op'.group = op.group /\ op.pc = "restore"
         /\ \/ op'.pc = "check" /\ op'.unchecked \cup op'.candidates \subseteq op.group
            \/ /\ op'.pc = "requeue" /\ op'.subject = op.subject /\ op'.session = op.session
               /\ op'.unchecked = op.unchecked /\ op'.candidates = op.candidates
               /\ op'.held = Holders(rows[op.subject].last.message)
<1>. USE TypeSplit
<1>. DEFINE t == op.subject
            holders == Holders(rows[t].last.message)
<1>1. /\ op.pc = "restore" /\ t \in op.group /\ op.unchecked \cup op.candidates \subseteq op.group
      /\ op \in OpType
  BY DEF Restored, FlowInv, Looking
<1>2. holders \in SUBSET Task
  BY DEF Holders
<1>3. \/ op' = Skip(t) \/ op' = Consider(t)
      \/ op' = [op EXCEPT !.pc = "requeue", !.held = holders, !.idled = FALSE]
  BY DEF Restored
<1>. HIDE DEF holders
<1>4. CASE op' = Skip(t) \/ op' = Consider(t)
  BY <1>1, <1>4, LookedIs
<1>5. CASE op' = [op EXCEPT !.pc = "requeue", !.held = holders, !.idled = FALSE]
  <2>1. /\ op' \in OpType /\ op'.pc = "requeue" /\ op'.subject = op.subject
        /\ op'.session = op.session /\ op'.held = holders /\ op'.manual = op.manual
        /\ op'.due = op.due /\ op'.group = op.group
        /\ op'.unchecked = op.unchecked /\ op'.candidates = op.candidates
    BY <1>1, <1>2, <1>5 DEF OpType
  <2>. QED
    BY <1>1, <2>1 DEF holders
<1>. QED
  BY <1>3, <1>4, <1>5

LEMMA RequeuedOp ==
  ASSUME TypeOK, FlowInv, Requeued
  PROVE  /\ op.pc = "requeue"
         /\ \/ op' = Proceed
            \/ /\ op' \in OpType /\ op'.pc = "check" /\ op'.manual = op.manual
               /\ op'.due = op.due /\ op'.group = op.group
               /\ op'.unchecked \cup op'.candidates \subseteq op.group
<1>. USE TypeSplit
<1>1. /\ op.pc = "requeue" /\ op.subject \in op.group
      /\ op.unchecked \cup op.candidates \subseteq op.group /\ op \in OpType
  BY DEF Requeued, FlowInv, Looking
<1>2. op' = Proceed \/ op' = Skip(op.subject) \/ op' = Consider(op.subject)
  BY DEF Requeued, Abandon
<1>. QED
  BY <1>1, <1>2, LookedIs

\* The admitted candidates go on with their session, or without one.
LEMMA AdmitOp ==
  ASSUME TypeOK, FlowInv, Admit
  PROVE  /\ op.pc = "check"
         /\ \/ op' = Proceed
            \/ /\ op' \in OpType /\ op'.manual = op.manual /\ op'.due \subseteq op.due
               /\ op'.group \subseteq op.group /\ op'.subject \in op'.group
               /\ \/ /\ op'.pc = "open" /\ op'.session = Destination(op'.subject)
                     /\ op'.session \in Session
                  \/ op'.pc = "reserve" /\ Destination(op'.subject) = None
<1>. USE TypeSplit
<1>. DEFINE admitted == {t \in op.candidates : op.manual \/ rows[t].at <= now}
            first == CHOOSE t \in admitted : TRUE
            s == Destination(first)
<1>1. op.pc = "check" /\ op \in OpType /\ op.candidates \subseteq op.group
  BY DEF Admit, FlowInv, Looking
<1>2. \/ op' = Proceed
      \/ /\ admitted # {} /\ s # None
         /\ op' = [Proceed EXCEPT !.pc = "open", !.manual = op.manual, !.group = admitted,
                                  !.subject = first, !.session = s]
      \/ /\ admitted # {} /\ s = None
         /\ op' = [Proceed EXCEPT !.pc = "reserve", !.manual = op.manual, !.group = admitted,
                                  !.subject = first]
  BY DEF Admit, Abandon
<1>3. admitted \subseteq op.group /\ admitted \in SUBSET Task /\ (admitted # {} => first \in admitted)
  BY <1>1 DEF OpType
<1>4. admitted # {} => s \in Session \cup {None}
  BY <1>3 DEF Destination, Types, Row
<1>. HIDE DEF admitted, s
<1>5. CASE /\ admitted # {} /\ s # None
           /\ op' = [Proceed EXCEPT !.pc = "open", !.manual = op.manual, !.group = admitted,
                                    !.subject = first, !.session = s]
  <2>. HIDE DEF first
  <2>1. /\ op' \in OpType /\ op'.pc = "open" /\ op'.manual = op.manual
        /\ op'.group = admitted /\ op'.subject = first /\ op'.session = s
        /\ op'.due = Proceed.due
    BY <1>1, <1>3, <1>4, <1>5, ProceedIs DEF OpType
  <2>. QED
    BY <1>1, <1>3, <1>4, <1>5, <2>1, ProceedIs DEF s
<1>6. CASE /\ admitted # {} /\ s = None
           /\ op' = [Proceed EXCEPT !.pc = "reserve", !.manual = op.manual, !.group = admitted,
                                    !.subject = first]
  <2>. HIDE DEF first
  <2>1. /\ op' \in OpType /\ op'.pc = "reserve" /\ op'.manual = op.manual
        /\ op'.group = admitted /\ op'.subject = first /\ op'.due = Proceed.due
    BY <1>1, <1>3, <1>6, ProceedIs DEF OpType
  <2>. QED
    BY <1>1, <1>3, <1>6, <2>1, ProceedIs DEF s
<1>. QED
  BY <1>1, <1>2, <1>5, <1>6

\* A new session is reserved before it exists.
LEMMA ReserveOp ==
  ASSUME TypeOK, FlowInv, Reserve
  PROVE  /\ op.pc = "reserve" /\ op.subject \in op.group
         /\ \/ op' = Proceed /\ UNCHANGED <<rows, fate>>
            \/ /\ op' \in OpType /\ op'.pc = "create" /\ op'.manual = op.manual
               /\ op'.due = op.due /\ op'.group = op.group /\ op'.subject = op.subject
               /\ op'.session \in Session /\ Unused(op'.session)
               /\ rows' = [rows EXCEPT ![op.subject].reserved = op'.session]
               /\ fate' = [fate EXCEPT ![op'.session] = "reserved"]
<1>. USE TypeSplit
<1>1. op.pc = "reserve" /\ op.subject \in op.group /\ op \in OpType
  BY DEF Reserve, FlowInv
<1>2. CASE op' = Proceed /\ UNCHANGED <<rows, fate>>
  BY <1>1, <1>2
<1>3. ASSUME NEW s \in Session, Unused(s),
             rows' = [rows EXCEPT ![op.subject].reserved = s],
             fate' = [fate EXCEPT ![s] = "reserved"],
             op' = [op EXCEPT !.pc = "create", !.session = s]
      PROVE  /\ op' \in OpType /\ op'.pc = "create" /\ op'.manual = op.manual
             /\ op'.due = op.due /\ op'.group = op.group /\ op'.subject = op.subject
             /\ op'.session = s
  BY <1>1, <1>3 DEF OpType
<1>. QED
  BY <1>1, <1>2, <1>3 DEF Reserve, Abandon

\* The session is opened or created, or neither.
LEMMA OpenOp ==
  ASSUME TypeOK, FlowInv, Open
  PROVE  /\ op.pc = "open"
         /\ \/ op' = Proceed
            \/ /\ op' \in OpType /\ op'.manual = op.manual /\ op'.due = op.due
               /\ op'.group = op.group /\ op'.subject = op.subject /\ op'.session = op.session
               /\ op'.pc = "send" \/ (op'.pc = "create" /\ ~Exists(op.session))
<1>1. op.pc = "open" /\ op \in OpType
  BY TypeSplit DEF Open
<1>2. \/ op' = Proceed \/ op' = [op EXCEPT !.pc = "send"]
      \/ op' = [op EXCEPT !.pc = "create"] /\ ~Exists(op.session)
  BY DEF Open, Abandon
<1>. QED
  BY <1>1, <1>2 DEF OpType

LEMMA CreateOp ==
  ASSUME TypeOK, FlowInv, Create
  PROVE  /\ op.pc = "create"
         /\ \/ op' = Proceed
            \/ /\ op' \in OpType /\ op'.manual = op.manual /\ op'.due = op.due
               /\ op'.group = op.group /\ op'.session = op.session /\ op'.pc = "send"
<1>1. op.pc = "create" /\ op \in OpType
  BY TypeSplit DEF Create
<1>2. op' = Proceed \/ op' = [op EXCEPT !.pc = "send"]
  BY DEF Create, Abandon
<1>. QED
  BY <1>1, <1>2 DEF OpType

\* One message for the members of the group that are still due.
LEMMA SendOp ==
  ASSUME TypeOK, FlowInv, Send
  PROVE  /\ op.pc = "send"
         /\ \/ op' = Proceed
            \/ /\ op' \in OpType /\ op'.pc = "flush" /\ op'.manual = op.manual
               /\ op'.due = op.due /\ op'.group \subseteq op.group /\ op'.left = op'.group
               /\ op'.session = op.session /\ op'.message = sent + 1 /\ sent' = sent + 1
               /\ sent + 1 \in Message /\ op'.sentAt = now
               /\ op'.manual \/ \A t \in op'.left : rows[t].at <= op'.sentAt
               /\ op'.held \subseteq Task /\ executing' = executing \cup op'.held
<1>. USE TypeSplit
<1>. DEFINE admitted == {t \in op.group : op.manual \/ rows[t].at <= now}
            holders == {t \in admitted : rows[t].kind # "new"}
            m == sent + 1
<1>1. op.pc = "send" /\ op \in OpType /\ now \in Instant /\ now \in 0 .. MaxTime
  BY Instants DEF Send, Types
<1>2. /\ admitted \subseteq op.group /\ admitted \in SUBSET Task /\ holders \in SUBSET Task
      /\ op.manual \/ \A t \in admitted : rows[t].at <= now
  BY <1>1 DEF OpType
<1>3. \/ op' = Proceed
      \/ /\ op' = [op EXCEPT !.pc = "flush", !.group = admitted, !.left = admitted,
                             !.held = holders, !.message = m, !.sentAt = now, !.idled = FALSE]
         /\ sent' = m /\ m \in Message /\ executing' = executing \cup holders
  BY DEF Send, Abandon
<1>. HIDE DEF admitted, holders, m
<1>4. CASE /\ op' = [op EXCEPT !.pc = "flush", !.group = admitted, !.left = admitted,
                               !.held = holders, !.message = m, !.sentAt = now, !.idled = FALSE]
           /\ sent' = m /\ m \in Message /\ executing' = executing \cup holders
  <2>1. /\ op' \in OpType /\ op'.pc = "flush" /\ op'.manual = op.manual /\ op'.due = op.due
        /\ op'.group = admitted /\ op'.left = admitted /\ op'.session = op.session
        /\ op'.message = m /\ op'.sentAt = now /\ op'.held = holders
    BY <1>1, <1>2, <1>4 DEF OpType
  <2>. QED
    BY <1>1, <1>2, <1>4, <2>1 DEF m
<1>. QED
  BY <1>1, <1>3, <1>4

LEMMA FlushOp ==
  ASSUME TypeOK, FlowInv, Flush
  PROVE  /\ op.pc = "flush"
         /\ \/ op' = Proceed
            \/ /\ op' \in OpType /\ op'.pc = "commit" /\ op'.manual = op.manual
               /\ op'.due = op.due /\ op'.group = op.group /\ op'.left = op.left
               /\ op'.session = op.session /\ op'.message = op.message
               /\ op'.sentAt = op.sentAt /\ op'.held = op.held
<1>1. op.pc = "flush" /\ op \in OpType /\ now \in Instant
  BY TypeSplit, Instants DEF Flush, Types
<1>2. op' = Proceed \/ op' = [op EXCEPT !.pc = "commit", !.ackAt = now]
  BY DEF Flush, Abandon
<1>. QED
  BY <1>1, <1>2 DEF OpType

\* Tasks are committed one by one.
LEMMA CommitOp ==
  ASSUME TypeOK, FlowInv, NEW t \in Task, Commit(t)
  PROVE  /\ op.pc = "commit" /\ t \in op.left
         /\ \/ op' = Proceed
            \/ /\ op' \in OpType /\ op'.pc = "commit" /\ op'.manual = op.manual
               /\ op'.due = op.due /\ op'.group = op.group /\ op'.left = op.left \ {t}
               /\ op'.session = op.session /\ op'.message = op.message
               /\ op'.sentAt = op.sentAt /\ op'.held = op.held
<1>1. op.pc = "commit" /\ op \in OpType /\ t \in op.left
  BY TypeSplit DEF Commit
<1>2. op' = Proceed \/ op' = [op EXCEPT !.left = op.left \ {t}]
  BY DEF Commit, Abandon
<1>. QED
  BY <1>1, <1>2 DEF OpType

\* A committed row names the message; only a drive moves the status on.
LEMMA CommitIs ==
  ASSUME TypeOK, FlowInv, TaskInv, NEW t \in Task, Commit(t)
  PROVE  /\ op.message \in Message /\ op.session \in Session
         /\ \/ UNCHANGED <<rows, acked, fate>> /\ op' = Proceed
            \/ /\ rows' \in [Task -> Row] /\ \A u \in Task \ {t} : rows'[u] = rows[u]
               /\ rows'[t].reserved = None /\ rows'[t].last \in Receipt
               /\ rows'[t].last.message = op.message /\ rows'[t].last.session = op.session
               /\ rows'[t].last.delivered = op.ackAt /\ rows'[t].session = rows[t].session
               /\ rows'[t].kind = IF rows[t].kind = "once" THEN "session" ELSE rows[t].kind
               /\ \/ rows'[t].status = rows[t].status
                  \/ ~op.manual /\ rows'[t].status \in {"active", "ended"}
               /\ acked' = [acked EXCEPT ![op.message] = @ \cup ({t} \cap op.held)]
               /\ fate' = [fate EXCEPT ![op.session] = IF @ = "none" THEN @ ELSE "delivered"]
<1>. USE TypeSplit
<1>1. /\ op.pc = "commit" /\ t \in op.left /\ op \in OpType /\ rows \in [Task -> Row]
      /\ op.message \in Message /\ op.session \in Session /\ rows[t] \in Row
      /\ op.sentAt \in Instant /\ op.ackAt \in Instant /\ op.sentAt <= MaxTime
  BY DEF Commit, FlowInv, TaskInv, Facing, Sending, Types, OpType
<1>2. CASE UNCHANGED <<rows, acked, fate>> /\ op' = Proceed
  BY <1>1, <1>2
<1>3. ASSUME NEW row \in IF op.manual THEN {Delivered(t, op.sentAt)} ELSE Advanced(t),
             rows' = [rows EXCEPT ![t] = row]
      PROVE  /\ rows' \in [Task -> Row] /\ \A u \in Task \ {t} : rows'[u] = rows[u]
             /\ rows'[t].reserved = None /\ rows'[t].last \in Receipt
             /\ rows'[t].last.message = op.message /\ rows'[t].last.session = op.session
             /\ rows'[t].last.delivered = op.ackAt /\ rows'[t].session = rows[t].session
             /\ rows'[t].kind = IF rows[t].kind = "once" THEN "session" ELSE rows[t].kind
             /\ \/ rows'[t].status = rows[t].status
                \/ ~op.manual /\ rows'[t].status \in {"active", "ended"}
  <2>1. ASSUME NEW o \in Instant, NEW status \in {"absent", "active", "paused", "ended", "deleted"},
               NEW at \in Instant,
               row = [Delivered(t, o) EXCEPT !.status = status, !.at = at]
        PROVE  /\ row \in Row /\ row.reserved = None /\ row.last \in Receipt
               /\ row.last.message = op.message /\ row.last.session = op.session
               /\ row.last.delivered = op.ackAt /\ row.session = rows[t].session /\ row.status = status
               /\ row.kind = IF rows[t].kind = "once" THEN "session" ELSE rows[t].kind
    <3>. DEFINE last == [message |-> op.message, session |-> op.session,
                         occurrence |-> o, delivered |-> op.ackAt]
                kind == IF rows[t].kind = "once" THEN "session" ELSE rows[t].kind
    <3>1. /\ last \in Receipt /\ last.message = op.message /\ last.session = op.session
          /\ last.delivered = op.ackAt
      BY <1>1 DEF Receipt
    <3>2. kind \in {"session", "once", "new"}
      BY <1>1 DEF Row
    <3>3. row = [[rows[t] EXCEPT !.kind = kind, !.last = last, !.reserved = None]
                   EXCEPT !.status = status, !.at = at]
      BY <2>1 DEF Delivered
    <3>. HIDE DEF last, kind
    <3>4. /\ row \in Row /\ row.reserved = None /\ row.last = last /\ row.kind = kind
          /\ row.session = rows[t].session /\ row.status = status
      BY <1>1, <3>1, <3>2, <3>3 DEF Row
    <3>. QED
      BY <3>1, <3>4 DEF kind
  <2>2. CASE op.manual
    <3>1. row = Delivered(t, op.sentAt)
      BY <1>3, <2>2
    <3>2. Delivered(t, op.sentAt)
          = [Delivered(t, op.sentAt) EXCEPT !.status = rows[t].status, !.at = rows[t].at]
      BY <1>1 DEF Delivered, Row
    <3>3. /\ rows[t].status \in {"absent", "active", "paused", "ended", "deleted"}
          /\ rows[t].at \in Instant
      BY <1>1 DEF Row
    <3>4. row = [Delivered(t, op.sentAt) EXCEPT !.status = rows[t].status, !.at = rows[t].at]
      BY <3>1, <3>2, Zenon
    <3>5. /\ row \in Row /\ row.reserved = None /\ row.last \in Receipt
          /\ row.last.message = op.message /\ row.last.session = op.session
          /\ row.last.delivered = op.ackAt /\ row.session = rows[t].session /\ row.status = rows[t].status
          /\ row.kind = IF rows[t].kind = "once" THEN "session" ELSE rows[t].kind
      BY <1>1, <2>1, <3>3, <3>4, Zenon
    <3>. QED
      BY <1>1, <1>3, <3>5
  <2>3. CASE ~op.manual
    <3>. DEFINE o == Occurrence(t, op.sentAt)
    <3>1. rows[t].at <= op.sentAt /\ rows[t].at \in Nat /\ op.sentAt \in Nat
      BY <1>1, <2>3, Instants DEF TaskInv, Sending, Row
    <3>2. o \in Nat /\ o <= op.sentAt
      BY <3>1, OccurrenceIs DEF Occurrence
    <3>. HIDE DEF o
    <3>3. o \in Instant /\ o + Every \in Instant
      BY <1>1, <3>1, <3>2, TimeAssumption DEF Instant
    <3>4. row \in Advanced(t)
      BY <1>3, <2>3
    <3>5. \/ row = [Delivered(t, o) EXCEPT !.status = "ended", !.at = o]
          \/ row = [Delivered(t, o) EXCEPT !.status = "active", !.at = o + Every]
      BY <3>4 DEF Advanced, o
    <3>6. CASE row = [Delivered(t, o) EXCEPT !.status = "ended", !.at = o]
      BY <1>1, <1>3, <2>1, <2>3, <3>3, <3>6
    <3>7. CASE row = [Delivered(t, o) EXCEPT !.status = "active", !.at = o + Every]
      BY <1>1, <1>3, <2>1, <2>3, <3>3, <3>7
    <3>. QED
      BY <3>5, <3>6, <3>7
  <2>. QED
    BY <2>2, <2>3
<1>. QED
  BY <1>1, <1>2, <1>3 DEF Commit, Abandon

\* The steps of an operation, but those of the drive.
LEMMA OperationTypes ==
  ASSUME TypeOK, StoreInv, FlowInv, TaskInv,
         \/ \E t \in Task : Check(t) \/ Commit(t)
         \/ Restored \/ Requeued \/ Admit \/ Reserve \/ Open \/ Create \/ Send \/ Flush
  PROVE  TypeOK'
<1>. USE TypeSplit
<1>0. /\ op \in OpType /\ Proceed \in OpType
      /\ op.pc \in Facing => op.session \in Session
  BY ProceedIs DEF FlowInv
<1>1. ASSUME NEW t \in Task, Check(t) PROVE TypeOK'
  <2>1. op' \in OpType
    BY <1>1, CheckOp
  <2>2. unseen' \subseteq Message
    <3>1. rows[t].last # None => rows[t].last.message \in Message
      BY DEF Types, Row, Receipt
    <3>2. UNCHANGED unseen \/ (rows[t].last # None /\ unseen' = unseen \cup {rows[t].last.message})
      BY <1>1 DEF Check
    <3>. QED
      BY <3>1, <3>2 DEF Types
  <2>. QED
    BY <1>1, <2>1, <2>2 DEF Check, driveVars, slotVars, logVars, world, Types
<1>2. ASSUME NEW t \in Task, Commit(t) PROVE TypeOK'
  <2>. DEFINE left == op.left \ {t}
  <2>1. /\ op' \in OpType /\ op.pc = "commit" /\ op.session \in Session
        /\ op.held \subseteq Task /\ op.idled \in BOOLEAN
    BY <1>0, <1>2, CommitOp DEF Facing, OpType
  <2>2. /\ rows' \in [Task -> Row] /\ acked' \in [Message -> SUBSET Task]
        /\ fate' \in [Session -> {"none", "reserved", "delivered", "forsaken"}]
    BY <1>2, CommitIs DEF Types
  <2>3. /\ loop' \in {"off", "queued", "driving"} /\ requested' \in BOOLEAN
        /\ timer' \in Nat \cup {None} /\ failed' \subseteq Task /\ faults' \in 0 .. MaxFaults
    <3>1. op.left \in SUBSET Task
      BY <1>0 DEF OpType
    <3>. QED
      BY <1>2, <3>1, Bounded, DriveTypes DEF Commit, driveVars, Types
  <2>4. /\ executing' \subseteq Task
        /\ watches' \subseteq [tasks : SUBSET Task, session : Session, done : BOOLEAN]
    <3>1. ASSUME NEW rest \in SUBSET Task, Settle(rest)
          PROVE  /\ executing' \subseteq Task
                 /\ watches' \subseteq [tasks : SUBSET Task, session : Session, done : BOOLEAN]
      <4>1. op.held \ rest \in SUBSET Task
        BY <2>1
      <4>2. Watch(op.held \ rest, op.session, op.idled)
            /\ executing' = executing \ (op.held \cap rest)
        BY <3>1 DEF Settle
      <4>3. watches' \subseteq [tasks : SUBSET Task, session : Session, done : BOOLEAN]
        BY <2>1, <4>1, <4>2, WatchTypes
      <4>. QED
        BY <4>2, <4>3 DEF Types
    <3>2. op.left \in SUBSET Task
      BY <1>0 DEF OpType
    <3>3. Settle({}) \/ Settle(op.left) \/ UNCHANGED slotVars
      BY <1>2 DEF Commit
    <3>. QED
      BY <3>1, <3>2, <3>3 DEF slotVars, Types
  <2>5. UNCHANGED <<logVars, world, sent, consumed, unseen, requeued>>
    BY <1>2 DEF Commit
  <2>. QED
    BY <2>1, <2>2, <2>3, <2>4, <2>5 DEF logVars, world, Types
<1>3. CASE Restored
  <2>. DEFINE t == op.subject
              s == op.session
              m == rows[t].last.message
              holders == Holders(m)
  <2>1. /\ op' \in OpType /\ s \in Session /\ m \in Message /\ holders \in SUBSET Task
    <3>1. op' \in OpType /\ op.pc = "restore"
      BY <1>3, RestoredOp
    <3>2. s \in Session /\ t \in Task /\ rows[t].last # None
      BY <1>0, <3>1 DEF FlowInv, Facing, OpType
    <3>3. m \in Message
      BY <3>2 DEF Types, Row, Receipt
    <3>. QED
      BY <3>1, <3>2, <3>3 DEF Holders
  <2>2. UNCHANGED <<rows, driveVars, world, sent, acked, consumed, fate, inbox>>
    BY <1>3 DEF Restored, logVars
  <2>3. /\ agent' \in [Session -> {"absent", "idle", "busy"}] /\ executing' \subseteq Task
        /\ unseen' \subseteq Message /\ requeued' \subseteq Message
    BY <1>3, <2>1 DEF Restored, Activated, slotVars, logVars, Types
  <2>4. faults' \in 0 .. MaxFaults
    BY <1>3, Bounded DEF Restored, Types
  <2>5. watches' \subseteq [tasks : SUBSET Task, session : Session, done : BOOLEAN]
    BY <1>3, <2>1, WatchTypes DEF Restored, slotVars, Types
  <2>6. \A x \in Session : inbox'[x] \in tails'[x]
                           /\ tails'[x] \subseteq (SUBSET Message) \cup {None}
    <3>1. CASE UNCHANGED tails
      BY <2>2, <3>1 DEF Types
    <3>2. CASE /\ tails' = [tails EXCEPT ![s] = @ \cup {inbox[s] \ {m}, inbox[s]}]
               /\ m \in Waiting(s)
      <4>1. inbox[s] \in SUBSET Message
        BY <2>1, <3>2 DEF Waiting, Exists, Types
      <4>. QED
        BY <2>1, <2>2, <3>2, <4>1 DEF Types, StoreInv
    <3>. QED
      BY <1>3, <3>1, <3>2 DEF Restored, logVars
  <2>. QED
    BY <2>1, <2>2, <2>3, <2>4, <2>5, <2>6 DEF driveVars, world, Types
<1>4. CASE Requeued
  <2>1. op' \in OpType /\ op.session \in Session /\ op.held \in SUBSET Task
        /\ op.idled \in BOOLEAN /\ op.group \in SUBSET Task
    BY <1>0, <1>4, RequeuedOp DEF Facing, OpType
  <2>2. UNCHANGED <<rows, agent, inbox, world, sent, acked, consumed, fate>>
    BY <1>4 DEF Requeued
  <2>6. unseen' \subseteq Message
    <3>1. unseen' \subseteq unseen \cup {rows[op.subject].last.message}
      BY <1>4 DEF Requeued
    <3>2. rows[op.subject].last.message \in Message
      BY <1>4, <1>0 DEF Requeued, FlowInv, Types, OpType, Row, Receipt
    <3>. QED
      BY <3>1, <3>2 DEF Types
  <2>3. /\ executing' \subseteq Task /\ requeued' \subseteq Message
        /\ watches' \subseteq [tasks : SUBSET Task, session : Session, done : BOOLEAN]
    <3>1. Watch(op.held, op.session, op.idled) \/ UNCHANGED watches
      BY <1>4 DEF Requeued
    <3>2. watches' \subseteq [tasks : SUBSET Task, session : Session, done : BOOLEAN]
      <4>1. CASE Watch(op.held, op.session, op.idled)
        BY <2>1, <4>1, WatchTypes
      <4>2. CASE UNCHANGED watches
        BY <4>2 DEF Types
      <4>. QED
        BY <3>1, <4>1, <4>2
    <3>3. executing' \subseteq executing /\ requeued' \subseteq requeued
      BY <1>4 DEF Requeued, FreesHeld
    <3>. QED
      BY <3>2, <3>3 DEF Types
  <2>4. /\ loop' \in {"off", "queued", "driving"} /\ requested' \in BOOLEAN
        /\ timer' \in Nat \cup {None} /\ failed' \subseteq Task /\ faults' \in 0 .. MaxFaults
    BY <1>4, <2>1, Bounded, DriveTypes DEF Requeued, driveVars, Types
  <2>5. \A x \in Session : inbox'[x] \in tails'[x]
                           /\ tails'[x] \subseteq (SUBSET Message) \cup {None}
    BY <1>4, <2>1, <2>2 DEF Requeued, Flushed, Types, StoreInv
  <2>. QED
    BY <2>1, <2>2, <2>3, <2>4, <2>5, <2>6 DEF world, Types
<1>5. CASE Admit
  <2>1. op' \in OpType
    BY <1>0, <1>5, AdmitOp
  <2>2. /\ loop' \in {"off", "queued", "driving"} /\ requested' \in BOOLEAN
        /\ timer' \in Nat \cup {None} /\ failed' \subseteq Task
    <3>. DEFINE admitted == {t \in op.candidates : op.manual \/ rows[t].at <= now}
    <3>1. admitted \in SUBSET Task
      BY <1>0 DEF OpType
    <3>2. Abandon(admitted) \/ UNCHANGED driveVars
      BY <1>5 DEF Admit
    <3>. QED
      BY <3>1, <3>2, DriveTypes DEF driveVars, Types
  <2>. QED
    BY <1>5, <2>1, <2>2 DEF Admit, slotVars, logVars, world, history, Types
<1>6. CASE Reserve
  <2>1. op' \in OpType /\ op.group \in SUBSET Task /\ op.subject \in Task
    BY <1>0, <1>6, ReserveOp DEF OpType
  <2>2. /\ rows' \in [Task -> Row]
        /\ fate' \in [Session -> {"none", "reserved", "delivered", "forsaken"}]
    <3>1. CASE UNCHANGED <<rows, fate>>
      BY <3>1 DEF Types
    <3>2. ASSUME NEW s \in Session, rows' = [rows EXCEPT ![op.subject].reserved = s],
                 fate' = [fate EXCEPT ![s] = "reserved"]
          PROVE  /\ rows' \in [Task -> Row]
                 /\ fate' \in [Session -> {"none", "reserved", "delivered", "forsaken"}]
      <4>1. [rows[op.subject] EXCEPT !.reserved = s] \in Row
        BY <2>1 DEF Types, Row
      <4>. QED
        BY <2>1, <3>2, <4>1 DEF Types
    <3>. QED
      BY <1>6, <3>1, <3>2 DEF Reserve
  <2>3. /\ loop' \in {"off", "queued", "driving"} /\ requested' \in BOOLEAN
        /\ timer' \in Nat \cup {None} /\ failed' \subseteq Task /\ faults' \in 0 .. MaxFaults
    BY <1>6, <2>1, Bounded, DriveTypes DEF Reserve, driveVars, Types
  <2>4. UNCHANGED <<slotVars, logVars, world, sent, acked, consumed, unseen, requeued>>
    BY <1>6 DEF Reserve
  <2>. QED
    BY <2>1, <2>2, <2>3, <2>4 DEF slotVars, logVars, world, Types
<1>7. CASE Open
  <2>1. op' \in OpType /\ op.group \in SUBSET Task /\ op.session \in Session
    BY <1>0, <1>7, OpenOp DEF Facing, OpType
  <2>2. /\ agent' \in [Session -> {"absent", "idle", "busy"}]
        /\ UNCHANGED <<rows, inbox, tails, slotVars, world, history>>
    BY <1>7, <2>1 DEF Open, Activated, Types
  <2>3. /\ loop' \in {"off", "queued", "driving"} /\ requested' \in BOOLEAN
        /\ timer' \in Nat \cup {None} /\ failed' \subseteq Task /\ faults' \in 0 .. MaxFaults
    BY <1>7, <2>1, Bounded, DriveTypes DEF Open, driveVars, Types
  <2>. QED
    BY <2>1, <2>2, <2>3 DEF slotVars, world, history, Types
<1>8. CASE Create
  <2>1. op' \in OpType /\ op.group \in SUBSET Task /\ op.session \in Session
    BY <1>0, <1>8, CreateOp DEF Facing, OpType
  <2>2. /\ loop' \in {"off", "queued", "driving"} /\ requested' \in BOOLEAN
        /\ timer' \in Nat \cup {None} /\ failed' \subseteq Task /\ faults' \in 0 .. MaxFaults
    BY <1>8, <2>1, Bounded, DriveTypes DEF Create, driveVars, Types
  <2>3. /\ agent' \in [Session -> {"absent", "idle", "busy"}]
        /\ \A x \in Session : /\ inbox'[x] \in (SUBSET Message) \cup {None}
                              /\ inbox'[x] \in tails'[x]
                              /\ tails'[x] \subseteq (SUBSET Message) \cup {None}
    BY <1>8, <2>1 DEF Create, Splice, logVars, Types, StoreInv
  <2>4. UNCHANGED <<rows, slotVars, world, history>>
    BY <1>8 DEF Create
  <2>. QED
    BY <2>1, <2>2, <2>3, <2>4 DEF slotVars, world, history, Types
<1>9. CASE Send
  <2>1. op' \in OpType /\ op.group \in SUBSET Task /\ op.session \in Session
    BY <1>0, <1>9, SendOp DEF Send, Facing, OpType
  <2>2. /\ loop' \in {"off", "queued", "driving"} /\ requested' \in BOOLEAN
        /\ timer' \in Nat \cup {None} /\ failed' \subseteq Task
    <3>. DEFINE admitted == {t \in op.group : op.manual \/ rows[t].at <= now}
    <3>1. admitted \in SUBSET Task
      BY <2>1
    <3>2. Abandon(admitted) \/ UNCHANGED driveVars
      BY <1>9 DEF Send
    <3>. QED
      BY <3>1, <3>2, DriveTypes DEF driveVars, Types
  <2>3. /\ sent' \in 0 .. MaxMessages /\ executing' \subseteq Task
        /\ watches' \subseteq [tasks : SUBSET Task, session : Session, done : BOOLEAN]
    <3>1. UNCHANGED <<slotVars, sent>>
          \/ /\ sent + 1 \in Message /\ sent' = sent + 1 /\ UNCHANGED watches
             /\ executing' = executing \cup {t \in {u \in op.group : op.manual \/ rows[u].at <= now} :
                                               rows[t].kind # "new"}
      BY <1>9 DEF Send
    <3>. QED
      BY <2>1, <3>1, BoundAssumption DEF slotVars, Message, Types
  <2>4. /\ agent' \in [Session -> {"absent", "idle", "busy"}]
        /\ \A x \in Session : /\ inbox'[x] \in (SUBSET Message) \cup {None}
                              /\ inbox'[x] \in tails'[x]
                              /\ tails'[x] \subseteq (SUBSET Message) \cup {None}
    <3>1. CASE UNCHANGED logVars
      BY <3>1 DEF logVars, Types
    <3>2. CASE /\ agent[op.session] # "absent" /\ sent + 1 \in Message
               /\ Splice(op.session, inbox[op.session] \cup {sent + 1})
               /\ agent' = [agent EXCEPT ![op.session] = "busy"]
      <4>1. inbox[op.session] \in SUBSET Message
        BY <2>1, <3>2 DEF StoreInv, Exists, Types
      <4>. QED
        BY <2>1, <3>2, <4>1 DEF Splice, Types, StoreInv
    <3>. QED
      BY <1>9, <3>1, <3>2 DEF Send
  <2>5. UNCHANGED <<rows, world, faults, acked, consumed, unseen, requeued, fate>>
    BY <1>9 DEF Send
  <2>. QED
    BY <2>1, <2>2, <2>3, <2>4, <2>5 DEF world, Types
<1>10. CASE Flush
  <2>1. op' \in OpType /\ op.group \in SUBSET Task /\ op.session \in Session
        /\ op.held \in SUBSET Task
    BY <1>0, <1>10, FlushOp DEF Facing, OpType
  <2>2. /\ loop' \in {"off", "queued", "driving"} /\ requested' \in BOOLEAN
        /\ timer' \in Nat \cup {None} /\ failed' \subseteq Task /\ faults' \in 0 .. MaxFaults
    BY <1>10, <2>1, Bounded, DriveTypes DEF Flush, driveVars, Types
  <2>3. UNCHANGED <<rows, watches, agent, inbox, world, history>>
    BY <1>10 DEF Flush
  <2>4. /\ executing' \subseteq Task
        /\ \A x \in Session : inbox'[x] \in tails'[x]
                              /\ tails'[x] \subseteq (SUBSET Message) \cup {None}
    BY <1>10, <2>1, <2>3 DEF Flush, FreesHeld, Flushed, Types, StoreInv
  <2>. QED
    BY <2>1, <2>2, <2>3, <2>4 DEF world, history, Types
<1>. QED
  BY <1>1, <1>2, <1>3, <1>4, <1>5, <1>6, <1>7, <1>8, <1>9, <1>10

\* Agents, the clock, providers, stop and crash.
LEMMA AsideTypes ==
  ASSUME TypeOK, StoreInv, Agents \/ ProviderReady \/ Tick \/ RollBack \/ Stop \/ Crash
  PROVE  TypeOK'
<1>. USE TypeSplit
<1>1. ASSUME NEW s \in Session, Resolves(s)
      PROVE  /\ op' \in OpType
             /\ watches' \subseteq [tasks : SUBSET Task, session : Session, done : BOOLEAN]
  <2>1. op' \in OpType
    <3>1. op' = op \/ op' = [op EXCEPT !.idled = TRUE]
      BY <1>1 DEF Resolves
    <3>. QED
      BY <3>1 DEF OpType
  <2>2. watches' = {IF w.session = s THEN [w EXCEPT !.done = TRUE] ELSE w : w \in watches}
    BY <1>1 DEF Resolves
  <2>3. \A w \in watches : (IF w.session = s THEN [w EXCEPT !.done = TRUE] ELSE w)
                           \in [tasks : SUBSET Task, session : Session, done : BOOLEAN]
    BY DEF Types
  <2>4. ASSUME NEW w \in watches'
        PROVE  w \in [tasks : SUBSET Task, session : Session, done : BOOLEAN]
    <3>1. PICK v \in watches : w = IF v.session = s THEN [v EXCEPT !.done = TRUE] ELSE v
      BY <2>2, <2>4
    <3>. QED
      BY <2>3, <3>1
  <2>. QED
    BY <2>1, <2>4
<1>2. ASSUME NEW s \in Session, Idle(s) PROVE TypeOK'
  BY <1>1, <1>2 DEF Idle, driveVars, world, history, Types
<1>3. ASSUME NEW s \in Session, Wake(s) PROVE TypeOK'
  BY <1>3, Bounded DEF Wake, driveVars, slotVars, history, Types
<1>4. ASSUME NEW s \in Session, Dispose(s) PROVE TypeOK'
  <2>1. /\ agent' \in [Session -> {"absent", "idle", "busy"}] /\ edits' \in 0 .. MaxEdits
        /\ op' \in OpType
        /\ watches' \subseteq [tasks : SUBSET Task, session : Session, done : BOOLEAN]
    BY <1>1, <1>4, Bounded DEF Dispose, Types
  <2>2. inbox[s] \in SUBSET Message
    BY <1>4 DEF Dispose, StoreInv, Exists, Types
  <2>3. CASE Splice(s, {}) /\ consumed' = consumed \cup inbox[s]
    <3>1. /\ consumed' \subseteq Message
          /\ \A x \in Session : /\ inbox'[x] \in (SUBSET Message) \cup {None}
                                /\ inbox'[x] \in tails'[x]
                                /\ tails'[x] \subseteq (SUBSET Message) \cup {None}
      BY <2>2, <2>3 DEF Splice, Types, StoreInv
    <3>. QED
      BY <1>4, <2>1, <3>1 DEF Dispose, driveVars, Types
  <2>4. CASE UNCHANGED <<inbox, tails, consumed>>
    BY <1>4, <2>1, <2>4 DEF Dispose, driveVars, Types
  <2>. QED
    BY <1>4, <2>3, <2>4 DEF Dispose
<1>5. ASSUME NEW s \in Session, NEW m \in Message, Claim(s, m) PROVE TypeOK'
  <2>1. inbox[s] \in SUBSET Message
    BY <1>5 DEF Claim, Waiting, Exists, Types
  <2>2. /\ consumed' \subseteq Message
        /\ \A x \in Session : /\ inbox'[x] \in (SUBSET Message) \cup {None}
                              /\ inbox'[x] \in tails'[x]
                              /\ tails'[x] \subseteq (SUBSET Message) \cup {None}
    BY <1>5, <2>1 DEF Claim, Splice, Types, StoreInv
  <2>. QED
    BY <1>5, <2>2 DEF Claim, driveVars, slotVars, world, Types
<1>6. CASE ProviderReady
  BY <1>6, Bounded, DriveTypes DEF ProviderReady, slotVars, logVars, history, Types
<1>7. CASE Tick \/ RollBack
  <2>1. now' \in 0 .. MaxTime /\ faults' \in 0 .. MaxFaults
    BY <1>7, TimeAssumption, Bounded DEF Tick, RollBack, Types
  <2>. QED
    BY <1>7, <2>1 DEF Tick, RollBack, driveVars, slotVars, logVars, history, Types
<1>8. CASE Stop
  BY <1>8, Bounded DEF Stop, slotVars, logVars, history, Types
<1>9. CASE Crash
  <2>1. PICK left \in [Session -> UNION {tails[s] : s \in Session}] :
          /\ \A s \in Session : left[s] \in tails[s]
          /\ inbox' = left
          /\ tails' = [s \in Session |-> {left[s]}]
    BY <1>9 DEF Crash
  <2>2. \A s \in Session : /\ inbox'[s] \in (SUBSET Message) \cup {None}
                           /\ inbox'[s] \in tails'[s]
                           /\ tails'[s] \subseteq (SUBSET Message) \cup {None}
    BY <2>1 DEF Types
  <2>3. /\ archive' \in [Session -> {"open", "asked", "archived", "stopping", "stopped"}]
        /\ agent' \in [Session -> {"absent", "idle", "busy"}]
    BY <1>9 DEF Crash, Types
  <2>4. /\ op' \in OpType /\ loop' = "queued" /\ requested' = FALSE /\ timer' = None
        /\ failed' = {} /\ executing' = {} /\ watches' = {} /\ stopping' = FALSE
        /\ faults' \in 0 .. MaxFaults /\ UNCHANGED <<rows, now, edits, history>>
    BY <1>9, RestIs, Bounded DEF Crash
  <2>. QED
    BY <2>2, <2>3, <2>4 DEF history, Types
<1>. QED
  BY <1>2, <1>3, <1>4, <1>5, <1>6, <1>7, <1>8, <1>9 DEF Agents

\* Every step keeps the types, given what places of the operation are about.
LEMMA TypeStep ==
  ASSUME TypeOK, StoreInv, FlowInv, TaskInv, [Next]_vars
  PROVE  TypeOK'
<1>1. CASE UNCHANGED vars
  BY <1>1, TypeSplit DEF vars, driveVars, slotVars, logVars, world, history, Types
<1>. QED
  BY <1>1, DriveStepTypes, ManagementTypes, OperationTypes, AsideTypes DEF Next, Operation

-----------------------------------------------------------------------------
(* Steps beside an operation, and between operations.                        *)

SameOp == op' = op \/ op' = [op EXCEPT !.idled = TRUE]

StoreStill == UNCHANGED <<inbox, tails, consumed, requeued>>

\* Messages leave the inbox of s for a turn, or with its queue.
Takes(s) == \E box \in SUBSET Message :
  /\ inbox[s] \in SUBSET Message /\ box \subseteq inbox[s] /\ Splice(s, box)
  /\ consumed' = consumed \cup (inbox[s] \ box) /\ UNCHANGED requeued

\* Beside an operation, or at rest.
Asides == /\ UNCHANGED <<rows, sent, fate>> /\ SameOp
          /\ StoreStill \/ \E s \in Session : Takes(s)
          /\ \A s \in Session : agent'[s] # "absent" => agent[s] # "absent" \/ Exists(s)
          /\ \A s \in Session : archive'[s] = "stopped" => archive[s] = "stopped"

\* Only between operations.
Edited == op = Rest /\ op' = Rest /\ StoreStill /\ UNCHANGED <<sent, agent>>

LEMMA SameOpIs ==
  ASSUME op \in OpType, SameOp
  PROVE  /\ op' \in OpType /\ op'.pc = op.pc /\ op'.manual = op.manual /\ op'.due = op.due
         /\ op'.group = op.group /\ op'.candidates = op.candidates
         /\ op'.unchecked = op.unchecked /\ op'.subject = op.subject
         /\ op'.session = op.session /\ op'.message = op.message /\ op'.sentAt = op.sentAt
         /\ op'.left = op.left /\ op'.held = op.held
BY DEF SameOp, OpType

\* An inbox is not the absence of one.
LEMMA InboxIs == \A box \in SUBSET Message : box # None
BY InboxAssumption DEF Message

\* Agents, archives without a stop, the clock, providers and stop.
LEMMA AsideMoves ==
  ASSUME TypeOK, StoreInv,
         \/ UNCHANGED vars \/ TimerFires \/ Agents \/ ProviderReady \/ Tick \/ RollBack \/ Stop
         \/ \E w \in watches : Release(w)
         \/ \E s \in Session : AskArchive(s) \/ Archive(s) \/ ArchiveAndStop(s) \/ Unarchive(s)
  PROVE  Asides
<1>. USE TypeSplit
<1>1. CASE \/ UNCHANGED vars \/ TimerFires \/ ProviderReady \/ Tick \/ RollBack \/ Stop
           \/ \E w \in watches : Release(w)
  BY <1>1 DEF vars, TimerFires, ProviderReady, Tick, RollBack, Stop, Release, slotVars, logVars,
              world, history, Asides, SameOp, StoreStill
<1>2. ASSUME NEW s \in Session, AskArchive(s) \/ Archive(s) \/ Unarchive(s) PROVE Asides
  BY <1>2 DEF AskArchive, Archive, Unarchive, logVars, history, Asides, SameOp, StoreStill, Types
<1>3. ASSUME NEW s \in Session, ArchiveAndStop(s) PROVE Asides
  <2>1. inbox[s] \in SUBSET Message /\ {} \in SUBSET Message
    BY <1>3 DEF ArchiveAndStop, Exists, Types
  <2>2. StoreStill \/ Takes(s)
    BY <1>3, <2>1 DEF ArchiveAndStop, StoreStill, Takes
  <2>3. \A x \in Session : archive'[x] = "stopped" => archive[x] = "stopped"
    BY <1>3 DEF ArchiveAndStop, Types
  <2>. QED
    BY <1>3, <2>2, <2>3 DEF ArchiveAndStop, Asides, SameOp
<1>4. ASSUME NEW s \in Session, Idle(s) PROVE Asides
  BY <1>4 DEF Idle, Resolves, world, history, Asides, SameOp, StoreStill, Types
<1>5. ASSUME NEW s \in Session, Wake(s) PROVE Asides
  BY <1>5 DEF Wake, history, Asides, SameOp, StoreStill, Types
<1>6. ASSUME NEW s \in Session, Dispose(s) PROVE Asides
  <2>1. inbox[s] \in SUBSET Message /\ {} \in SUBSET Message
    BY <1>6 DEF Dispose, StoreInv, Exists, Types
  <2>2. StoreStill \/ Takes(s)
    BY <1>6, <2>1 DEF Dispose, StoreStill, Takes
  <2>3. \A x \in Session : agent'[x] # "absent" => agent[x] # "absent"
    BY <1>6 DEF Dispose, Types
  <2>. QED
    BY <1>6, <2>2, <2>3 DEF Dispose, Resolves, Asides, SameOp
<1>7. ASSUME NEW s \in Session, NEW m \in Message, Claim(s, m) PROVE Asides
  <2>1. inbox[s] \in SUBSET Message /\ m \in inbox[s]
    BY <1>7 DEF Claim, Waiting, Exists, Types
  <2>2. Takes(s)
    <3>. DEFINE box == inbox[s] \ {m}
    <3>1. box \in SUBSET Message /\ box \subseteq inbox[s] /\ inbox[s] \ box = {m}
      BY <2>1
    <3>2. Splice(s, box) /\ consumed' = consumed \cup {m} /\ UNCHANGED requeued
      BY <1>7 DEF Claim
    <3>. QED
      BY <2>1, <3>1, <3>2 DEF Takes
  <2>. QED
    BY <1>7, <2>2 DEF Claim, world, Asides, SameOp
<1>. QED
  BY <1>1, <1>2, <1>3, <1>4, <1>5, <1>6, <1>7 DEF Agents

\* Edits of the table.
TableEdits ==
  \/ \E t \in Task :
       \/ Pause(t) \/ Delete(t)
       \/ \E k \in Kinds, s \in Session \cup {None} :
            \/ Retarget(t, k, s)
            \/ \E at \in 1 .. MaxTime : CreateTask(t, k, s, at)
       \/ \E at \in 1 .. MaxTime + Every, resume \in BOOLEAN : Rearm(t, at, resume)
  \/ DeleteInactive
  \/ \E s \in Session : StopSessionTasks(s)

LEMMA EditMoves ==
  ASSUME TableEdits
  PROVE  Edited
<1>. USE DEF Manages, logVars, history, Edited, StoreStill
<1>1. ASSUME NEW t \in Task, Pause(t) PROVE Edited
  BY <1>1 DEF Pause
<1>2. ASSUME NEW t \in Task, Delete(t) PROVE Edited
  BY <1>2 DEF Delete, Removed
<1>3. ASSUME NEW t \in Task, NEW k \in Kinds, NEW s \in Session \cup {None}, Retarget(t, k, s)
      PROVE  Edited
  BY <1>3 DEF Retarget
<1>4. ASSUME NEW t \in Task, NEW k \in Kinds, NEW s \in Session \cup {None},
             NEW at \in 1 .. MaxTime, CreateTask(t, k, s, at)
      PROVE  Edited
  BY <1>4 DEF CreateTask
<1>5. ASSUME NEW t \in Task, NEW at \in 1 .. MaxTime + Every, NEW resume \in BOOLEAN,
             Rearm(t, at, resume)
      PROVE  Edited
  BY <1>5 DEF Rearm
<1>6. CASE DeleteInactive
  BY <1>6 DEF DeleteInactive, Removed
<1>7. ASSUME NEW s \in Session, StopSessionTasks(s) PROVE Edited
  BY <1>7 DEF StopSessionTasks, Removed
<1>. QED
  BY <1>1, <1>2, <1>3, <1>4, <1>5, <1>6, <1>7 DEF TableEdits

\* Every step is one of these.
LEMMA Steps ==
  ASSUME TypeOK, StoreInv, [Next]_vars
  PROVE  \/ Asides
         \/ TableEdits
         \/ BeginDrive \/ \E t \in Task : RunNow(t)
         \/ \E t \in Task : Pick(t) \/ Check(t) \/ Commit(t)
         \/ Restored \/ Requeued \/ Admit \/ Reserve \/ Open \/ Create \/ Send \/ Flush
         \/ EndDrive \/ Crash
BY AsideMoves DEF Next, Operation, Management, TableEdits

-----------------------------------------------------------------------------
(* Sessions, rows and the operation.                                         *)

\* A receipt names a session that exists.
LEMMA ReceiptExists ==
  ASSUME TypeOK, ReceiptInv, NEW t \in Task, rows[t].last # None
  PROVE  rows[t].last.session \in Session /\ Exists(rows[t].last.session)
<1>1. rows[t].last.session \in Session
  BY TypeSplit DEF Types, Row, Receipt
<1>. QED
  BY <1>1, TypeSplit DEF ReceiptInv, Kept, Exists, Types

LEMMA StoreStep ==
  ASSUME TypeOK, TypeOK', StoreInv, FlowInv, ReceiptInv, [Next]_vars
  PROVE  StoreInv'
<1>. USE TypeSplit
<1>0. op.pc \in Facing => op.session \in Session
  BY DEF FlowInv
<1>1. CASE UNCHANGED logVars
  BY <1>1 DEF logVars, StoreInv, Exists
<1>2. CASE Asides
  <2>1. CASE StoreStill
    BY <1>2, <2>1 DEF Asides, StoreStill, StoreInv, Exists
  <2>2. ASSUME NEW s \in Session, Takes(s) PROVE StoreInv'
    <3>1. PICK box \in SUBSET Message : inbox[s] \in SUBSET Message /\ Splice(s, box)
      BY <2>2 DEF Takes
    <3>2. \A x \in Session : Exists(x) => Exists(x)'
      BY <3>1, InboxIs DEF Splice, Exists, StoreInv
    <3>3. /\ inbox' \in [Session -> (SUBSET Message) \cup {None}]
          /\ tails' \in [Session -> SUBSET ((SUBSET Message) \cup {None})]
      BY <3>1 DEF Splice, StoreInv
    <3>. QED
      BY <1>2, <3>2, <3>3 DEF Asides, StoreInv
  <2>. QED
    BY <1>2, <2>1, <2>2 DEF Asides
<1>3. CASE TableEdits
  BY <1>3, EditMoves, <1>1 DEF Edited, StoreStill, logVars
<1>4. CASE BeginDrive \/ \E t \in Task : RunNow(t) \/ Pick(t) \/ Check(t) \/ Commit(t)
  BY <1>4, <1>1 DEF BeginDrive, RunNow, Pick, Check, Commit
<1>5. CASE Admit \/ Reserve \/ EndDrive
  BY <1>5, <1>1 DEF Admit, Reserve, EndDrive
<1>6. CASE Restored
  <2>1. op.session \in Session /\ Exists(op.session)
    BY <1>6, ReceiptExists DEF Restored, FlowInv, OpType
  <2>2. UNCHANGED inbox
    BY <1>6 DEF Restored, logVars
  <2>3. \A s \in Session : agent'[s] # "absent" => agent[s] # "absent" \/ s = op.session
    BY <1>6, <2>1 DEF Restored, logVars, Types
  <2>4. tails' \in [Session -> SUBSET ((SUBSET Message) \cup {None})]
    <3>1. CASE UNCHANGED tails
      BY <3>1 DEF StoreInv
    <3>2. tails' = [tails EXCEPT ![op.session] = tails'[op.session]] \/ UNCHANGED tails
      BY <1>6, <2>1 DEF Restored, logVars, StoreInv
    <3>3. tails'[op.session] \in SUBSET ((SUBSET Message) \cup {None})
      BY <2>1 DEF Types
    <3>. QED
      BY <3>1, <3>2, <3>3 DEF StoreInv
  <2>. QED
    BY <2>1, <2>2, <2>3, <2>4 DEF StoreInv, Exists
<1>7. CASE Requeued \/ Flush
  <2>1. UNCHANGED <<inbox, agent>> /\ (UNCHANGED tails \/ Flushed(op.session))
        /\ op.session \in Session
    BY <1>0, <1>7 DEF Requeued, Flush, Facing
  <2>. QED
    BY <2>1 DEF Flushed, StoreInv, Exists
<1>8. CASE Open
  BY <1>0, <1>8 DEF Open, Facing, StoreInv, Exists, Types
<1>9. CASE Create
  <2>1. UNCHANGED logVars
        \/ (Splice(op.session, {}) /\ agent' = [agent EXCEPT ![op.session] = "idle"])
    BY <1>9 DEF Create
  <2>2. op.session \in Session /\ {} # None
    BY <1>0, <1>9, InboxIs DEF Create, Facing
  <2>. QED
    BY <1>1, <2>1, <2>2 DEF Splice, StoreInv, Exists, Types
<1>10. CASE Send
  <2>1. \/ UNCHANGED logVars
        \/ /\ agent[op.session] # "absent" /\ sent + 1 \in Message
           /\ Splice(op.session, inbox[op.session] \cup {sent + 1})
           /\ agent' = [agent EXCEPT ![op.session] = "busy"]
    BY <1>10 DEF Send
  <2>2. op.session \in Session
    BY <1>0, <1>10 DEF Send, Facing
  <2>3. CASE /\ agent[op.session] # "absent" /\ sent + 1 \in Message
             /\ Splice(op.session, inbox[op.session] \cup {sent + 1})
             /\ agent' = [agent EXCEPT ![op.session] = "busy"]
    <3>1. inbox[op.session] \cup {sent + 1} \in SUBSET Message
      BY <2>2, <2>3 DEF StoreInv, Exists
    <3>2. inbox[op.session] \cup {sent + 1} # None
      BY <3>1, InboxIs
    <3>. HIDE <2>1
    <3>. QED
      BY <2>2, <2>3, <3>1, <3>2 DEF Splice, StoreInv, Exists, Types
  <2>. QED
    BY <1>1, <2>1, <2>3
<1>11. CASE Crash
  <2>1. PICK left \in [Session -> UNION {tails[s] : s \in Session}] :
          /\ inbox' = left /\ tails' = [s \in Session |-> {left[s]}]
    BY <1>11 DEF Crash
  <2>2. \A s \in Session : agent'[s] = "absent" /\ inbox'[s] \in (SUBSET Message) \cup {None}
    BY <1>11 DEF Crash, Types
  <2>. QED
    BY <2>1, <2>2 DEF StoreInv
<1>. QED
  BY Steps, <1>2, <1>3, <1>4, <1>5, <1>6, <1>7, <1>8, <1>9, <1>10, <1>11

\* Rows change in Reserve, Commit and edits.
LEMMA RowStep ==
  ASSUME TypeOK, StoreInv, RowInv, FlowInv, TaskInv, [Next]_vars
  PROVE  RowInv'
<1>. USE TypeSplit
<1>1. CASE UNCHANGED rows
  BY <1>1 DEF RowInv, Present
<1>2. CASE Asides \/ BeginDrive \/ \E t \in Task : RunNow(t) \/ Pick(t) \/ Check(t)
  BY <1>1, <1>2 DEF Asides, BeginDrive, RunNow, Pick, Check
<1>3. CASE Restored \/ Requeued \/ Admit \/ Open \/ Create \/ Send \/ Flush \/ EndDrive \/ Crash
  BY <1>1, <1>3 DEF Restored, Requeued, Admit, Open, Create, Send, Flush, EndDrive, Crash
<1>4. CASE Reserve
  <2>1. CASE UNCHANGED rows
    BY <1>1, <2>1
  <2>2. ASSUME rows' = [rows EXCEPT ![op.subject].reserved = op'.session],
               op.subject \in op.group
        PROVE  RowInv'
    <3>1. op.subject \in Task /\ Present(op.subject) /\ rows[op.subject].kind = "new"
      BY <1>4, <2>2 DEF Reserve, TaskInv, Ahead, Batch, OpType
    <3>. QED
      BY <2>2, <3>1 DEF RowInv, Present, Types, Row
  <2>. QED
    BY <1>4, <2>1, <2>2, ReserveOp
<1>5. ASSUME NEW t \in Task, Commit(t) PROVE RowInv'
  <2>1. Present(t) /\ t \in op.left
    BY <1>5 DEF Commit, TaskInv, Ahead, Batch
  <2>. QED
    BY <1>1, <1>5, <2>1, CommitIs DEF RowInv, Present
<1>6. ASSUME NEW T \in SUBSET Task, Removed(T) PROVE RowInv'
  BY <1>6, RemovedIs DEF RowInv, Present
<1>7. CASE TableEdits
  <2>1. ASSUME NEW t \in Task, Pause(t) PROVE RowInv'
    BY <2>1 DEF Pause, RowInv, Present, Types, Row
  <2>2. ASSUME NEW t \in Task, Delete(t) PROVE RowInv'
    BY <1>6, <2>2 DEF Delete
  <2>3. ASSUME NEW t \in Task, NEW k \in Kinds, NEW s \in Session \cup {None}, Retarget(t, k, s)
        PROVE  RowInv'
    BY <2>3, RetargetIs DEF RowInv, Present
  <2>4. ASSUME NEW t \in Task, NEW k \in Kinds, NEW s \in Session \cup {None},
               NEW at \in 1 .. MaxTime, CreateTask(t, k, s, at)
        PROVE  RowInv'
    <3>1. rows'[t] = NewRow("active", k, s, at) /\ \A u \in Task \ {t} : rows'[u] = rows[u]
      BY <2>4 DEF CreateTask, Types
    <3>2. k = "new" <=> s = None
      BY <2>4, TaskAssumption DEF CreateTask, ValidTarget
    <3>. QED
      BY <3>1, <3>2 DEF NewRow, RowInv, Present
  <2>5. ASSUME NEW t \in Task, NEW at \in 1 .. MaxTime + Every, NEW resume \in BOOLEAN,
               Rearm(t, at, resume)
        PROVE  RowInv'
    <3>1. Present(t)
      BY <2>5 DEF Rearm
    <3>. QED
      BY <2>5, <3>1, RearmIs DEF RowInv, Present
  <2>6. CASE DeleteInactive
    <3>1. {t \in Task : rows[t].status = "ended"} \in SUBSET Task
      OBVIOUS
    <3>. QED
      BY <1>6, <2>6, <3>1 DEF DeleteInactive
  <2>7. ASSUME NEW s \in Session, StopSessionTasks(s) PROVE RowInv'
    <3>1. ActiveSessionTasks(s) \in SUBSET Task
      BY DEF ActiveSessionTasks
    <3>2. Removed(ActiveSessionTasks(s)) \/ UNCHANGED rows
      BY <2>7 DEF StopSessionTasks
    <3>. QED
      BY <1>1, <1>6, <3>1, <3>2
  <2>. QED
    BY <1>7, <2>1, <2>2, <2>3, <2>4, <2>5, <2>6, <2>7 DEF TableEdits
<1>. QED
  BY Steps, <1>2, <1>3, <1>4, <1>5, <1>7

\* Between the groups of a drive there is nothing but what is due.
LEMMA FlowAtRest ==
  ASSUME op'.pc \in {"none", "pick"}, op'.group = {}, op'.candidates = {}
  PROVE  FlowInv'
BY DEF FlowInv, Looking, Facing, Sending

LEMMA TaskAtRest ==
  ASSUME op'.pc \in {"none", "pick"}, op'.group = {},
         \A t \in op'.due : rows'[t].status = "active"
  PROVE  TaskInv'
BY DEF TaskInv, Resolved, Sending, Ahead, Batch, Present, Active

\* Messages leave for a turn or with a queue, but inboxes stay.
LEMMA AsideExists ==
  ASSUME TypeOK, StoreInv, Asides, NEW s \in Session
  PROVE  inbox'[s] # None <=> Exists(s)
<1>1. CASE StoreStill
  BY <1>1 DEF StoreStill, Exists
<1>2. ASSUME NEW x \in Session, Takes(x) PROVE inbox'[s] # None <=> Exists(s)
  BY <1>2, InboxIs DEF Takes, Splice, Exists, StoreInv
<1>. QED
  BY <1>1, <1>2 DEF Asides

LEMMA FlowStep ==
  ASSUME TypeOK, TypeOK', StoreInv, FlowInv, [Next]_vars
  PROVE  FlowInv'
<1>. USE TypeSplit
<1>0. op \in OpType /\ op' \in OpType
  OBVIOUS
<1>1. CASE Asides
  <2>1. /\ op'.pc = op.pc /\ op'.due = op.due /\ op'.group = op.group
        /\ op'.candidates = op.candidates /\ op'.unchecked = op.unchecked
        /\ op'.subject = op.subject /\ op'.session = op.session
        /\ op'.message = op.message /\ op'.left = op.left
    BY <1>0, <1>1, SameOpIs DEF Asides
  <2>2. UNCHANGED <<rows, sent>>
    BY <1>1 DEF Asides
  <2>3. op.pc = "create" => inbox'[op'.session] = None
    <3>1. op.pc = "create" => op.session \in Session /\ ~Exists(op.session)
      BY DEF FlowInv, Facing
    <3>. QED
      BY <1>1, <2>1, <3>1, AsideExists
  <2>. QED
    BY <2>1, <2>2, <2>3 DEF FlowInv, Message, Exists
<1>2. CASE TableEdits
  BY <1>2, EditMoves, RestIs, FlowAtRest DEF Edited
<1>3. CASE BeginDrive
  BY <1>3, BeginOp, FlowAtRest
<1>4. ASSUME NEW t \in Task, RunNow(t) PROVE FlowInv'
  BY <1>4, RunOp DEF FlowInv, Looking, Facing, Sending
<1>5. ASSUME NEW t \in Task, Pick(t) PROVE FlowInv'
  BY <1>5, PickOp DEF FlowInv, Looking, Facing, Sending
<1>6. CASE op' = Proceed
  BY <1>0, <1>6, ProceedIs, FlowAtRest
<1>7. ASSUME NEW t \in Task, Check(t) PROVE FlowInv'
  <2>1. UNCHANGED rows /\ op.unchecked \cup op.candidates \subseteq op.group
    BY <1>7 DEF Check, FlowInv, Looking
  <2>2. /\ op'.due \cap op'.group = {} /\ op'.unchecked \cup op'.candidates \subseteq op'.group
    BY <1>7, CheckOp DEF FlowInv
  <2>3. \/ op'.pc = "check"
        \/ /\ op'.pc = "restore" /\ op'.subject \in op'.group
           /\ rows[op'.subject].last # None /\ op'.session = rows[op'.subject].last.session
           /\ op'.session \in Session
    BY <1>7, <2>1, CheckOp
  <2>. QED
    BY <2>1, <2>2, <2>3 DEF FlowInv, Looking, Facing, Sending
<1>8. CASE Restored
  <2>1. UNCHANGED rows
    BY <1>8 DEF Restored
  <2>. QED
    BY <1>8, <2>1, RestoredOp DEF FlowInv, Looking, Facing, Sending
<1>9. CASE Requeued
  <2>1. CASE op' # Proceed
    BY <1>9, <2>1, RequeuedOp DEF FlowInv, Looking, Facing, Sending
  <2>. QED
    BY <1>6, <2>1
<1>10. CASE Admit
  <2>1. CASE op' # Proceed
    BY <1>10, <2>1, AdmitOp DEF FlowInv, Looking, Facing, Sending
  <2>. QED
    BY <1>6, <2>1
<1>11. CASE Reserve
  <2>1. CASE op' # Proceed
    <3>1. inbox'[op'.session] = None
      BY <1>11, <2>1, ReserveOp DEF Reserve, logVars, Unused, Exists
    <3>. QED
      BY <1>11, <2>1, <3>1, ReserveOp DEF FlowInv, Looking, Facing, Sending, Exists
  <2>. QED
    BY <1>6, <2>1
<1>12. CASE Open
  <2>1. CASE op' # Proceed
    <3>1. op'.pc = "create" => inbox'[op'.session] = None
      BY <1>12, <2>1, OpenOp DEF Open, Exists
    <3>. QED
      BY <1>12, <2>1, <3>1, OpenOp DEF FlowInv, Looking, Facing, Sending, Exists
  <2>. QED
    BY <1>6, <2>1
<1>13. CASE Create
  <2>1. CASE op' # Proceed
    BY <1>13, <2>1, CreateOp DEF FlowInv, Looking, Facing, Sending
  <2>. QED
    BY <1>6, <2>1
<1>14. CASE Send
  <2>1. CASE op' # Proceed
    <3>1. sent' = sent + 1 /\ op'.message = sent + 1 /\ op'.message <= sent' /\ op'.message \in Message
      BY <1>14, <2>1, SendOp DEF Types
    <3>. QED
      BY <1>14, <2>1, <3>1, SendOp DEF FlowInv, Looking, Facing, Sending, Message
  <2>. QED
    BY <1>6, <2>1
<1>15. CASE Flush
  <2>1. CASE op' # Proceed
    <3>1. sent' = sent
      BY <1>15 DEF Flush, history
    <3>. QED
      BY <1>15, <2>1, <3>1, FlushOp DEF FlowInv, Looking, Facing, Sending, Message
  <2>. QED
    BY <1>6, <2>1
<1>16. ASSUME NEW t \in Task, Commit(t) PROVE FlowInv'
  <2>1. CASE op' # Proceed
    <3>1. sent' = sent
      BY <1>16 DEF Commit
    <3>. QED
      BY <1>16, <2>1, <3>1, CommitOp DEF FlowInv, Looking, Facing, Sending, Message
  <2>. QED
    BY <1>6, <2>1
<1>17. CASE EndDrive \/ Crash
  BY <1>17, RestIs, FlowAtRest DEF EndDrive, Crash
<1>. QED
  BY Steps, <1>1, <1>2, <1>3, <1>4, <1>5, <1>7, <1>8, <1>9, <1>10, <1>11, <1>12, <1>13, <1>14,
     <1>15, <1>16, <1>17

\* Deliveries to "new" targets are alone in their group, and a task that names its
\* session has no reservation.
LEMMA TaskStep ==
  ASSUME TypeOK, TypeOK', StoreInv, RowInv, FlowInv, TaskInv, [Next]_vars
  PROVE  TaskInv'
<1>. USE TypeSplit
<1>0. op \in OpType /\ op' \in OpType /\ rows \in [Task -> Row] /\ rows' \in [Task -> Row]
  BY DEF Types
<1>1. CASE Asides
  <2>1. /\ op'.pc = op.pc /\ op'.due = op.due /\ op'.group = op.group
        /\ op'.subject = op.subject /\ op'.session = op.session /\ op'.manual = op.manual
        /\ op'.sentAt = op.sentAt /\ op'.left = op.left
    BY <1>0, <1>1, SameOpIs DEF Asides
  <2>2. UNCHANGED rows
    BY <1>1 DEF Asides
  <2>. QED
    BY <2>1, <2>2 DEF TaskInv, Ahead, Batch, Present, Active
<1>2. CASE TableEdits
  BY <1>2, EditMoves, RestIs, TaskAtRest DEF Edited
<1>3. CASE BeginDrive
  <2>1. UNCHANGED rows
    BY <1>3 DEF BeginDrive
  <2>. QED
    BY <1>3, <2>1, BeginOp, TaskAtRest DEF Active
<1>4. ASSUME NEW t \in Task, RunNow(t) PROVE TaskInv'
  <2>1. UNCHANGED rows
    BY <1>4 DEF RunNow
  <2>2. op'.pc = "check" /\ op'.manual = TRUE /\ op'.group = {t} /\ op'.due = {} /\ Present(t)
    BY <1>4, RunOp
  <2>3. Ahead' = {t} /\ Batch' = {t}
    BY <2>2 DEF Ahead, Batch
  <2>. QED
    BY <1>4, <2>1, <2>2, <2>3 DEF TaskInv, Resolved, Sending, Present
<1>5. ASSUME NEW t \in Task, Pick(t) PROVE TaskInv'
  <2>1. UNCHANGED rows
    BY <1>5 DEF Pick
  <2>2. Ahead' \subseteq Ahead
    BY <1>5, PickOp DEF Ahead, Batch
  <2>. QED
    BY <1>5, <2>1, <2>2, PickOp DEF TaskInv, Resolved, Sending, Batch, Present, Active
<1>6. CASE op' = Proceed /\ UNCHANGED rows
  <2>1. \A u \in op'.due : rows'[u].status = "active"
    BY <1>0, <1>6, ProceedIs DEF TaskInv, Ahead, Active
  <2>. QED
    BY <1>0, <1>6, <2>1, ProceedIs, TaskAtRest
<1>7. ASSUME UNCHANGED rows, op'.manual = op.manual, op'.due \subseteq op.due,
             Batch' \subseteq Batch
      PROVE  /\ \A t \in Ahead' : Present(t)' /\ (op'.manual \/ Active(t)')
             /\ \A t, u \in Batch' : t # u => rows'[u].kind = "session"
  <2>1. Ahead' \subseteq Ahead
    BY <1>7 DEF Ahead
  <2>. QED
    BY <1>7, <2>1 DEF TaskInv, Present, Active
<1>8. CASE Restored \/ Requeued \/ \E t \in Task : Check(t)
  <2>1. UNCHANGED rows
    BY <1>8 DEF Restored, Requeued, Check
  <2>2. CASE op' # Proceed
    <3>1. /\ op'.pc \in Looking /\ op.pc \in Looking
          /\ op'.manual = op.manual /\ op'.due = op.due /\ op'.group = op.group
      BY <1>8, <2>2, CheckOp, RestoredOp, RequeuedOp DEF Looking
    <3>2. Batch' \subseteq Batch
      BY <3>1 DEF Batch, Looking
    <3>3. op'.pc # "reserve" /\ op'.pc \notin Resolved /\ op'.pc \notin Sending
      BY <3>1 DEF Looking, Resolved, Sending
    <3>. QED
      BY <1>7, <2>1, <3>1, <3>2, <3>3 DEF TaskInv
  <2>. QED
    BY <1>6, <2>1, <2>2
<1>9. CASE Admit
  <2>1. UNCHANGED rows
    BY <1>9 DEF Admit
  <2>2. CASE op' # Proceed
    <3>. DEFINE first == op'.subject
    <3>1. /\ op'.manual = op.manual /\ op'.due \subseteq op.due /\ op'.group \subseteq op.group
          /\ first \in op'.group /\ op.pc = "check" /\ op'.pc \in {"open", "reserve"}
          /\ op'.pc = "open" => op'.session = Destination(first) /\ op'.session \in Session
          /\ op'.pc = "reserve" => Destination(first) = None
      BY <1>9, <2>2, AdmitOp
    <3>2. Batch' = op'.group /\ Batch = op.group /\ Batch' \subseteq Batch
      BY <3>1 DEF Batch
    <3>3. \A t \in op'.group : t \in Task /\ Present(t)
      BY <1>0, <3>1, <3>2 DEF TaskInv, Ahead, OpType
    <3>4. op'.pc = "reserve" => rows[first].kind = "new" /\ rows[first].reserved = None
      BY <3>1, <3>3 DEF Destination, RowInv
    <3>5. op'.pc = "open" => \A t \in op'.group : rows[t].reserved \in {None, op'.session}
      <4>1. ASSUME NEW t \in op'.group, t # first PROVE rows[t].reserved = None
        BY <3>1, <3>2, <3>3, <4>1 DEF TaskInv, RowInv
      <4>2. op'.pc = "open" => rows[first].reserved \in {None, op'.session}
        BY <3>1, <3>3 DEF Destination, RowInv
      <4>. QED
        BY <4>1, <4>2
    <3>. QED
      BY <1>7, <2>1, <3>1, <3>2, <3>4, <3>5 DEF TaskInv, Resolved, Sending
  <2>. QED
    BY <1>6, <2>1, <2>2
<1>10. CASE Reserve
  <2>1. CASE op' = Proceed /\ UNCHANGED rows
    BY <1>6, <2>1
  <2>2. CASE ~(op' = Proceed /\ UNCHANGED rows)
    <3>. DEFINE first == op.subject
    <3>1. /\ op'.pc = "create" /\ op'.manual = op.manual /\ op'.due = op.due
          /\ op'.group = op.group /\ op.pc = "reserve" /\ first \in op.group
          /\ rows' = [rows EXCEPT ![first].reserved = op'.session]
      BY <1>10, <2>2, ReserveOp
    <3>2. first \in Task /\ rows[first].kind = "new"
      BY <1>0, <3>1 DEF TaskInv, OpType
    <3>3. op.group = {first}
      BY <3>1, <3>2 DEF TaskInv, Batch
    <3>4. /\ \A t \in Task : /\ rows'[t].status = rows[t].status
                             /\ rows'[t].kind = rows[t].kind
          /\ rows'[first].reserved = op'.session
      BY <1>0, <3>1, <3>2 DEF Row
    <3>5. Batch' = {first} /\ Ahead' = Ahead /\ Ahead \subseteq Task
      BY <1>0, <3>1, <3>3 DEF Batch, Ahead, OpType
    <3>6. \A t \in Ahead' : Present(t)' /\ (op'.manual \/ Active(t)')
      BY <3>1, <3>4, <3>5 DEF TaskInv, Present, Active
    <3>. QED
      BY <3>1, <3>4, <3>5, <3>6 DEF TaskInv, Resolved, Sending
  <2>. QED
    BY <2>1, <2>2
<1>11. CASE Open \/ Create \/ Send \/ Flush
  <2>1. UNCHANGED rows
    BY <1>11 DEF Open, Create, Send, Flush
  <2>2. CASE op' # Proceed
    <3>1. /\ op'.manual = op.manual /\ op'.due = op.due /\ Batch' \subseteq Batch
          /\ op'.pc \in Resolved /\ op.pc \in Resolved /\ op'.session = op.session
      BY <1>11, <2>2, OpenOp, CreateOp, SendOp, FlushOp DEF Batch, Resolved, FlowInv, Sending
    <3>2. op'.pc \in Sending => /\ op'.sentAt <= MaxTime
                                /\ op'.manual \/ \A t \in op'.left : rows[t].at <= op'.sentAt
      <4>1. CASE Send
        BY <2>2, <4>1, SendOp, TimeAssumption DEF Types
      <4>2. CASE Flush
        BY <2>2, <4>2, FlushOp DEF TaskInv, Sending
      <4>3. CASE Open \/ Create
        BY <2>2, <4>3, OpenOp, CreateOp DEF Sending
      <4>. QED
        BY <1>11, <4>1, <4>2, <4>3
    <3>3. \A t \in Batch' : rows'[t].reserved \in {None, op'.session}
      BY <2>1, <3>1 DEF TaskInv
    <3>. QED
      BY <1>7, <2>1, <3>1, <3>2, <3>3 DEF TaskInv, Resolved
  <2>. QED
    BY <1>6, <2>1, <2>2
<1>12. ASSUME NEW t \in Task, Commit(t) PROVE TaskInv'
  <2>1. /\ op.pc = "commit" /\ t \in op.left /\ t \notin op.due /\ Batch = op.left
        /\ \A u \in Task \ {t} : rows'[u] = rows[u]
    BY <1>12, CommitOp, CommitIs DEF FlowInv, Sending, Batch
  <2>2. CASE op' = Proceed
    <3>1. \A u \in op'.due : u \in Task /\ rows'[u].status = "active"
      <4>1. op'.due = IF op.manual THEN {} ELSE op.due
        BY <1>0, <2>2, ProceedIs
      <4>2. ~op.manual => \A u \in op.due : rows[u].status = "active"
        BY DEF TaskInv, Ahead, Active
      <4>3. op.due \subseteq Task
        BY <1>0 DEF OpType
      <4>. QED
        BY <2>1, <4>1, <4>2, <4>3
    <3>. QED
      BY <1>0, <2>2, <3>1, ProceedIs, TaskAtRest
  <2>3. CASE op' # Proceed
    <3>1. /\ op'.pc = "commit" /\ op'.manual = op.manual /\ op'.due = op.due
          /\ op'.left = op.left \ {t} /\ op'.session = op.session /\ op'.sentAt = op.sentAt
      BY <1>12, <2>3, CommitOp
    <3>2. Batch' = op.left \ {t} /\ Ahead' = Ahead \ {t} /\ Ahead \subseteq Task
          /\ op.left \subseteq Task
      BY <1>0, <2>1, <3>1 DEF Batch, Ahead, OpType
    <3>3. \A u \in Ahead' : Present(u)' /\ (op'.manual \/ Active(u)')
      BY <2>1, <3>1, <3>2 DEF TaskInv, Present, Active
    <3>4. /\ \A u, v \in Batch' : u # v => rows'[v].kind = "session"
          /\ \A u \in Batch' : rows'[u].reserved \in {None, op'.session}
      BY <2>1, <3>1, <3>2 DEF TaskInv, Resolved
    <3>5. op'.sentAt <= MaxTime /\ (op'.manual \/ \A u \in op'.left : rows'[u].at <= op'.sentAt)
      BY <2>1, <3>1, <3>2 DEF TaskInv, Sending
    <3>. QED
      BY <3>1, <3>3, <3>4, <3>5 DEF TaskInv
  <2>. QED
    BY <2>2, <2>3
<1>13. CASE EndDrive \/ Crash
  BY <1>13, RestIs, TaskAtRest DEF EndDrive, Crash
<1>. QED
  BY Steps, <1>1, <1>2, <1>3, <1>4, <1>5, <1>8, <1>9, <1>10, <1>11, <1>12, <1>13

-----------------------------------------------------------------------------
(* Receipts.                                                                 *)

\* What a crash may leave of a log keeps a message, through every change of it.
LEMMA KeptStep ==
  ASSUME TypeOK, StoreInv, FlowInv, ReceiptInv, [Next]_vars,
         NEW m \in Message, NEW s \in Session, Kept(m, s),
         op.pc = "requeue" /\ m = rows[op.subject].last.message => s = op.session
  PROVE  Kept(m, s)'
<1>. USE TypeSplit
<1>0. /\ op.pc \in Facing => op.session \in Session
      /\ inbox[s] \in tails[s] /\ inbox[s] # None
      /\ m \in inbox[s] \cup consumed \cup requeued
  BY DEF FlowInv, Types, Kept
<1>1. CASE UNCHANGED tails /\ UNCHANGED <<consumed, requeued>>
  BY <1>1 DEF Kept
<1>2. CASE Asides
  <2>1. ASSUME NEW x \in Session, Takes(x) PROVE Kept(m, s)'
    <3>1. PICK box \in SUBSET Message :
            /\ tails' = [tails EXCEPT ![x] = @ \cup {box}]
            /\ consumed' = consumed \cup (inbox[x] \ box) /\ UNCHANGED requeued
      BY <2>1 DEF Takes, Splice
    <3>2. ASSUME NEW b \in tails'[s] PROVE b # None /\ m \in b \cup consumed' \cup requeued
      <4>1. CASE b \in tails[s]
        BY <3>1, <4>1 DEF Kept
      <4>2. CASE b = box /\ s = x
        BY <1>0, <3>1, <4>2, InboxIs
      <4>. QED
        BY <3>1, <3>2, <4>1, <4>2 DEF StoreInv
    <3>. QED
      BY <3>1, <3>2 DEF Kept
  <2>. QED
    BY <1>1, <1>2, <2>1 DEF Asides, StoreStill
<1>3. CASE TableEdits
  BY <1>1, <1>3, EditMoves DEF Edited, StoreStill
<1>4. CASE \/ BeginDrive \/ Admit \/ Reserve \/ Open \/ EndDrive
           \/ \E t \in Task : RunNow(t) \/ Pick(t) \/ Check(t) \/ Commit(t)
  BY <1>1, <1>4 DEF BeginDrive, Admit, Reserve, Open, EndDrive, RunNow, Pick, Check, Commit,
                    logVars, history
<1>5. CASE Restored
  <2>. DEFINE k == rows[op.subject].last.message
  <2>1. UNCHANGED consumed
    BY <1>5 DEF Restored
  <2>2. CASE UNCHANGED tails /\ UNCHANGED requeued
    BY <1>1, <2>1, <2>2
  <2>3. CASE /\ tails' = [tails EXCEPT ![op.session] = @ \cup {inbox[op.session] \ {k},
                                                                inbox[op.session]}]
             /\ requeued' = requeued \cup {k} /\ k \in Waiting(op.session)
    <3>1. op.session \in Session /\ inbox[op.session] \in SUBSET Message
      BY <1>0, <1>5, <2>3 DEF Restored, Facing, Waiting, Exists, Types
    <3>2. ASSUME NEW b \in tails'[s] PROVE b # None /\ m \in b \cup consumed \cup requeued'
      <4>1. CASE b \in tails[s]
        BY <2>3, <4>1 DEF Kept
      <4>2. CASE s = op.session /\ b = inbox[s] \ {k}
        <5>1. b # None
          BY <3>1, <4>2, InboxIs
        <5>. QED
          BY <1>0, <2>3, <4>2, <5>1
      <4>3. CASE s = op.session /\ b = inbox[s]
        BY <1>0, <2>3, <4>3
      <4>. QED
        BY <2>3, <3>1, <3>2, <4>1, <4>2, <4>3 DEF StoreInv
    <3>. QED
      BY <2>1, <3>2 DEF Kept
  <2>. QED
    BY <1>5, <2>2, <2>3 DEF Restored, logVars
<1>6. CASE Requeued
  <2>1. UNCHANGED consumed
    BY <1>6 DEF Requeued
  <2>2. CASE UNCHANGED tails /\ UNCHANGED requeued
    BY <1>1, <2>1, <2>2
  <2>3. CASE Flushed(op.session) /\ requeued' = requeued \ {rows[op.subject].last.message}
    <3>1. op.session \in Session /\ op.pc = "requeue"
      BY <1>0, <1>6 DEF Requeued, Facing
    <3>2. m = rows[op.subject].last.message => m \in Waiting(s) \cup consumed
      BY <3>1 DEF ReceiptInv
    <3>3. m \in inbox[s] \cup consumed \cup requeued'
      BY <1>0, <2>3, <3>2 DEF Waiting, Exists
    <3>4. s # op.session => m # rows[op.subject].last.message /\ tails'[s] = tails[s]
      BY <2>3, <3>1 DEF Flushed, StoreInv
    <3>5. s = op.session => tails'[s] = {inbox[s]}
      BY <2>3, <3>1 DEF Flushed, StoreInv
    <3>6. CASE s = op.session
      BY <1>0, <2>1, <3>3, <3>5, <3>6 DEF Kept
    <3>7. CASE s # op.session
      BY <2>1, <2>3, <3>4, <3>7 DEF Kept
    <3>. QED
      BY <3>6, <3>7
  <2>. QED
    BY <1>6, <2>2, <2>3 DEF Requeued
<1>7. CASE Create
  <2>1. UNCHANGED <<consumed, requeued>> /\ op.session \in Session /\ s # op.session
    BY <1>0, <1>7 DEF Create, history, Facing, FlowInv, Exists
  <2>2. UNCHANGED tails \/ tails' = [tails EXCEPT ![op.session] = @ \cup {{}}]
    BY <1>7 DEF Create, Splice, logVars
  <2>3. tails'[s] = tails[s]
    BY <2>1, <2>2 DEF StoreInv
  <2>. QED
    BY <2>1, <2>3 DEF Kept
<1>8. CASE Send
  <2>1. UNCHANGED <<consumed, requeued>> /\ op.session \in Session
    BY <1>0, <1>8 DEF Send, Facing
  <2>2. CASE UNCHANGED tails
    BY <1>1, <2>1, <2>2
  <2>3. CASE /\ tails' = [tails EXCEPT ![op.session] = @ \cup {inbox[op.session] \cup {sent + 1}}]
             /\ agent[op.session] # "absent" /\ sent + 1 \in Message
    <3>. DEFINE box == inbox[op.session] \cup {sent + 1}
    <3>1. box \in SUBSET Message /\ box # None
      <4>1. box \in SUBSET Message
        BY <2>1, <2>3 DEF StoreInv, Exists
      <4>. QED
        BY <4>1, InboxIs
    <3>2. ASSUME NEW b \in tails'[s] PROVE b # None /\ m \in b \cup consumed \cup requeued
      <4>1. CASE b \in tails[s]
        BY <4>1 DEF Kept
      <4>2. CASE s = op.session /\ b = box
        BY <1>0, <3>1, <4>2
      <4>. QED
        BY <2>1, <2>3, <3>2, <4>1, <4>2 DEF StoreInv
    <3>. QED
      BY <2>1, <3>2 DEF Kept
  <2>. QED
    BY <1>8, <2>2, <2>3 DEF Send, Splice, logVars
<1>9. CASE Flush
  <2>1. UNCHANGED <<consumed, requeued>> /\ op.session \in Session
        /\ (UNCHANGED tails \/ Flushed(op.session))
    BY <1>0, <1>9 DEF Flush, history, Facing
  <2>2. tails'[s] \in {tails[s], {inbox[s]}}
    BY <2>1 DEF Flushed, StoreInv
  <2>. QED
    BY <1>0, <2>1, <2>2 DEF Kept
<1>10. CASE Crash
  <2>1. \E box \in tails[s] : tails'[s] = {box}
    BY <1>10 DEF Crash
  <2>2. UNCHANGED <<consumed, requeued>>
    BY <1>10 DEF Crash, history
  <2>. QED
    BY <2>1, <2>2 DEF Kept
<1>. QED
  BY Steps, <1>2, <1>3, <1>4, <1>5, <1>6, <1>7, <1>8, <1>9, <1>10

\* Beside an operation a message stays in its inbox until a turn takes it.
LEMMA AsideKeeps ==
  ASSUME TypeOK, StoreInv, Asides, NEW m \in Message, NEW s \in Session,
         m \in Waiting(s) \cup consumed
  PROVE  m \in Waiting(s)' \cup consumed'
<1>1. CASE StoreStill
  BY <1>1 DEF StoreStill, Waiting, Exists
<1>2. ASSUME NEW x \in Session, Takes(x) PROVE m \in Waiting(s)' \cup consumed'
  <2>1. PICK box \in SUBSET Message :
          /\ inbox' = [inbox EXCEPT ![x] = box] /\ consumed' = consumed \cup (inbox[x] \ box)
    BY <1>2 DEF Takes, Splice
  <2>2. box # None
    BY InboxIs
  <2>. QED
    BY <2>1, <2>2 DEF Waiting, Exists, StoreInv
<1>. QED
  BY <1>1, <1>2 DEF Asides

\* A receipt stays, or is that of the message that is being committed; an edit may
\* only put a new row in the place of an absent one.
LEMMA LastStep ==
  ASSUME TypeOK, StoreInv, FlowInv, TaskInv, [Next]_vars, NEW t \in Task
  PROVE  \/ rows'[t].last = rows[t].last
         \/ /\ Commit(t) /\ op.pc = "commit"
            /\ rows'[t].last.message = op.message /\ rows'[t].last.session = op.session
            /\ rows'[t].last.delivered = op.ackAt
         \/ rows[t].status = "absent" /\ rows'[t].last = None
<1>. USE TypeSplit
<1>1. CASE UNCHANGED rows
  BY <1>1
<1>2. CASE Asides \/ BeginDrive \/ \E u \in Task : RunNow(u) \/ Pick(u) \/ Check(u)
  BY <1>1, <1>2 DEF Asides, BeginDrive, RunNow, Pick, Check
<1>3. CASE Restored \/ Requeued \/ Admit \/ Open \/ Create \/ Send \/ Flush \/ EndDrive \/ Crash
  BY <1>1, <1>3 DEF Restored, Requeued, Admit, Open, Create, Send, Flush, EndDrive, Crash
<1>4. CASE Reserve
  <2>1. UNCHANGED rows \/ rows' = [rows EXCEPT ![op.subject].reserved = op'.session]
    BY <1>4, ReserveOp
  <2>2. op.subject \in Task
    BY <1>4, ReserveOp DEF Types, OpType
  <2>. QED
    BY <1>1, <2>1, <2>2 DEF Types, Row
<1>5. ASSUME NEW u \in Task, Commit(u)
      PROVE  \/ rows'[t].last = rows[t].last
             \/ /\ u = t /\ op.pc = "commit"
                /\ rows'[t].last.message = op.message /\ rows'[t].last.session = op.session
                /\ rows'[t].last.delivered = op.ackAt
  BY <1>1, <1>5, CommitIs DEF Commit
<1>6. ASSUME NEW T \in SUBSET Task, Removed(T) PROVE rows'[t].last = rows[t].last
  BY <1>6, RemovedIs
<1>7. CASE TableEdits
  <2>1. ASSUME NEW u \in Task, Pause(u) PROVE rows'[t].last = rows[t].last
    BY <2>1 DEF Pause, Types, Row
  <2>2. ASSUME NEW u \in Task, Delete(u) PROVE rows'[t].last = rows[t].last
    BY <1>6, <2>2 DEF Delete
  <2>3. ASSUME NEW u \in Task, NEW k \in Kinds, NEW s \in Session \cup {None}, Retarget(u, k, s)
        PROVE  rows'[t].last = rows[t].last
    BY <2>3, RetargetIs
  <2>4. ASSUME NEW u \in Task, NEW k \in Kinds, NEW s \in Session \cup {None},
               NEW at \in 1 .. MaxTime, CreateTask(u, k, s, at)
        PROVE  \/ rows'[t].last = rows[t].last
               \/ rows[t].status = "absent" /\ rows'[t].last = None
    BY <2>4 DEF CreateTask, NewRow, Types
  <2>5. ASSUME NEW u \in Task, NEW at \in 1 .. MaxTime + Every, NEW resume \in BOOLEAN,
               Rearm(u, at, resume)
        PROVE  rows'[t].last = rows[t].last
    BY <2>5, RearmIs
  <2>6. CASE DeleteInactive
    <3>1. {u \in Task : rows[u].status = "ended"} \in SUBSET Task
      OBVIOUS
    <3>. QED
      BY <1>6, <2>6, <3>1 DEF DeleteInactive
  <2>7. ASSUME NEW s \in Session, StopSessionTasks(s) PROVE rows'[t].last = rows[t].last
    <3>1. ActiveSessionTasks(s) \in SUBSET Task
      BY DEF ActiveSessionTasks
    <3>2. Removed(ActiveSessionTasks(s)) \/ UNCHANGED rows
      BY <2>7 DEF StopSessionTasks
    <3>. QED
      BY <1>1, <1>6, <3>1, <3>2
  <2>. QED
    BY <1>7, <2>1, <2>2, <2>3, <2>4, <2>5, <2>6, <2>7 DEF TableEdits
<1>. QED
  BY Steps, <1>2, <1>3, <1>4, <1>5, <1>7

\* Where an operation comes to a requeue, a flush or a commit from.
LEMMA SendingStep ==
  ASSUME TypeOK, StoreInv, FlowInv, TaskInv, [Next]_vars
  PROVE  /\ sent <= sent'
         /\ op'.pc = "requeue" => \/ Restored
                                  \/ Asides /\ op.pc = "requeue" /\ op'.subject = op.subject
                                            /\ op'.session = op.session
         /\ op'.pc = "flush" => \/ Send
                                \/ Asides /\ op.pc = "flush" /\ op'.message = op.message
                                          /\ op'.session = op.session
         /\ op'.pc = "commit" => \/ Flush
                                 \/ /\ Asides \/ \E t \in Task : Commit(t)
                                    /\ op.pc = "commit" /\ op'.message = op.message
                                    /\ op'.session = op.session
<1>. USE TypeSplit
<1>0. op \in OpType /\ sent \in Int
  BY BoundAssumption DEF Types
<1>1. CASE Asides
  BY <1>0, <1>1, SameOpIs DEF Asides
<1>2. CASE TableEdits
  BY <1>0, <1>2, EditMoves, RestIs DEF Edited
<1>3. CASE BeginDrive \/ \E t \in Task : RunNow(t) \/ Pick(t)
  <2>1. op'.pc \in {"pick", "check"}
    BY <1>3, BeginOp, RunOp, PickOp
  <2>2. sent' = sent
    BY <1>3 DEF BeginDrive, RunNow, Pick, history
  <2>. QED
    BY <1>0, <2>1, <2>2
<1>4. CASE Admit \/ Reserve \/ Open \/ Create \/ Requeued \/ \E t \in Task : Check(t)
  <2>1. op'.pc \in {"none", "pick", "check", "restore", "open", "reserve", "create", "send"}
    BY <1>0, <1>4, AdmitOp, ReserveOp, OpenOp, CreateOp, RequeuedOp, CheckOp, ProceedIs
  <2>2. sent' = sent
    BY <1>4 DEF Admit, Reserve, Open, Create, Requeued, Check, history
  <2>. QED
    BY <1>0, <2>1, <2>2
<1>5. CASE Restored
  <2>1. op'.pc \in {"check", "requeue"} /\ sent' = sent
    BY <1>5, RestoredOp DEF Restored
  <2>. QED
    BY <1>0, <1>5, <2>1
<1>6. CASE Send
  <2>1. op'.pc \in {"none", "pick", "flush"}
    BY <1>0, <1>6, SendOp, ProceedIs
  <2>2. sent' = sent \/ sent' = sent + 1
    BY <1>6 DEF Send
  <2>. QED
    BY <1>0, <1>6, <2>1, <2>2
<1>7. CASE Flush
  <2>1. op'.pc \in {"none", "pick", "commit"} /\ sent' = sent
    BY <1>0, <1>7, FlushOp, ProceedIs DEF Flush, history
  <2>. QED
    BY <1>0, <1>7, <2>1
<1>8. ASSUME NEW t \in Task, Commit(t)
      PROVE  /\ sent' = sent /\ op'.pc # "requeue" /\ op'.pc # "flush"
             /\ op'.pc = "commit" => /\ op.pc = "commit" /\ op'.message = op.message
                                     /\ op'.session = op.session
  BY <1>0, <1>8, CommitOp, ProceedIs DEF Commit
<1>9. CASE EndDrive \/ Crash
  <2>1. op'.pc = "none" /\ sent' = sent
    BY <1>9, RestIs DEF EndDrive, Crash, history
  <2>. QED
    BY <1>0, <2>1
<1>. QED
  BY <1>0, Steps, <1>1, <1>2, <1>3, <1>4, <1>5, <1>6, <1>7, <1>8, <1>9

LEMMA ReceiptStep ==
  ASSUME TypeOK, TypeOK', StoreInv, FlowInv, TaskInv, ReceiptInv, [Next]_vars
  PROVE  ReceiptInv'
<1>. USE TypeSplit
<1>. DEFINE KeptNow(m, s) == \A box \in tails'[s] : box # None
                                                  /\ m \in box \cup consumed' \cup requeued'
            Now(s) == IF inbox'[s] # None THEN inbox'[s] ELSE {}
<1>0. op \in OpType /\ op' \in OpType /\ sent \in Nat /\ sent' \in Nat /\ sent <= sent'
  BY SendingStep, BoundAssumption DEF Types
<1>1. ASSUME NEW t \in Task, rows[t].last # None
      PROVE  /\ rows[t].last.message \in Nat /\ rows[t].last.message <= sent
             /\ KeptNow(rows[t].last.message, rows[t].last.session)
  <2>. DEFINE m == rows[t].last.message
              s == rows[t].last.session
  <2>1. m \in Message /\ s \in Session
    BY <1>1 DEF Types, Row, Receipt
  <2>2. op.pc = "requeue" /\ m = rows[op.subject].last.message => s = op.session
    BY <1>0, <1>1 DEF ReceiptInv, FlowInv, OpType
  <2>3. m <= sent /\ Kept(m, s)
    BY <1>1 DEF ReceiptInv
  <2>. HIDE DEF m, s, KeptNow
  <2>4. KeptNow(m, s)
    BY <2>1, <2>2, <2>3, KeptStep DEF Kept, KeptNow
  <2>. QED
    BY <2>1, <2>3, <2>4 DEF Message, m, s
<1>2. op.pc = "commit" =>
        /\ op.message \in Message /\ op.session \in Session /\ op.message <= sent
        /\ KeptNow(op.message, op.session)
  <2>. SUFFICES ASSUME op.pc = "commit"
                PROVE  /\ op.message \in Message /\ op.session \in Session /\ op.message <= sent
                       /\ KeptNow(op.message, op.session)
    OBVIOUS
  <2>. DEFINE m == op.message
              s == op.session
  <2>1. m \in Message /\ s \in Session /\ m <= sent /\ Kept(m, s) /\ op.pc # "requeue"
    BY DEF FlowInv, Facing, Sending, ReceiptInv
  <2>. HIDE DEF m, s, KeptNow
  <2>2. KeptNow(m, s)
    BY <2>1, KeptStep DEF Kept, KeptNow
  <2>. QED
    BY <2>1, <2>2 DEF m, s
<1>3. ASSUME NEW t \in Task, rows'[t].last # None
      PROVE  \/ rows'[t].last = rows[t].last
             \/ /\ op.pc = "commit"
                /\ rows'[t].last.message = op.message /\ rows'[t].last.session = op.session
  BY <1>3, LastStep
<1>. HIDE DEF KeptNow
<1>4. ASSUME NEW t \in Task, rows'[t].last # None
      PROVE  /\ rows'[t].last.message <= sent'
             /\ KeptNow(rows'[t].last.message, rows'[t].last.session)
  BY <1>0, <1>1, <1>2, <1>3, <1>4 DEF Message
<1>5. ASSUME NEW t \in Task, NEW u \in Task, rows'[t].last # None, rows'[u].last # None,
             rows'[t].last.message = rows'[u].last.message
      PROVE  rows'[t].last.session = rows'[u].last.session
  <2>1. CASE rows'[t].last = rows[t].last /\ rows'[u].last = rows[u].last
    BY <1>5, <2>1 DEF ReceiptInv
  <2>2. op.pc = "commit" => \A v \in Task :
          rows[v].last # None /\ rows[v].last.message = op.message
            => rows[v].last.session = op.session
    BY DEF ReceiptInv, Sending
  <2>. QED
    BY <1>3, <1>5, <2>1, <2>2
<1>6. op'.pc = "requeue" =>
        rows'[op'.subject].last.message \in Now(op'.session) \cup consumed'
  <2>1. CASE Restored /\ op'.pc = "requeue"
    <3>1. UNCHANGED <<rows, inbox, consumed>> /\ op'.subject = op.subject
          /\ op'.session = op.session
          /\ rows[op.subject].last.message \in Waiting(op.session)
      BY <1>0, <2>1 DEF Restored, Skip, Consider, logVars, OpType
    <3>. QED
      BY <3>1 DEF Waiting, Exists
  <2>2. CASE /\ Asides /\ op.pc = "requeue" /\ op'.subject = op.subject
             /\ op'.session = op.session
    <3>. DEFINE m == rows[op.subject].last.message
                s == op.session
    <3>1. s \in Session /\ m \in Message /\ m \in Waiting(s) \cup consumed
      BY <1>0, <2>2 DEF FlowInv, Facing, ReceiptInv, Types, OpType, Row, Receipt
    <3>2. UNCHANGED rows
      BY <2>2 DEF Asides
    <3>. HIDE DEF m, s
    <3>3. m \in Now(s) \cup consumed'
      BY <2>2, <3>1, AsideKeeps DEF Waiting, Exists
    <3>. QED
      BY <2>2, <3>2, <3>3 DEF m, s
  <2>. QED
    BY <2>1, <2>2, SendingStep
<1>7. op'.pc = "flush" => op'.message \in Now(op'.session) \cup consumed'
  <2>1. CASE Send /\ op'.pc = "flush"
    <3>1. /\ op'.session = op.session /\ op'.message = sent + 1 /\ sent + 1 \in Message
          /\ inbox' = [inbox EXCEPT ![op.session] = @ \cup {sent + 1}]
          /\ agent[op.session] # "absent" /\ op.session \in Session
      <4>1. op' # Proceed /\ op.session \in Session
        BY <1>0, <2>1, ProceedIs DEF Send, FlowInv, Facing
      <4>. QED
        BY <2>1, <4>1, SendOp DEF Send, Splice, Abandon
    <3>2. inbox'[op.session] = inbox[op.session] \cup {sent + 1}
          /\ inbox[op.session] \in SUBSET Message
      BY <3>1 DEF StoreInv, Exists
    <3>3. inbox'[op.session] # None
      BY <3>1, <3>2, InboxIs
    <3>. QED
      BY <3>1, <3>2, <3>3 DEF Waiting, Exists
  <2>2. CASE /\ Asides /\ op.pc = "flush" /\ op'.message = op.message
             /\ op'.session = op.session
    <3>. DEFINE m == op.message
                s == op.session
    <3>1. s \in Session /\ m \in Message /\ m \in Waiting(s) \cup consumed
      BY <2>2 DEF FlowInv, Facing, Sending, ReceiptInv
    <3>. HIDE DEF m, s
    <3>3. m \in Now(s) \cup consumed'
      BY <2>2, <3>1, AsideKeeps DEF Waiting, Exists
    <3>. QED
      BY <2>2, <3>3 DEF m, s
  <2>. QED
    BY <2>1, <2>2, SendingStep
<1>8. op'.pc = "commit" => KeptNow(op'.message, op'.session)
  <2>1. CASE Flush /\ op'.pc = "commit"
    <3>1. /\ op'.session = op.session /\ op'.message = op.message /\ op.session \in Session
          /\ agent[op.session] # "absent" /\ tails' = [tails EXCEPT ![op.session] = {inbox[op.session]}]
          /\ UNCHANGED consumed /\ op.message \in Waiting(op.session) \cup consumed
      <4>1. op' # Proceed /\ op.session \in Session
            /\ op.message \in Waiting(op.session) \cup consumed
        BY <1>0, <2>1, ProceedIs DEF Flush, FlowInv, Facing, ReceiptInv
      <4>. QED
        BY <2>1, <4>1, FlushOp DEF Flush, Flushed, Abandon, history
    <3>2. tails'[op.session] = {inbox[op.session]} /\ inbox[op.session] # None
      BY <3>1 DEF StoreInv, Exists
    <3>. QED
      BY <3>1, <3>2 DEF KeptNow, Waiting, Exists
  <2>. QED
    BY <1>2, <2>1, SendingStep
<1>9. op'.pc \in Sending => \A t \in Task :
        rows'[t].last # None /\ rows'[t].last.message = op'.message
          => rows'[t].last.session = op'.session
  <2>. SUFFICES ASSUME op'.pc \in Sending, NEW t \in Task, rows'[t].last # None,
                       rows'[t].last.message = op'.message
                PROVE  rows'[t].last.session = op'.session
    OBVIOUS
  <2>1. CASE Send
    <3>1. op'.message = sent + 1 /\ op.pc # "commit"
      BY <1>0, <2>1, SendOp, ProceedIs DEF Sending
    <3>. QED
      BY <1>0, <1>1, <1>3, <3>1
  <2>2. CASE /\ op.pc \in Sending /\ op'.message = op.message /\ op'.session = op.session
    BY <1>3, <2>2 DEF ReceiptInv
  <2>3. CASE Flush
    BY <1>0, <2>2, <2>3, FlushOp, ProceedIs DEF Sending
  <2>. QED
    BY <2>1, <2>2, <2>3, SendingStep DEF Sending
<1>. QED
  BY <1>4, <1>5, <1>6, <1>7, <1>8, <1>9 DEF ReceiptInv, Kept, KeptNow, Waiting, Exists

-----------------------------------------------------------------------------
(* The inductive invariant.                                                  *)

IInv == TypeOK /\ StoreInv /\ RowInv /\ FlowInv /\ TaskInv /\ ReceiptInv

LEMMA IInvInit == Init => IInv
<1>. SUFFICES ASSUME Init PROVE IInv
  OBVIOUS
<1>1. TypeOK
  BY TypeInit
<1>2. StoreInv
  BY ConfigAssumption DEF Init, StoreInv
<1>3. RowInv
  BY ConfigAssumption, TaskAssumption DEF Init, InitialRows, NewRow, Present, RowInv
<1>4. FlowInv /\ TaskInv
  BY RestIs DEF Init, FlowInv, TaskInv, Looking, Facing, Sending, Resolved, Ahead, Batch
<1>5. ReceiptInv
  <2>1. \A t \in Task : rows[t].last = None
    BY DEF Init, InitialRows, NewRow
  <2>. QED
    BY <2>1, RestIs DEF Init, ReceiptInv, Sending
<1>. QED
  BY <1>1, <1>2, <1>3, <1>4, <1>5 DEF IInv

LEMMA IInvStep == IInv /\ [Next]_vars => IInv'
<1>. SUFFICES ASSUME IInv, [Next]_vars PROVE IInv'
  OBVIOUS
<1>1. TypeOK /\ StoreInv /\ RowInv /\ FlowInv /\ TaskInv /\ ReceiptInv
  BY DEF IInv
<1>2. TypeOK'
  BY <1>1, TypeStep
<1>3. StoreInv' /\ RowInv' /\ FlowInv' /\ TaskInv' /\ ReceiptInv'
  BY <1>1, <1>2, StoreStep, RowStep, FlowStep, TaskStep, ReceiptStep
<1>. QED
  BY <1>2, <1>3 DEF IInv

LEMMA IInvAlways == Spec => []IInv
BY IInvInit, IInvStep, PTL DEF Spec

\* A row of the table has its type in every state, and so has the operation, whatever
\* edits, agents, faults and crashes come between its steps (runtime.ts, index.ts).
THEOREM TypeCorrect == Spec => []TypeOK
<1>1. IInv => TypeOK
  BY DEF IInv
<1>. QED
  BY <1>1, IInvAlways, PTL

\* A receipt in the table names a reminder that waits in its session, or that a turn
\* has taken or a disposal discarded, and no crash undoes that, except while the
\* reminder is being requeued (runtime.ts send, commit, recoverOutstandingExecution).
THEOREM ReceiptCorrect == Spec => []ReceiptIsDurable
<1>1. ASSUME IInv PROVE ReceiptIsDurable
  <2>. SUFFICES ASSUME NEW t \in Task, rows[t].last # None
                PROVE  rows[t].last.message \in Waiting(rows[t].last.session)
                                                \cup consumed \cup requeued
    BY DEF ReceiptIsDurable
  <2>1. rows[t].last.session \in Session
    BY <1>1, ReceiptExists DEF IInv
  <2>2. inbox[rows[t].last.session] \in tails[rows[t].last.session]
    BY <1>1, <2>1, TypeSplit DEF IInv, Types
  <2>3. Kept(rows[t].last.message, rows[t].last.session)
    BY <1>1 DEF IInv, ReceiptInv
  <2>. QED
    BY <2>2, <2>3 DEF Kept, Waiting, Exists
<1>. QED
  BY <1>1, IInvAlways, PTL

-----------------------------------------------------------------------------
(* Edits, archives and reservations.                                         *)

\* A session is stopped, and a row or the fate of a session changes, only here.
LEMMA RowMoves ==
  ASSUME TypeOK, StoreInv, [Next]_vars
  PROVE  \/ /\ UNCHANGED <<rows, fate>>
            /\ \A s \in Session : archive'[s] = "stopped" => archive[s] = "stopped"
         \/ Reserve /\ UNCHANGED archive
         \/ \E t \in Task : Commit(t) /\ UNCHANGED archive
         \/ TableEdits
<1>1. CASE Crash
  BY <1>1 DEF Crash, history
<1>2. CASE BeginDrive \/ EndDrive \/ \E t \in Task : RunNow(t) \/ Pick(t) \/ Check(t)
  BY <1>2 DEF BeginDrive, EndDrive, RunNow, Pick, Check, world, history
<1>3. CASE Restored \/ Requeued \/ Admit \/ Open \/ Create \/ Send \/ Flush
  BY <1>3 DEF Restored, Requeued, Admit, Open, Create, Send, Flush, world, history
<1>4. CASE Reserve \/ \E t \in Task : Commit(t)
  BY <1>4 DEF Reserve, Commit, world
<1>. QED
  BY Steps, <1>1, <1>2, <1>3, <1>4 DEF Asides

\* A task that is removed is deleted, and the others stay.
LEMMA StopIs ==
  ASSUME TypeOK, NEW s \in Session, StopSessionTasks(s)
  PROVE  \/ UNCHANGED <<rows, fate>> /\ \A x \in Session : archive'[x] = "stopped" => archive[x] = "stopped"
         \/ /\ ActiveSessionTasks(s) \in SUBSET Task /\ Removed(ActiveSessionTasks(s))
            /\ archive' = [archive EXCEPT ![s] = "stopped"]
<1>1. ActiveSessionTasks(s) \in SUBSET Task
  BY DEF ActiveSessionTasks
<1>. QED
  BY <1>1, TypeSplit DEF StopSessionTasks, Types, history

LEMMA ClearIs ==
  ASSUME DeleteInactive
  PROVE  \E T \in SUBSET Task : Removed(T)
<1>1. {t \in Task : rows[t].status = "ended"} \in SUBSET Task
  OBVIOUS
<1>. QED
  BY <1>1 DEF DeleteInactive

LEMMA EditsStandStep ==
  ASSUME IInv, [Next]_vars, NEW t \in Task
  PROVE  /\ rows[t].status = "deleted" => rows'[t].status = "deleted"
         /\ rows[t].status \in {"paused", "ended"} /\ rows'[t].status = "active"
              => edits' > edits
<1>. DEFINE Goal == /\ rows[t].status = "deleted" => rows'[t].status = "deleted"
                    /\ rows[t].status \in {"paused", "ended"} /\ rows'[t].status = "active"
                         => edits' > edits
<1>0. TypeOK /\ StoreInv /\ FlowInv /\ TaskInv /\ edits \in Int /\ rows \in [Task -> Row]
      /\ op \in OpType
  BY TypeSplit, BoundAssumption DEF IInv, Types
<1>1. CASE rows'[t] = rows[t]
  BY <1>1
<1>2. CASE Reserve
  <2>1. UNCHANGED rows \/ rows' = [rows EXCEPT ![op.subject].reserved = op'.session]
    BY <1>0, <1>2, ReserveOp
  <2>2. rows'[t].status = rows[t].status
    BY <1>0, <2>1 DEF Row
  <2>. QED
    BY <2>2
<1>3. ASSUME NEW u \in Task, Commit(u) PROVE Goal
  <2>1. Present(u) /\ (op.manual \/ Active(u))
    BY <1>0, <1>3 DEF Commit, TaskInv, Ahead, Batch
  <2>. QED
    BY <1>0, <1>1, <1>3, <2>1, CommitIs DEF Present, Active
<1>4. ASSUME NEW T \in SUBSET Task, Removed(T) PROVE Goal
  BY <1>0, <1>4, RemovedIs
<1>5. CASE TableEdits
  <2>1. ASSUME NEW u \in Task, Pause(u) PROVE Goal
    BY <1>0, <2>1 DEF Pause, Present, Row
  <2>2. ASSUME NEW u \in Task, Delete(u) PROVE Goal
    BY <1>4, <2>2 DEF Delete
  <2>3. ASSUME NEW u \in Task, NEW k \in Kinds, NEW s \in Session \cup {None}, Retarget(u, k, s)
        PROVE  Goal
    BY <1>0, <2>3, RetargetIs
  <2>4. ASSUME NEW u \in Task, NEW k \in Kinds, NEW s \in Session \cup {None},
               NEW at \in 1 .. MaxTime, CreateTask(u, k, s, at)
        PROVE  Goal
    BY <1>0, <2>4 DEF CreateTask, NewRow
  <2>5. ASSUME NEW u \in Task, NEW at \in 1 .. MaxTime + Every, NEW resume \in BOOLEAN,
               Rearm(u, at, resume)
        PROVE  Goal
    <3>1. Present(u) /\ edits' = edits + 1
      BY <2>5 DEF Rearm, Edit
    <3>. QED
      BY <1>0, <2>5, <3>1, RearmIs DEF Present
  <2>6. CASE DeleteInactive
    BY <1>4, <2>6, ClearIs
  <2>7. ASSUME NEW s \in Session, StopSessionTasks(s) PROVE Goal
    BY <1>0, <1>4, <2>7, StopIs
  <2>. QED
    BY <1>5, <2>1, <2>2, <2>3, <2>4, <2>5, <2>6, <2>7 DEF TableEdits
<1>. QED
  BY <1>0, <1>2, <1>3, <1>5, RowMoves

\* An edit is not undone by a delivery that began before it: deleted stays deleted,
\* and only an edit arms a task that is paused or ended (index.ts serialize;
\* runtime.ts commit writes whole rows).
THEOREM EditsCorrect == Spec => EditsStand
<1>. DEFINE Stand == \A t \in Task :
       /\ rows[t].status = "deleted" => rows'[t].status = "deleted"
       /\ rows[t].status \in {"paused", "ended"} /\ rows'[t].status = "active" => edits' > edits
<1>1. IInv /\ [Next]_vars => [Stand]_vars
  BY EditsStandStep
<1>. QED
  BY <1>1, IInvAlways, PTL DEF Spec, EditsStand

\* Edits arm no task for an archived session; deliveries arm none that was not armed.
LEMMA StoppedStep ==
  ASSUME IInv, StoppedStaysUnarmed, [Next]_vars
  PROVE  StoppedStaysUnarmed'
<1>. DEFINE Armed(t, x) == rows[t].status = "active" /\ rows[t].kind # "new"
                           /\ rows[t].session = x
            ArmedNow(t, x) == rows'[t].status = "active" /\ rows'[t].kind # "new"
                              /\ rows'[t].session = x
            Goal(x, t) == archive'[x] = "stopped" => ~ArmedNow(t, x)
<1>0. /\ TypeOK /\ StoreInv /\ RowInv /\ FlowInv /\ TaskInv /\ rows \in [Task -> Row]
      /\ op \in OpType /\ archive \in [Session -> {"open", "asked", "archived", "stopping", "stopped"}]
  BY TypeSplit DEF IInv, Types
<1>. SUFFICES ASSUME NEW x \in Session, NEW t \in Task PROVE Goal(x, t)
  BY DEF StoppedStaysUnarmed, Active
<1>1. archive[x] = "stopped" => ~Armed(t, x)
  BY DEF StoppedStaysUnarmed, Active
<1>2. CASE rows'[t] = rows[t] /\ (archive'[x] = "stopped" => archive[x] = "stopped")
  BY <1>1, <1>2
<1>3. CASE Reserve /\ UNCHANGED archive
  <2>1. UNCHANGED rows \/ rows' = [rows EXCEPT ![op.subject].reserved = op'.session]
    BY <1>0, <1>3, ReserveOp
  <2>2. /\ rows'[t].status = rows[t].status /\ rows'[t].kind = rows[t].kind
        /\ rows'[t].session = rows[t].session
    BY <1>0, <2>1 DEF Row
  <2>. QED
    BY <1>1, <1>3, <2>2
<1>4. ASSUME NEW u \in Task, Commit(u), UNCHANGED archive PROVE Goal(x, t)
  <2>1. Present(u) /\ (op.manual \/ Active(u))
    BY <1>0, <1>4 DEF Commit, TaskInv, Ahead, Batch
  <2>. QED
    BY <1>0, <1>1, <1>2, <1>4, <2>1, CommitIs DEF Present, Active
<1>5. ASSUME NEW T \in SUBSET Task, Removed(T), UNCHANGED archive PROVE Goal(x, t)
  BY <1>0, <1>1, <1>5, RemovedIs
<1>6. CASE TableEdits
  <2>1. ASSUME NEW u \in Task, Pause(u) PROVE Goal(x, t)
    BY <1>0, <1>1, <2>1 DEF Pause, Present, Row
  <2>2. ASSUME NEW u \in Task, Delete(u) PROVE Goal(x, t)
    BY <1>5, <2>2 DEF Delete
  <2>3. ASSUME NEW u \in Task, NEW k \in Kinds, NEW s \in Session \cup {None}, Retarget(u, k, s)
        PROVE  Goal(x, t)
    <3>1. UNCHANGED archive /\ x # None
      BY <2>3, TaskAssumption DEF Retarget
    <3>. QED
      BY <1>0, <1>1, <2>3, <3>1, RetargetIs DEF Archived
  <2>4. ASSUME NEW u \in Task, NEW k \in Kinds, NEW s \in Session \cup {None},
               NEW at \in 1 .. MaxTime, CreateTask(u, k, s, at)
        PROVE  Goal(x, t)
    <3>1. UNCHANGED archive /\ (k # "new" => ~Archived(s))
      BY <2>4 DEF CreateTask, ValidTarget
    <3>2. /\ \A v \in Task \ {u} : rows'[v] = rows[v]
          /\ rows'[u].kind = k /\ rows'[u].session = s
      BY <1>0, <2>4 DEF CreateTask, NewRow
    <3>. QED
      BY <1>1, <3>1, <3>2 DEF Archived
  <2>5. ASSUME NEW u \in Task, NEW at \in 1 .. MaxTime + Every, NEW resume \in BOOLEAN,
               Rearm(u, at, resume)
        PROVE  Goal(x, t)
    <3>1. UNCHANGED archive /\ (rows[u].kind # "new" => ~Archived(rows[u].session))
      BY <2>5 DEF Rearm, ValidTarget
    <3>. QED
      BY <1>0, <1>1, <2>5, <3>1, RearmIs DEF Archived
  <2>6. CASE DeleteInactive
    BY <1>5, <2>6, ClearIs DEF DeleteInactive
  <2>7. ASSUME NEW s \in Session, StopSessionTasks(s) PROVE Goal(x, t)
    <3>1. CASE UNCHANGED <<rows, fate>> /\ (archive'[x] = "stopped" => archive[x] = "stopped")
      BY <1>2, <3>1
    <3>2. CASE /\ ActiveSessionTasks(s) \in SUBSET Task /\ Removed(ActiveSessionTasks(s))
               /\ archive' = [archive EXCEPT ![s] = "stopped"]
      <4>1. CASE t \in ActiveSessionTasks(s)
        BY <1>0, <3>2, <4>1, RemovedIs
      <4>2. CASE t \notin ActiveSessionTasks(s)
        BY <1>0, <1>1, <3>2, <4>2, RemovedIs DEF ActiveSessionTasks, Active
      <4>. QED
        BY <4>1, <4>2
    <3>. QED
      BY <1>0, <2>7, <3>1, <3>2, StopIs
  <2>. QED
    BY <1>6, <2>1, <2>2, <2>3, <2>4, <2>5, <2>6, <2>7 DEF TableEdits
<1>. QED
  BY <1>0, <1>2, <1>3, <1>4, <1>6, RowMoves

\* An archive that stops the activity of a session leaves no task armed for it, and
\* no queued edit or delivery arms one later (index.ts stopSessionTasks,
\* validateTarget; workspace/index.ts archiveSession).
THEOREM StoppedCorrect == Spec => []StoppedStaysUnarmed
<1>1. Init => StoppedStaysUnarmed
  BY DEF Init, StoppedStaysUnarmed
<1>2. IInv /\ StoppedStaysUnarmed /\ [Next]_vars => StoppedStaysUnarmed'
  BY StoppedStep
<1>. QED
  BY <1>1, <1>2, IInvAlways, PTL DEF Spec

\* Only the delivery that is acknowledged, or an edit, lets a reservation go.
LEMMA ReservationStep ==
  ASSUME IInv, ReservationIsReused, [Next]_vars
  PROVE  ReservationIsReused'
<1>0. /\ TypeOK /\ StoreInv /\ RowInv /\ FlowInv /\ TaskInv /\ rows \in [Task -> Row]
      /\ op \in OpType
      /\ fate \in [Session -> {"none", "reserved", "delivered", "forsaken"}]
  BY TypeSplit DEF IInv, Types
<1>. SUFFICES ASSUME NEW s \in Session, fate'[s] = "reserved"
              PROVE  \E t \in Task : rows'[t].reserved = s
  BY DEF ReservationIsReused
<1>1. fate[s] = "reserved" => \E t \in Task : rows[t].reserved = s
  BY DEF ReservationIsReused
<1>2. s # None
  BY TaskAssumption
<1>3. CASE UNCHANGED <<rows, fate>>
  BY <1>1, <1>3
<1>4. CASE Reserve
  <2>1. CASE /\ op.subject \in Task /\ op.pc = "reserve"
             /\ rows' = [rows EXCEPT ![op.subject].reserved = op'.session]
             /\ fate' = [fate EXCEPT ![op'.session] = "reserved"]
    <3>1. rows[op.subject].reserved = None
      BY <1>0, <2>1 DEF TaskInv
    <3>2. /\ rows'[op.subject].reserved = op'.session
          /\ \A u \in Task \ {op.subject} : rows'[u] = rows[u]
      BY <1>0, <2>1 DEF Row
    <3>. QED
      BY <1>0, <1>1, <1>2, <2>1, <3>1, <3>2
  <2>. QED
    BY <1>0, <1>3, <1>4, <2>1, ReserveOp DEF OpType
<1>5. ASSUME NEW u \in Task, Commit(u) PROVE \E t \in Task : rows'[t].reserved = s
  <2>1. rows[u].reserved \in {None, op.session} /\ op.session \in Session
    BY <1>0, <1>5 DEF Commit, TaskInv, Resolved, Batch, FlowInv, Facing
  <2>2. CASE /\ \A v \in Task \ {u} : rows'[v] = rows[v]
             /\ fate' = [fate EXCEPT ![op.session] = IF @ = "none" THEN @ ELSE "delivered"]
    <3>1. s # op.session /\ fate[s] = "reserved"
      BY <1>0, <2>1, <2>2
    <3>. QED
      BY <1>1, <1>2, <2>1, <2>2, <3>1
  <2>. QED
    BY <1>0, <1>3, <1>5, <2>2, CommitIs
<1>6. ASSUME NEW T \in SUBSET Task, Forsaken(T),
             \A u \in Task \ T : rows'[u].reserved = rows[u].reserved
      PROVE  \E t \in Task : rows'[t].reserved = s
  BY <1>0, <1>1, <1>6, ForsakenIs
<1>7. ASSUME NEW T \in SUBSET Task, Removed(T) PROVE \E t \in Task : rows'[t].reserved = s
  BY <1>0, <1>6, <1>7, RemovedIs
<1>8. CASE TableEdits
  <2>1. ASSUME NEW u \in Task, Pause(u) PROVE \E t \in Task : rows'[t].reserved = s
    <3>1. fate' = fate /\ \A v \in Task : rows'[v].reserved = rows[v].reserved
      BY <1>0, <2>1 DEF Pause, history, Row
    <3>. QED
      BY <1>1, <3>1
  <2>2. ASSUME NEW u \in Task, Delete(u) PROVE \E t \in Task : rows'[t].reserved = s
    BY <1>7, <2>2 DEF Delete
  <2>3. ASSUME NEW u \in Task, NEW k \in Kinds, NEW x \in Session \cup {None}, Retarget(u, k, x)
        PROVE  \E t \in Task : rows'[t].reserved = s
    <3>1. Forsaken({u}) /\ \A v \in Task \ {u} : rows'[v] = rows[v]
      BY <1>0, <2>3, RetargetIs DEF Retarget
    <3>. QED
      BY <1>6, <3>1
  <2>4. ASSUME NEW u \in Task, NEW k \in Kinds, NEW x \in Session \cup {None},
               NEW at \in 1 .. MaxTime, CreateTask(u, k, x, at)
        PROVE  \E t \in Task : rows'[t].reserved = s
    <3>1. rows[u].reserved = None
      BY <1>0, <2>4 DEF CreateTask, RowInv, Present
    <3>2. fate' = fate /\ \A v \in Task \ {u} : rows'[v] = rows[v]
      BY <1>0, <2>4 DEF CreateTask, history
    <3>. QED
      BY <1>1, <1>2, <3>1, <3>2
  <2>5. ASSUME NEW u \in Task, NEW at \in 1 .. MaxTime + Every, NEW resume \in BOOLEAN,
               Rearm(u, at, resume)
        PROVE  \E t \in Task : rows'[t].reserved = s
    <3>. DEFINE T == {v \in {u} : at # rows[u].at}
    <3>1. Forsaken(T) /\ T \in SUBSET Task
      BY <2>5 DEF Rearm
    <3>2. \A v \in Task \ T : rows'[v].reserved = rows[v].reserved
      BY <1>0, <2>5, RearmIs
    <3>. QED
      BY <1>6, <3>1, <3>2
  <2>6. CASE DeleteInactive
    BY <1>7, <2>6, ClearIs
  <2>7. ASSUME NEW x \in Session, StopSessionTasks(x) PROVE \E t \in Task : rows'[t].reserved = s
    BY <1>0, <1>3, <1>7, <2>7, StopIs
  <2>. QED
    BY <1>8, <2>1, <2>2, <2>3, <2>4, <2>5, <2>6, <2>7 DEF TableEdits
<1>. QED
  BY <1>0, <1>3, <1>4, <1>5, <1>8, RowMoves

\* A session reserved for a "new" target is never replaced before a delivery to it is
\* acknowledged or an edit drops it (runtime.ts resolveTarget).
THEOREM ReservationCorrect == Spec => []ReservationIsReused
<1>1. Init => ReservationIsReused
  BY DEF Init, ReservationIsReused
<1>2. IInv /\ ReservationIsReused /\ [Next]_vars => ReservationIsReused'
  BY ReservationStep
<1>. QED
  BY <1>1, <1>2, IInvAlways, PTL DEF Spec

-----------------------------------------------------------------------------
(* Slots.                                                                    *)

Holding == {"requeue", "flush", "commit"}
Watched == UNION {w.tasks : w \in watches}

\* Slots are taken, watched and freed only here.
LEMMA SlotMoves ==
  ASSUME [Next]_vars
  PROVE  \/ UNCHANGED slotVars /\ (op.pc \notin Holding \/ op' = op)
         \/ Restored \/ Requeued \/ Send \/ Flush \/ Crash
         \/ \E t \in Task : Commit(t)
         \/ \E w \in watches : Release(w)
         \/ \E s \in Session : Resolves(s) /\ UNCHANGED executing
<1>1. CASE UNCHANGED vars
  BY <1>1 DEF vars, slotVars
<1>2. CASE BeginDrive \/ EndDrive \/ Admit \/ \E t \in Task : Pick(t) \/ Check(t)
  BY <1>2, RestIs DEF BeginDrive, EndDrive, Admit, Pick, Check, Holding
<1>3. CASE Reserve \/ Open \/ Create
  BY <1>3 DEF Reserve, Open, Create, Holding
<1>4. CASE Management
  <2>1. ASSUME NEW t \in Task,
               \/ Pause(t) \/ Delete(t)
               \/ \E k \in Kinds, s \in Session \cup {None} :
                    Retarget(t, k, s) \/ \E at \in 1 .. MaxTime : CreateTask(t, k, s, at)
               \/ \E at \in 1 .. MaxTime + Every, resume \in BOOLEAN : Rearm(t, at, resume)
        PROVE  UNCHANGED <<op, slotVars>>
    BY <2>1 DEF Pause, Delete, Retarget, CreateTask, Rearm
  <2>2. ASSUME NEW t \in Task, RunNow(t) PROVE UNCHANGED slotVars /\ op.pc \notin Holding
    BY <2>2, RestIs DEF RunNow, Holding
  <2>3. CASE DeleteInactive
    BY <2>3 DEF DeleteInactive
  <2>4. ASSUME NEW s \in Session,
               \/ AskArchive(s) \/ Archive(s) \/ ArchiveAndStop(s)
               \/ StopSessionTasks(s) \/ Unarchive(s)
        PROVE  UNCHANGED <<op, slotVars>>
    BY <2>4 DEF AskArchive, Archive, ArchiveAndStop, StopSessionTasks, Unarchive
  <2>. QED
    BY <1>4, <2>1, <2>2, <2>3, <2>4 DEF Management
<1>5. CASE Agents
  BY <1>5 DEF Agents, Idle, Wake, Dispose, Claim
<1>6. CASE TimerFires \/ ProviderReady \/ Tick \/ RollBack \/ Stop
  BY <1>6 DEF TimerFires, ProviderReady, Tick, RollBack, Stop
<1>. QED
  BY <1>1, <1>2, <1>3, <1>4, <1>5, <1>6 DEF Next, Operation

LEMMA SlotsStep ==
  ASSUME IInv, IInv', SlotsAreWatched, [Next]_vars
  PROVE  SlotsAreWatched'
<1>0. /\ TypeOK /\ FlowInv /\ op \in OpType /\ op' \in OpType /\ executing \subseteq Task
      /\ watches \subseteq [tasks : SUBSET Task, session : Session, done : BOOLEAN]
      /\ op.pc \in Facing => op.session \in Session
  BY TypeSplit DEF IInv, Types, FlowInv
<1>. DEFINE Now == UNION {w.tasks : w \in watches'}
<1>1. executing \subseteq Watched \cup (IF op.pc \in Holding THEN op.held ELSE {})
  BY DEF SlotsAreWatched, Watched, Holding
<1>. SUFFICES executing' \subseteq Now \cup (IF op'.pc \in Holding THEN op'.held ELSE {})
  BY DEF SlotsAreWatched, Holding
<1>2. UNCHANGED watches => Now = Watched
  BY DEF Watched
<1>3. ASSUME NEW T \in SUBSET Task, NEW s \in Session, NEW d \in BOOLEAN, Watch(T, s, d)
      PROVE  Now = Watched \cup T
  BY <1>0, <1>3, WatchTypes DEF Watched
<1>. HIDE DEF Now
<1>4. CASE UNCHANGED slotVars /\ (op.pc \notin Holding \/ op' = op)
  BY <1>1, <1>2, <1>4 DEF slotVars
<1>5. CASE Restored
  <2>. DEFINE holders == Holders(rows[op.subject].last.message)
  <2>1. op.pc = "restore" /\ op.pc \notin Holding /\ op.session \in Session
        /\ holders \in SUBSET Task
    BY <1>0, <1>5 DEF Restored, Holding, Facing, Holders
  <2>2. \/ UNCHANGED slotVars
        \/ executing' = executing \cup holders /\ Watch(holders, op.session, FALSE)
        \/ /\ executing' = executing \cup holders /\ UNCHANGED watches
           /\ op' = [op EXCEPT !.pc = "requeue", !.held = holders, !.idled = FALSE]
    BY <1>5 DEF Restored
  <2>. HIDE DEF holders
  <2>3. CASE UNCHANGED slotVars
    BY <1>1, <1>2, <2>1, <2>3 DEF slotVars
  <2>4. CASE executing' = executing \cup holders /\ Watch(holders, op.session, FALSE)
    <3>1. Now = Watched \cup holders
      BY <1>3, <2>1, <2>4
    <3>. QED
      BY <1>1, <2>1, <2>4, <3>1
  <2>5. CASE /\ executing' = executing \cup holders /\ UNCHANGED watches
             /\ op' = [op EXCEPT !.pc = "requeue", !.held = holders, !.idled = FALSE]
    <3>1. op'.pc = "requeue" /\ op'.held = holders
      BY <1>0, <2>5 DEF OpType
    <3>. QED
      BY <1>1, <1>2, <2>1, <2>5, <3>1 DEF Holding
  <2>. QED
    BY <2>2, <2>3, <2>4, <2>5
<1>6. CASE Requeued
  <2>1. op.pc = "requeue" /\ op.session \in Session /\ op.held \in SUBSET Task
        /\ op.idled \in BOOLEAN
    BY <1>0, <1>6 DEF Requeued, Facing, OpType
  <2>2. CASE Watch(op.held, op.session, op.idled) /\ UNCHANGED executing
    BY <1>1, <1>3, <2>1, <2>2
  <2>3. CASE executing' = executing \ op.held /\ UNCHANGED watches
    BY <1>1, <1>2, <2>3
  <2>. QED
    BY <1>6, <2>2, <2>3 DEF Requeued, FreesHeld
<1>7. CASE Send
  <2>1. op.pc \notin Holding
    BY <1>7 DEF Send, Holding
  <2>2. CASE UNCHANGED slotVars
    BY <1>1, <1>2, <2>1, <2>2 DEF slotVars
  <2>3. CASE /\ op'.pc = "flush" /\ executing' = executing \cup op'.held
             /\ UNCHANGED watches
    BY <1>1, <1>2, <2>1, <2>3 DEF Holding
  <2>4. UNCHANGED slotVars \/ (op'.pc = "flush" /\ UNCHANGED watches)
    BY <1>0, <1>7 DEF Send, OpType
  <2>5. op'.pc = "flush" => executing' = executing \cup op'.held
    BY <1>0, <1>7, SendOp, ProceedIs
  <2>. QED
    BY <2>2, <2>3, <2>4, <2>5
<1>8. CASE Flush
  <2>1. op.pc = "flush" /\ UNCHANGED watches
    BY <1>8 DEF Flush
  <2>2. CASE executing' = executing \ op.held
    BY <1>1, <1>2, <2>1, <2>2
  <2>3. CASE op'.pc = "commit" /\ op'.held = op.held /\ UNCHANGED executing
    BY <1>1, <1>2, <2>1, <2>3 DEF Holding
  <2>4. \/ executing' = executing \ op.held
        \/ op' = [op EXCEPT !.pc = "commit", !.ackAt = now] /\ UNCHANGED executing
    BY <1>8 DEF Flush, FreesHeld
  <2>. QED
    BY <1>0, <2>2, <2>3, <2>4 DEF OpType
<1>9. ASSUME NEW t \in Task, Commit(t)
      PROVE  executing' \subseteq Now \cup (IF op'.pc \in Holding THEN op'.held ELSE {})
  <2>1. op.pc = "commit" /\ op.session \in Session /\ op.held \in SUBSET Task
        /\ op.idled \in BOOLEAN
    BY <1>0, <1>9 DEF Commit, Facing, OpType
  <2>2. ASSUME NEW left \in SUBSET Task, Settle(left)
        PROVE  executing' \subseteq Now \cup (IF op'.pc \in Holding THEN op'.held ELSE {})
    <3>1. Watch(op.held \ left, op.session, op.idled) /\ executing' = executing \ (op.held \cap left)
      BY <2>2 DEF Settle
    <3>2. Now = Watched \cup (op.held \ left)
      BY <1>3, <2>1, <3>1
    <3>. QED
      BY <1>1, <3>1, <3>2
  <2>3. CASE op' = [op EXCEPT !.left = op.left \ {t}] /\ UNCHANGED slotVars
    <3>1. op'.pc = op.pc /\ op'.held = op.held
      BY <1>0, <2>3 DEF OpType
    <3>. QED
      BY <1>1, <1>2, <2>3, <3>1 DEF slotVars
  <2>4. \/ Settle({}) \/ Settle(op.left)
        \/ op' = [op EXCEPT !.left = op.left \ {t}] /\ UNCHANGED slotVars
    BY <1>9 DEF Commit
  <2>5. op.left \in SUBSET Task
    BY <1>0 DEF OpType
  <2>. QED
    BY <2>2, <2>3, <2>4, <2>5
<1>10. ASSUME NEW w \in watches, Release(w)
       PROVE  executing' \subseteq Now \cup (IF op'.pc \in Holding THEN op'.held ELSE {})
  <2>1. /\ watches' = watches \ {w} /\ executing' = executing \ w.tasks /\ op' = op
    BY <1>10 DEF Release
  <2>2. Watched \subseteq Now \cup w.tasks
    BY <2>1 DEF Watched, Now
  <2>. QED
    BY <1>1, <2>1, <2>2
<1>11. ASSUME NEW s \in Session, Resolves(s), UNCHANGED executing
       PROVE  executing' \subseteq Now \cup (IF op'.pc \in Holding THEN op'.held ELSE {})
  <2>1. SameOp
    BY <1>11 DEF Resolves, SameOp
  <2>2. op'.pc = op.pc /\ op'.held = op.held
    BY <1>0, <2>1, SameOpIs
  <2>3. ASSUME NEW w \in watches PROVE w.tasks \subseteq Now
    <3>. DEFINE v == IF w.session = s THEN [w EXCEPT !.done = TRUE] ELSE w
    <3>1. v \in watches'
      BY <1>11 DEF Resolves
    <3>2. v.tasks = w.tasks
      BY <1>0
    <3>. HIDE DEF v
    <3>. QED
      BY <3>1, <3>2 DEF Now
  <2>4. Watched \subseteq Now
    BY <2>3 DEF Watched
  <2>. QED
    BY <1>1, <1>11, <2>2, <2>4
<1>12. CASE Crash
  BY <1>12 DEF Crash
<1>. QED
  BY SlotMoves, <1>4, <1>5, <1>6, <1>7, <1>8, <1>9, <1>10, <1>11, <1>12

\* No slot is held for ever: whatever fails or is cancelled, each belongs to the
\* operation or has a watch that releases it (runtime.ts send, settle, watchExecution,
\* recoverOutstandingExecution).
THEOREM SlotsCorrect == Spec => []SlotsAreWatched
<1>1. Init => SlotsAreWatched
  BY DEF Init, SlotsAreWatched
<1>2. IInv /\ IInv' /\ SlotsAreWatched /\ [Next]_vars => SlotsAreWatched'
  BY SlotsStep
<1>. QED
  BY <1>1, <1>2, IInvAlways, PTL DEF Spec

-----------------------------------------------------------------------------
(* The floor.                                                                *)

\* The tasks whose floor has been looked at.
Cleared ==
  IF op.pc \in {"restore", "requeue"} THEN op.candidates \cup {op.subject}
  ELSE IF op.pc = "check" THEN op.candidates
  ELSE IF op.pc \in {"reserve"} \cup Resolved THEN Batch ELSE {}

\* The clock the operation goes by.
Reading == IF op.pc \in Sending THEN op.sentAt ELSE now

\* A row that never was in the table has no receipt; the floor that was looked at
\* has passed, as long as the clock is not set back.
FloorInv ==
  /\ \A t \in Task : rows[t].status = "absent" => rows[t].last = None
  /\ "rollback" \notin Faults => /\ \A t \in Cleared : NextAdmission(t) <= Reading
                                 /\ op.pc = "flush" => op.sentAt <= now
                                 /\ op.pc = "commit" => op.sentAt <= op.ackAt

LEMMA LookedFloor ==
  ASSUME op \in OpType, NEW t \in Task
  PROVE  /\ Skip(t).pc = "check" /\ Skip(t).candidates = op.candidates
         /\ Consider(t).pc = "check" /\ Consider(t).candidates = op.candidates \cup {t}
BY DEF Skip, Consider, OpType

\* Nothing but a fault sets the clock back.
LEMMA ClockStep ==
  ASSUME TypeOK, [Next]_vars, "rollback" \notin Faults
  PROVE  now \in Nat /\ now' \in {now, now + 1}
<1>1. now \in Nat
  BY TypeSplit, TimeAssumption DEF Types
<1>2. UNCHANGED vars => now' = now
  BY DEF vars, world
<1>3. BeginDrive \/ TimerFires \/ (\E w \in watches : Release(w)) => now' = now
  BY DEF BeginDrive, TimerFires, Release, world
<1>4. Operation => now' = now
  <2>1. EndDrive \/ Restored \/ Requeued \/ (\E t \in Task : Pick(t) \/ Check(t) \/ Commit(t))
          => now' = now
    BY DEF EndDrive, Restored, Requeued, Pick, Check, Commit, world
  <2>2. Admit \/ Reserve \/ Open \/ Create \/ Send \/ Flush => now' = now
    BY DEF Admit, Reserve, Open, Create, Send, Flush, world
  <2>. QED
    BY <2>1, <2>2 DEF Operation
<1>5. Management => now' = now
  <2>1. ASSUME NEW t \in Task,
               \/ RunNow(t) \/ Pause(t) \/ Delete(t)
               \/ \E k \in Kinds, s \in Session \cup {None} :
                    Retarget(t, k, s) \/ \E at \in 1 .. MaxTime : CreateTask(t, k, s, at)
               \/ \E at \in 1 .. MaxTime + Every, resume \in BOOLEAN : Rearm(t, at, resume)
        PROVE  now' = now
    BY <2>1 DEF RunNow, Pause, Delete, Retarget, CreateTask, Rearm
  <2>2. DeleteInactive => now' = now
    BY DEF DeleteInactive
  <2>3. ASSUME NEW s \in Session,
               \/ AskArchive(s) \/ Archive(s) \/ ArchiveAndStop(s)
               \/ StopSessionTasks(s) \/ Unarchive(s)
        PROVE  now' = now
    BY <2>3 DEF AskArchive, Archive, ArchiveAndStop, StopSessionTasks, Unarchive
  <2>. QED
    BY <2>1, <2>2, <2>3 DEF Management
<1>6. Agents => now' = now
  BY DEF Agents, Idle, Wake, Dispose, Claim, world
<1>7. ProviderReady \/ Stop \/ Crash => now' = now
  BY DEF ProviderReady, Stop, Crash
<1>8. ~RollBack /\ (Tick => now' = now + 1)
  BY DEF Tick, RollBack, Fault
<1>. QED
  BY <1>1, <1>2, <1>3, <1>4, <1>5, <1>6, <1>7, <1>8 DEF Next

\* Only a check adds a task, whose floor it has looked at.
LEMMA ClearedStep ==
  ASSUME IInv, IInv', [Next]_vars, "rollback" \notin Faults, NEW t \in Task, t \in Cleared'
  PROVE  \/ /\ t \in Cleared /\ rows'[t].last = rows[t].last /\ rows'[t].at = rows[t].at
            /\ Reading <= Reading'
         \/ /\ NextAdmission(t) <= now /\ UNCHANGED rows /\ now <= Reading'
<1>0. /\ TypeOK /\ StoreInv /\ RowInv /\ FlowInv /\ TaskInv /\ op \in OpType /\ op' \in OpType
      /\ rows \in [Task -> Row] /\ op.sentAt \in Nat
  BY TypeSplit, Instants DEF IInv, Types, OpType
<1>. DEFINE Stays == /\ t \in Cleared /\ rows'[t].last = rows[t].last
                     /\ rows'[t].at = rows[t].at /\ Reading <= Reading'
            Passed == NextAdmission(t) <= now /\ UNCHANGED rows /\ now <= Reading'
<1>1. op'.pc \notin {"none", "pick"}
  BY DEF Cleared, Resolved
<1>2. /\ now \in Nat /\ now' \in Nat /\ now <= now'
      /\ op.pc \notin Sending => Reading = now
      /\ op.pc \in Sending => Reading = op.sentAt
      /\ op'.pc \notin Sending => Reading' = now'
      /\ op'.pc \in Sending => Reading' = op'.sentAt
  BY <1>0, ClockStep DEF Reading
<1>3. CASE Asides
  <2>1. op'.sentAt = op.sentAt
    BY <1>0, <1>3, SameOpIs DEF Asides
  <2>2. Cleared' = Cleared /\ op'.pc = op.pc
    BY <1>0, <1>3, SameOpIs DEF Asides, Cleared, Batch
  <2>3. UNCHANGED rows
    BY <1>3 DEF Asides
  <2>. QED
    BY <1>0, <1>2, <2>1, <2>2, <2>3
<1>4. CASE TableEdits
  BY <1>1, <1>4, EditMoves, RestIs DEF Edited
<1>5. CASE BeginDrive \/ EndDrive \/ Crash \/ \E u \in Task : RunNow(u) \/ Pick(u)
  <2>1. op'.pc = "check" /\ op'.candidates = {}
    BY <1>0, <1>1, <1>5, BeginOp, RunOp, PickOp, RestIs DEF EndDrive, Crash, FlowInv
  <2>. QED
    BY <2>1 DEF Cleared
<1>6. ASSUME NEW u \in Task, Check(u) PROVE Passed \/ Stays
  <2>1. /\ op.pc = "check" /\ UNCHANGED rows /\ op'.pc \in {"check", "restore"}
    BY <1>0, <1>6, CheckOp DEF Check
  <2>2. CASE ~Refuses(u) /\ t = u
    BY <1>2, <2>1, <2>2, <1>0, AdmissionType DEF Refuses, Sending
  <2>3. CASE t \in op.candidates
    BY <1>2, <2>1, <2>3 DEF Cleared, Sending
  <2>4. t \in op.candidates \/ (~Refuses(u) /\ t = u)
    <3>1. CASE op' = Skip(u)
      BY <1>0, <3>1, LookedFloor DEF Cleared
    <3>2. CASE op' = Consider(u) /\ ~Refuses(u)
      BY <1>0, <3>2, LookedFloor DEF Cleared
    <3>3. CASE /\ ~Refuses(u)
               /\ op' = [op EXCEPT !.pc = "restore", !.subject = u,
                                   !.session = rows[u].last.session]
      <4>1. op'.pc = "restore" /\ op'.subject = u /\ op'.candidates = op.candidates
        BY <1>0, <3>3 DEF OpType
      <4>. QED
        BY <3>3, <4>1 DEF Cleared
    <3>. QED
      BY <1>6, <3>1, <3>2, <3>3 DEF Check
  <2>. QED
    BY <2>2, <2>3, <2>4
<1>7. CASE Restored \/ Requeued
  <2>1. op.pc \in {"restore", "requeue"} /\ UNCHANGED rows /\ op.subject \in Task
        /\ Cleared = op.candidates \cup {op.subject}
    BY <1>0, <1>7 DEF Restored, Requeued, FlowInv, OpType, Cleared
  <2>2. \/ op' = Proceed \/ op' = Skip(op.subject) \/ op' = Consider(op.subject)
        \/ op' = [op EXCEPT !.pc = "requeue", !.held = op'.held, !.idled = FALSE]
    <3>1. CASE Restored
      <4>. DEFINE holders == Holders(rows[op.subject].last.message)
      <4>1. \/ op' = Skip(op.subject) \/ op' = Consider(op.subject)
            \/ op' = [op EXCEPT !.pc = "requeue", !.held = holders, !.idled = FALSE]
        BY <3>1 DEF Restored
      <4>. HIDE DEF holders
      <4>. QED
        BY <1>0, <4>1 DEF OpType
    <3>2. CASE Requeued
      BY <3>2 DEF Requeued, Abandon
    <3>. QED
      BY <1>7, <3>1, <3>2
  <2>3. op'.pc \in {"check", "requeue"} /\ Cleared' \subseteq Cleared
    <3>1. CASE op' = Skip(op.subject) \/ op' = Consider(op.subject)
      BY <1>0, <2>1, <3>1, LookedFloor DEF Cleared
    <3>2. CASE op' = [op EXCEPT !.pc = "requeue", !.held = op'.held, !.idled = FALSE]
      <4>1. op'.pc = "requeue" /\ op'.subject = op.subject /\ op'.candidates = op.candidates
        BY <1>0, <3>2 DEF OpType
      <4>. QED
        BY <2>1, <4>1 DEF Cleared
    <3>. QED
      BY <1>0, <1>1, <2>2, <3>1, <3>2, ProceedIs
  <2>. QED
    BY <1>2, <2>1, <2>3 DEF Sending
<1>8. CASE Admit
  <2>. DEFINE admitted == {u \in op.candidates : op.manual \/ rows[u].at <= now}
              first == CHOOSE u \in admitted : TRUE
  <2>1. op.pc = "check" /\ UNCHANGED rows /\ Cleared = op.candidates
    BY <1>8 DEF Admit, Cleared
  <2>2. op' # Proceed
    BY <1>0, <1>1, ProceedIs
  <2>3. op'.group \subseteq op.candidates /\ op'.pc \in {"open", "reserve"}
    <3>1. \/ op' = [Proceed EXCEPT !.pc = "open", !.manual = op.manual, !.group = admitted,
                                   !.subject = first, !.session = Destination(first)]
          \/ op' = [Proceed EXCEPT !.pc = "reserve", !.manual = op.manual, !.group = admitted,
                                   !.subject = first]
      BY <1>8, <2>2 DEF Admit, Abandon
    <3>2. admitted \subseteq op.candidates /\ Proceed \in OpType
      BY <1>0, ProceedIs
    <3>. HIDE DEF admitted, first
    <3>3. op'.group = admitted /\ op'.pc \in {"open", "reserve"}
      BY <3>1, <3>2 DEF OpType
    <3>. QED
      BY <3>2, <3>3
  <2>4. Cleared' = op'.group
    BY <2>3 DEF Cleared, Resolved, Batch
  <2>. QED
    BY <1>2, <2>1, <2>3, <2>4 DEF Sending
<1>9. CASE Reserve
  <2>1. op' # Proceed /\ op.subject \in Task
    BY <1>0, <1>1, <1>9, ProceedIs, ReserveOp DEF OpType
  <2>2. /\ op.pc = "reserve" /\ op'.pc = "create" /\ op'.group = op.group
        /\ rows' = [rows EXCEPT ![op.subject].reserved = op'.session]
    BY <1>0, <1>9, <2>1, ReserveOp
  <2>3. Cleared' = op.group /\ Cleared = op.group
    BY <2>2 DEF Cleared, Resolved, Batch
  <2>4. rows'[t].last = rows[t].last /\ rows'[t].at = rows[t].at
    BY <1>0, <2>1, <2>2 DEF Row
  <2>. QED
    BY <1>2, <2>2, <2>3, <2>4 DEF Sending
<1>10. CASE Open \/ Create \/ Send
  <2>1. op' # Proceed /\ UNCHANGED rows
    BY <1>0, <1>1, <1>10, ProceedIs DEF Open, Create, Send
  <2>2. /\ op.pc \in {"open", "create", "send"} /\ op'.pc \in {"create", "send", "flush"}
        /\ op'.group \subseteq op.group
    BY <1>0, <1>10, <2>1, OpenOp, CreateOp, SendOp
  <2>3. Cleared' \subseteq Cleared
    BY <2>2 DEF Cleared, Resolved, Batch
  <2>4. op'.pc = "flush" => op'.sentAt = now
    BY <1>0, <1>10, <2>1, OpenOp, CreateOp, SendOp
  <2>. QED
    BY <1>2, <2>1, <2>2, <2>3, <2>4 DEF Sending
<1>11. CASE Flush
  <2>1. op' # Proceed /\ UNCHANGED rows
    BY <1>0, <1>1, <1>11, ProceedIs DEF Flush
  <2>2. op.pc = "flush" /\ op'.pc = "commit" /\ op'.left = op.left /\ op.left \subseteq op.group
    BY <1>0, <1>11, <2>1, FlushOp DEF FlowInv, Sending
  <2>3. op'.sentAt = op.sentAt
    BY <1>0, <1>11, <2>1, FlushOp
  <2>4. Cleared' \subseteq Cleared
    BY <2>2 DEF Cleared, Resolved, Batch
  <2>. QED
    BY <1>0, <1>2, <2>1, <2>2, <2>3, <2>4 DEF Sending
<1>12. ASSUME NEW u \in Task, Commit(u) PROVE Stays
  <2>1. op' # Proceed
    BY <1>0, <1>1, ProceedIs
  <2>2. op.pc = "commit" /\ op'.pc = "commit" /\ op'.left = op.left \ {u}
    BY <1>0, <1>12, <2>1, CommitOp
  <2>3. op'.sentAt = op.sentAt
    BY <1>0, <1>12, <2>1, CommitOp
  <2>4. Cleared' = op.left \ {u} /\ Cleared = op.left
    BY <2>2 DEF Cleared, Resolved, Batch
  <2>5. rows'[t] = rows[t]
    BY <1>0, <1>12, <2>4, CommitIs
  <2>. QED
    BY <1>0, <1>2, <2>2, <2>3, <2>4, <2>5 DEF Sending
<1>. QED
  BY <1>0, Steps, <1>3, <1>4, <1>5, <1>6, <1>7, <1>8, <1>9, <1>10, <1>11, <1>12

\* A row never becomes absent.
LEMMA AbsentStep ==
  ASSUME IInv, [Next]_vars, NEW t \in Task, rows'[t].status = "absent"
  PROVE  rows'[t] = rows[t]
<1>0. TypeOK /\ StoreInv /\ RowInv /\ FlowInv /\ TaskInv /\ rows \in [Task -> Row] /\ op \in OpType
  BY TypeSplit DEF IInv, Types
<1>1. CASE UNCHANGED rows
  BY <1>1
<1>2. CASE Reserve
  <2>1. UNCHANGED rows \/ (rows' = [rows EXCEPT ![op.subject].reserved = op'.session]
                           /\ op.subject \in op.group /\ op.pc = "reserve")
    BY <1>0, <1>2, ReserveOp
  <2>2. op.pc = "reserve" /\ op.subject \in op.group => Present(op.subject) /\ op.subject \in Task
    BY <1>0 DEF TaskInv, Ahead, Batch, OpType
  <2>. QED
    BY <1>0, <2>1, <2>2 DEF Present, Row
<1>3. ASSUME NEW u \in Task, Commit(u) PROVE rows'[t] = rows[t]
  <2>1. Present(u)
    BY <1>0, <1>3 DEF Commit, TaskInv, Ahead, Batch
  <2>. QED
    BY <1>0, <1>1, <1>3, <2>1, CommitIs DEF Present
<1>4. ASSUME NEW T \in SUBSET Task, Removed(T) PROVE rows'[t] = rows[t]
  BY <1>0, <1>4, RemovedIs
<1>5. CASE TableEdits
  <2>1. ASSUME NEW u \in Task, Pause(u) PROVE rows'[t] = rows[t]
    BY <1>0, <2>1 DEF Pause, Row
  <2>2. ASSUME NEW u \in Task, Delete(u) PROVE rows'[t] = rows[t]
    BY <1>4, <2>2 DEF Delete
  <2>3. ASSUME NEW u \in Task, NEW k \in Kinds, NEW s \in Session \cup {None}, Retarget(u, k, s)
        PROVE  rows'[t] = rows[t]
    BY <1>0, <2>3, RetargetIs DEF Retarget, Present
  <2>4. ASSUME NEW u \in Task, NEW k \in Kinds, NEW s \in Session \cup {None},
               NEW at \in 1 .. MaxTime, CreateTask(u, k, s, at)
        PROVE  rows'[t] = rows[t]
    BY <1>0, <2>4 DEF CreateTask, NewRow
  <2>5. ASSUME NEW u \in Task, NEW at \in 1 .. MaxTime + Every, NEW resume \in BOOLEAN,
               Rearm(u, at, resume)
        PROVE  rows'[t] = rows[t]
    BY <1>0, <2>5, RearmIs DEF Rearm, Present
  <2>6. CASE DeleteInactive
    BY <1>4, <2>6, ClearIs
  <2>7. ASSUME NEW s \in Session, StopSessionTasks(s) PROVE rows'[t] = rows[t]
    BY <1>0, <1>4, <2>7, StopIs
  <2>. QED
    BY <1>5, <2>1, <2>2, <2>3, <2>4, <2>5, <2>6, <2>7 DEF TableEdits
<1>. QED
  BY <1>0, <1>1, <1>2, <1>3, <1>5, RowMoves

LEMMA FloorStep ==
  ASSUME IInv, IInv', FloorInv, [Next]_vars
  PROVE  FloorInv'
<1>1. \A t \in Task : rows'[t].status = "absent" => rows'[t].last = None
  BY AbsentStep DEF FloorInv
<1>2. ASSUME "rollback" \notin Faults, NEW t \in Task, t \in Cleared'
      PROVE  NextAdmission(t)' <= Reading'
  <2>1. NextAdmission(t) \in Int /\ Reading \in Int /\ Reading' \in Int /\ now \in Int
    <3>1. /\ now \in Nat /\ op.sentAt \in Nat /\ now' \in Nat /\ op'.sentAt \in Nat
          /\ NextAdmission(t) \in Nat
      BY TypeSplit, Instants, TimeAssumption, AdmissionType DEF IInv, Types, OpType
    <3>. QED
      BY <3>1 DEF Reading
  <2>2. CASE /\ t \in Cleared /\ rows'[t].last = rows[t].last /\ rows'[t].at = rows[t].at
             /\ Reading <= Reading'
    <3>1. NextAdmission(t)' = NextAdmission(t)
      BY <2>2 DEF NextAdmission
    <3>. QED
      BY <1>2, <2>1, <2>2, <3>1 DEF FloorInv
  <2>3. CASE NextAdmission(t) <= now /\ UNCHANGED rows /\ now <= Reading'
    <3>1. NextAdmission(t)' = NextAdmission(t)
      BY <2>3 DEF NextAdmission
    <3>. QED
      BY <2>1, <2>3, <3>1
  <2>. QED
    BY <1>2, <2>2, <2>3, ClearedStep
<1>3. ASSUME "rollback" \notin Faults
      PROVE  /\ op'.pc = "flush" => op'.sentAt <= now'
             /\ op'.pc = "commit" => op'.sentAt <= op'.ackAt
  <2>1. /\ TypeOK /\ StoreInv /\ FlowInv /\ TaskInv /\ op \in OpType /\ op' \in OpType
        /\ now \in Nat /\ now' \in {now, now + 1} /\ op.sentAt \in Nat /\ op.ackAt \in Nat
    BY <1>3, TypeSplit, Instants, ClockStep DEF IInv, Types, OpType
  <2>2. CASE Send
    <3>1. op'.pc # "commit" /\ (op'.pc = "flush" => op'.sentAt = now)
      BY <2>1, <2>2, SendOp, ProceedIs
    <3>. QED
      BY <2>1, <3>1
  <2>3. CASE Flush
    <3>1. op.pc = "flush" /\ (op' = Proceed \/ op' = [op EXCEPT !.pc = "commit", !.ackAt = now])
      BY <2>3 DEF Flush, Abandon
    <3>2. op'.pc # "flush" /\ (op'.pc = "commit" => op'.sentAt = op.sentAt /\ op'.ackAt = now)
      BY <2>1, <3>1, ProceedIs DEF OpType
    <3>. QED
      BY <1>3, <2>1, <3>1, <3>2 DEF FloorInv
  <2>4. CASE Asides
    <3>1. op'.pc = op.pc /\ op'.sentAt = op.sentAt /\ op'.ackAt = op.ackAt
      BY <2>1, <2>4 DEF Asides, SameOp, OpType
    <3>. QED
      BY <1>3, <2>1, <3>1 DEF FloorInv
  <2>5. ASSUME NEW t \in Task, Commit(t)
        PROVE  op'.pc # "flush" /\ (op'.pc = "commit" => op'.sentAt <= op'.ackAt)
    <3>1. op.pc = "commit" /\ (op' = Proceed \/ op' = [op EXCEPT !.left = op.left \ {t}])
      BY <2>5 DEF Commit, Abandon
    <3>2. op'.pc # "flush"
          /\ (op'.pc = "commit" => op'.sentAt = op.sentAt /\ op'.ackAt = op.ackAt)
      BY <2>1, <3>1, ProceedIs DEF OpType
    <3>. QED
      BY <1>3, <2>1, <3>1, <3>2 DEF FloorInv
  <2>. QED
    BY <2>1, <2>2, <2>3, <2>4, <2>5, SendingStep
<1>4. Cleared' \subseteq Task
  BY TypeSplit DEF IInv, Types, FlowInv, Cleared, Batch, OpType
<1>. QED
  BY <1>1, <1>2, <1>3, <1>4 DEF FloorInv

LEMMA FloorAlways == Spec => []FloorInv
<1>1. Init => FloorInv
  BY DEF Init, InitialRows, NewRow, FloorInv, Cleared, Resolved, Rest
<1>2. IInv /\ IInv' /\ FloorInv /\ [Next]_vars => FloorInv'
  BY FloorStep
<1>. QED
  BY <1>1, <1>2, IInvAlways, PTL DEF Spec

\* Deliveries of one task, by the timer and by a user, keep the floor, though it is
\* looked at before sessions are restored and messages are flushed, and others are
\* edited, archived or delivered meanwhile (runtime.ts nextAdmissionAt).
THEOREM FloorCorrect == Spec => FloorHolds
<1>. DEFINE Floored == \A t \in Task : LET last == rows[t].last IN
       last # None /\ rows'[t].last # last /\ "rollback" \notin Faults =>
         NextAdmission(t) <= rows'[t].last.delivered
<1>1. IInv /\ FloorInv /\ [Next]_vars => [Floored]_vars
  <2>. SUFFICES ASSUME IInv, FloorInv, [Next]_vars, NEW t \in Task, rows[t].last # None,
                       rows'[t].last # rows[t].last, "rollback" \notin Faults
                PROVE  NextAdmission(t) <= rows'[t].last.delivered
    OBVIOUS
  <2>1. Commit(t) /\ op.pc = "commit" /\ rows'[t].last.delivered = op.ackAt
    BY LastStep DEF IInv, FloorInv
  <2>2. t \in Cleared /\ Reading = op.sentAt
    BY <2>1 DEF Commit, Cleared, Resolved, Batch, Reading, Sending
  <2>3. NextAdmission(t) \in Nat /\ op.sentAt \in Nat /\ op.ackAt \in Nat
    BY TypeSplit, Instants, AdmissionType DEF IInv, Types, OpType
  <2>. QED
    BY <2>1, <2>2, <2>3 DEF FloorInv
<1>. QED
  BY <1>1, IInvAlways, FloorAlways, PTL DEF Spec, FloorHolds

-----------------------------------------------------------------------------
(* Reminders that wait.                                                      *)

\* The messages of a session, whatever a crash leaves of its log.
Traces(s) == UNION (tails[s] \ {None})

\* Such a message is still there or was taken; it is that of one session, and was
\* sent; it is acknowledged once it is sent.
HomeInv ==
  /\ \A s \in Session : Traces(s) \subseteq Waiting(s) \cup consumed
  /\ \A s, x \in Session : \A m \in Traces(s) \cap Traces(x) : s = x
  /\ \A s \in Session : \A m \in Traces(s) : m <= sent
  /\ \A m \in Message : acked[m] # {} => m <= sent
  /\ op.pc \in Sending => \A s \in Session : op.message \in Traces(s) => s = op.session

\* Logs change here.
LEMMA LogMoves ==
  ASSUME TypeOK, StoreInv, FlowInv, [Next]_vars
  PROVE  \/ UNCHANGED <<inbox, tails, consumed>>
         \/ \E s \in Session : Takes(s)
         \/ /\ UNCHANGED <<inbox, consumed>> /\ op.session \in Session
            /\ \E S \in SUBSET ((SUBSET Message) \cup {None}) :
                 /\ tails' = [tails EXCEPT ![op.session] = S]
                 /\ \A box \in S : box \in tails[op.session] \/ box \subseteq Waiting(op.session)
         \/ /\ Create /\ op.session \in Session /\ ~Exists(op.session) /\ UNCHANGED consumed
            /\ Splice(op.session, {})
         \/ /\ Send /\ op.session \in Session /\ Exists(op.session) /\ UNCHANGED consumed
            /\ Splice(op.session, inbox[op.session] \cup {sent + 1}) /\ sent + 1 \in Message
            /\ op'.pc = "flush"
         \/ /\ Crash /\ UNCHANGED consumed
            /\ \A s \in Session : \E box \in tails[s] : tails'[s] = {box} /\ inbox'[s] = box
<1>. USE TypeSplit
<1>0. op \in OpType /\ (op.pc \in Facing => op.session \in Session)
  BY DEF Types, FlowInv
<1>1. CASE Asides \/ TableEdits
  BY <1>1, EditMoves DEF Asides, Edited, StoreStill
<1>2. CASE BeginDrive \/ EndDrive \/ \E t \in Task : RunNow(t) \/ Pick(t) \/ Check(t) \/ Commit(t)
  BY <1>2 DEF BeginDrive, EndDrive, RunNow, Pick, Check, Commit, logVars, history
<1>3. CASE Admit \/ Reserve \/ Open
  BY <1>3 DEF Admit, Reserve, Open, logVars, history
<1>4. CASE Restored
  <2>. DEFINE m == rows[op.subject].last.message
              S == tails[op.session] \cup {inbox[op.session] \ {m}, inbox[op.session]}
  <2>1. UNCHANGED <<inbox, consumed>> /\ op.session \in Session
    BY <1>0, <1>4 DEF Restored, logVars, Facing
  <2>2. CASE UNCHANGED tails
    BY <2>1, <2>2
  <2>3. CASE m \in Waiting(op.session) /\ tails' = [tails EXCEPT ![op.session] = S]
    <3>1. inbox[op.session] \in SUBSET Message /\ Waiting(op.session) = inbox[op.session]
      BY <2>1, <2>3 DEF Waiting, Exists, StoreInv
    <3>2. \A box \in S : box \in tails[op.session] \/ box \subseteq Waiting(op.session)
      BY <3>1
    <3>3. S \in SUBSET ((SUBSET Message) \cup {None})
      <4>1. inbox[op.session] \ {m} \in SUBSET Message
        BY <3>1
      <4>. QED
        BY <2>1, <3>1, <4>1 DEF StoreInv
    <3>. HIDE DEF S
    <3>. QED
      BY <2>1, <2>3, <3>2, <3>3
  <2>. QED
    BY <1>4, <2>2, <2>3 DEF Restored, logVars
<1>5. CASE Requeued \/ Flush
  <2>1. /\ UNCHANGED <<inbox, consumed>> /\ op.session \in Session
        /\ UNCHANGED tails \/ Flushed(op.session)
    BY <1>0, <1>5 DEF Requeued, Flush, history, Facing
  <2>2. CASE Flushed(op.session)
    <3>. DEFINE S == {inbox[op.session]}
    <3>1. S \in SUBSET ((SUBSET Message) \cup {None})
          /\ \A box \in S : box \in tails[op.session] \/ box \subseteq Waiting(op.session)
      BY <2>1 DEF StoreInv, Types
    <3>2. tails' = [tails EXCEPT ![op.session] = S]
      BY <2>2 DEF Flushed
    <3>. HIDE DEF S
    <3>. QED
      BY <2>1, <3>1, <3>2
  <2>. QED
    BY <2>1, <2>2
<1>6. CASE Create
  <2>1. op.session \in Session /\ ~Exists(op.session) /\ UNCHANGED consumed
    BY <1>0, <1>6 DEF Create, history, Facing, FlowInv
  <2>2. Splice(op.session, {}) \/ UNCHANGED logVars
    BY <1>6 DEF Create
  <2>. QED
    BY <1>6, <2>1, <2>2 DEF logVars
<1>7. CASE Send
  <2>1. op.session \in Session /\ UNCHANGED consumed
    BY <1>0, <1>7 DEF Send, Facing
  <2>2. \/ UNCHANGED logVars
        \/ /\ agent[op.session] # "absent" /\ sent + 1 \in Message
           /\ Splice(op.session, inbox[op.session] \cup {sent + 1})
           /\ op'.pc = "flush"
    BY <1>0, <1>7 DEF Send, OpType
  <2>. QED
    BY <1>7, <2>1, <2>2 DEF logVars, StoreInv
<1>8. CASE Crash
  BY <1>8 DEF Crash, history
<1>. QED
  BY Steps, <1>1, <1>2, <1>3, <1>4, <1>5, <1>6, <1>7, <1>8

\* Only sending brings a message to a session; it leaves no trace but in the inbox,
\* before it is taken.
LEMMA TraceStep ==
  ASSUME TypeOK, StoreInv, FlowInv, HomeInv, [Next]_vars,
         NEW s \in Session, NEW m, m \in Traces(s)'
  PROVE  /\ m \in Waiting(s)' \cup consumed'
         /\ m \in Traces(s) \/ (Send /\ s = op.session /\ m = sent + 1 /\ op'.pc = "flush")
<1>0. PICK b \in tails'[s] : b # None /\ m \in b
  BY DEF Traces
<1>1. ASSUME NEW x \in tails[s], x # None, m \in x
      PROVE  m \in Traces(s) /\ m \in Waiting(s) \cup consumed
  BY <1>1 DEF Traces, HomeInv
<1>2. Exists(s) => Waiting(s) = inbox[s] /\ inbox[s] \in tails[s]
  BY TypeSplit DEF Waiting, Exists, Types
<1>3. CASE UNCHANGED <<inbox, tails, consumed>>
  BY <1>0, <1>1, <1>3 DEF Waiting, Exists
<1>4. ASSUME NEW x \in Session, Takes(x)
      PROVE  m \in Waiting(s)' \cup consumed' /\ m \in Traces(s)
  <2>1. PICK box \in SUBSET Message :
          /\ inbox[x] \in SUBSET Message /\ box \subseteq inbox[x]
          /\ inbox' = [inbox EXCEPT ![x] = box]
          /\ tails' = [tails EXCEPT ![x] = @ \cup {box}]
          /\ consumed' = consumed \cup (inbox[x] \ box)
    BY <1>4 DEF Takes, Splice
  <2>2. box # None /\ inbox[x] # None
    BY <2>1, InboxIs
  <2>3. b \in tails[s] \/ (s = x /\ b = box)
    BY <1>0, <2>1 DEF StoreInv
  <2>4. m \in Traces(s) /\ m \in Waiting(s) \cup consumed
    <3>1. CASE b \in tails[s]
      BY <1>0, <1>1, <3>1
    <3>2. CASE s = x /\ b = box
      <4>1. m \in inbox[s] /\ inbox[s] \in tails[s] /\ inbox[s] # None
        BY <1>0, <1>2, <2>1, <2>2, <3>2 DEF Exists
      <4>. QED
        BY <1>1, <4>1
    <3>. QED
      BY <2>3, <3>1, <3>2
  <2>5. m \in Waiting(s)' \cup consumed'
    BY <2>1, <2>2, <2>4 DEF Waiting, Exists, StoreInv
  <2>. QED
    BY <2>4, <2>5
<1>5. ASSUME NEW S \in SUBSET ((SUBSET Message) \cup {None}),
             UNCHANGED <<inbox, consumed>>, op.session \in Session,
             tails' = [tails EXCEPT ![op.session] = S],
             \A box \in S : box \in tails[op.session] \/ box \subseteq Waiting(op.session)
      PROVE  m \in Waiting(s)' \cup consumed' /\ m \in Traces(s)
  <2>1. b \in tails[s] \/ (b \subseteq Waiting(s))
    BY <1>0, <1>5 DEF StoreInv
  <2>2. m \in Traces(s) /\ m \in Waiting(s) \cup consumed
    <3>1. CASE b \in tails[s]
      BY <1>0, <1>1, <3>1
    <3>2. CASE m \in Waiting(s)
      BY <1>1, <1>2, <3>2 DEF Waiting, Exists
    <3>. QED
      BY <1>0, <2>1, <3>1, <3>2
  <2>. QED
    BY <1>5, <2>2 DEF Waiting, Exists
<1>6. ASSUME NEW box \in SUBSET Message, UNCHANGED consumed, op.session \in Session,
             Splice(op.session, box), Waiting(op.session) \subseteq box
      PROVE  /\ m \in Waiting(s)' \cup consumed'
             /\ m \in Traces(s) \/ (s = op.session /\ m \in box \ Waiting(s))
  <2>1. /\ box # None
        /\ inbox' = [inbox EXCEPT ![op.session] = box]
        /\ tails' = [tails EXCEPT ![op.session] = @ \cup {box}]
    BY <1>6, InboxIs DEF Splice
  <2>2. b \in tails[s] \/ (s = op.session /\ b = box)
    BY <1>0, <1>6, <2>1 DEF StoreInv
  <2>3. Waiting(s) \subseteq Waiting(s)' /\ (s = op.session => Waiting(s)' = box)
    BY <1>6, <2>1 DEF Waiting, Exists, StoreInv
  <2>4. m \in Waiting(s) => m \in Traces(s)
    BY <1>1, <1>2 DEF Waiting, Exists
  <2>5. CASE b \in tails[s]
    BY <1>0, <1>1, <1>6, <2>3, <2>5
  <2>6. CASE s = op.session /\ b = box
    BY <1>0, <2>3, <2>4, <2>6
  <2>. QED
    BY <2>2, <2>5, <2>6
<1>7. CASE /\ Create /\ op.session \in Session /\ ~Exists(op.session) /\ UNCHANGED consumed
           /\ Splice(op.session, {})
  <2>1. Waiting(op.session) = {}
    BY <1>7 DEF Waiting
  <2>. QED
    BY <1>6, <1>7, <2>1
<1>8. CASE /\ Send /\ op.session \in Session /\ Exists(op.session) /\ UNCHANGED consumed
           /\ Splice(op.session, inbox[op.session] \cup {sent + 1}) /\ sent + 1 \in Message
           /\ op'.pc = "flush"
  <2>. DEFINE box == inbox[op.session] \cup {sent + 1}
  <2>1. box \in SUBSET Message /\ Waiting(op.session) = inbox[op.session]
    BY <1>8 DEF Waiting, Exists, StoreInv
  <2>. HIDE DEF box
  <2>3. /\ m \in Waiting(s)' \cup consumed'
        /\ m \in Traces(s) \/ (s = op.session /\ m \in box \ Waiting(s))
    BY <1>6, <1>8, <2>1 DEF box
  <2>. QED
    BY <1>8, <2>1, <2>3 DEF box
<1>9. CASE /\ UNCHANGED consumed
           /\ \A x \in Session : \E box \in tails[x] : tails'[x] = {box} /\ inbox'[x] = box
  <2>1. b \in tails[s] /\ inbox'[s] = b
    BY <1>0, <1>9
  <2>2. m \in Waiting(s)'
    BY <1>0, <2>1 DEF Waiting, Exists
  <2>. QED
    BY <1>0, <1>1, <2>1, <2>2
<1>. QED
  BY LogMoves, <1>3, <1>4, <1>5, <1>7, <1>8, <1>9

\* What was taken or passed by stays so, and only a commit acknowledges.
LEMMA HistoryStep ==
  ASSUME TypeOK, StoreInv, FlowInv, [Next]_vars
  PROVE  /\ consumed \subseteq consumed' /\ unseen \subseteq unseen'
         /\ acked' = acked \/ \E t \in Task : Commit(t)
<1>1. consumed \subseteq consumed'
  BY LogMoves DEF Takes
<1>2. UNCHANGED vars \/ BeginDrive \/ TimerFires \/ (\E w \in watches : Release(w))
        => UNCHANGED <<unseen, acked>>
  BY DEF vars, BeginDrive, TimerFires, Release, history
<1>3. EndDrive \/ (\E t \in Task : Pick(t)) \/ Admit \/ Reserve \/ Open \/ Create \/ Send \/ Flush
        => UNCHANGED <<unseen, acked>>
  BY DEF EndDrive, Pick, Admit, Reserve, Open, Create, Send, Flush, history
<1>4. (\E t \in Task : Check(t)) \/ Restored \/ Requeued
        => acked' = acked /\ unseen \subseteq unseen'
  BY DEF Check, Restored, Requeued
<1>5. ASSUME NEW t \in Task, Commit(t) PROVE unseen' = unseen
  BY <1>5 DEF Commit
<1>6. Management => UNCHANGED <<unseen, acked>>
  <2>1. ASSUME NEW t \in Task,
               \/ RunNow(t) \/ Pause(t) \/ Delete(t)
               \/ \E k \in Kinds, s \in Session \cup {None} :
                    Retarget(t, k, s) \/ \E at \in 1 .. MaxTime : CreateTask(t, k, s, at)
               \/ \E at \in 1 .. MaxTime + Every, resume \in BOOLEAN : Rearm(t, at, resume)
        PROVE  UNCHANGED <<unseen, acked>>
    BY <2>1 DEF RunNow, Pause, Delete, Removed, Retarget, CreateTask, Rearm, history
  <2>2. DeleteInactive => UNCHANGED <<unseen, acked>>
    BY DEF DeleteInactive, Removed
  <2>3. ASSUME NEW s \in Session,
               \/ AskArchive(s) \/ Archive(s) \/ ArchiveAndStop(s)
               \/ StopSessionTasks(s) \/ Unarchive(s)
        PROVE  UNCHANGED <<unseen, acked>>
    BY <2>3 DEF AskArchive, Archive, ArchiveAndStop, StopSessionTasks, Removed, Unarchive, history
  <2>. QED
    BY <2>1, <2>2, <2>3 DEF Management
<1>7. Agents => UNCHANGED <<unseen, acked>>
  BY DEF Agents, Idle, Wake, Dispose, Claim, history
<1>8. ProviderReady \/ Tick \/ RollBack \/ Stop \/ Crash => UNCHANGED <<unseen, acked>>
  BY DEF ProviderReady, Tick, RollBack, Stop, Crash, history
<1>. QED
  BY <1>1, <1>2, <1>3, <1>4, <1>5, <1>6, <1>7, <1>8 DEF Next, Operation

\* A commit acknowledges one message for one task, if that holds a slot.
LEMMA AckedStep ==
  ASSUME TypeOK, StoreInv, FlowInv, TaskInv, [Next]_vars,
         NEW t \in Task, NEW m \in Message, t \in acked'[m], t \notin acked[m]
  PROVE  /\ Commit(t) /\ op.pc = "commit" /\ m = op.message
         /\ rows'[t].last \in Receipt
         /\ rows'[t].last.message = m /\ rows'[t].last.session = op.session
<1>1. PICK u \in Task : Commit(u)
  BY HistoryStep
<1>2. acked \in [Message -> SUBSET Task]
  BY TypeSplit DEF Types
<1>3. ~UNCHANGED <<rows, acked, fate>>
  OBVIOUS
<1>4. /\ acked' = [acked EXCEPT ![op.message] = @ \cup ({u} \cap op.held)]
      /\ rows'[u].last \in Receipt
      /\ rows'[u].last.message = op.message /\ rows'[u].last.session = op.session
  BY <1>1, <1>3, CommitIs
<1>5. m = op.message /\ t = u
  BY <1>2, <1>4
<1>. QED
  BY <1>1, <1>4, <1>5 DEF Commit

LEMMA HomeStep ==
  ASSUME IInv, IInv', HomeInv, [Next]_vars
  PROVE  HomeInv'
<1>0. /\ TypeOK /\ StoreInv /\ FlowInv /\ TaskInv /\ op \in OpType /\ op' \in OpType
      /\ sent \in Nat /\ sent <= sent' /\ sent' \in Nat
      /\ acked \in [Message -> SUBSET Task] /\ Message \subseteq Nat
  BY TypeSplit, SendingStep, BoundAssumption DEF IInv, Types, Message
<1>1. ASSUME NEW s \in Session, NEW m, m \in Traces(s)'
      PROVE  /\ m \in Waiting(s)' \cup consumed'
             /\ \/ m \in Traces(s) /\ m <= sent
                \/ /\ Send /\ s = op.session /\ m = sent + 1 /\ sent' = sent + 1
                   /\ op'.pc = "flush"
  <2>1. /\ m \in Waiting(s)' \cup consumed'
        /\ m \in Traces(s) \/ (Send /\ s = op.session /\ m = sent + 1 /\ op'.pc = "flush")
    BY <1>0, <1>1, TraceStep
  <2>2. Send /\ op'.pc = "flush" => sent' = sent + 1
    BY <1>0, SendOp, ProceedIs
  <2>. QED
    BY <2>1, <2>2 DEF HomeInv
<1>2. ASSUME NEW s \in Session, NEW m \in Traces(s) PROVE m \in Nat /\ m <= sent
  BY <1>0, <1>2 DEF HomeInv, Traces, StoreInv
<1>3. \A s \in Session : (Traces(s) \subseteq Waiting(s) \cup consumed)'
  BY <1>1
<1>4. \A s, x \in Session : \A m \in Traces(s)' \cap Traces(x)' : s = x
  <2>. SUFFICES ASSUME NEW s \in Session, NEW x \in Session, NEW m, m \in Traces(s)', m \in Traces(x)'
                PROVE  s = x
    OBVIOUS
  <2>1. m \in Traces(s) \/ (s = op.session /\ m = sent + 1)
    BY <1>1
  <2>2. m \in Traces(x) \/ (x = op.session /\ m = sent + 1)
    BY <1>1
  <2>3. m = sent + 1 => m \notin Traces(s) /\ m \notin Traces(x)
    BY <1>0, <1>2
  <2>. QED
    BY <2>1, <2>2, <2>3 DEF HomeInv
<1>5. \A s \in Session : \A m \in Traces(s)' : m <= sent'
  BY <1>0, <1>1, <1>2
<1>6. \A m \in Message : acked'[m] # {} => m <= sent'
  <2>. SUFFICES ASSUME NEW m \in Message, acked'[m] # {} PROVE m <= sent'
    OBVIOUS
  <2>1. PICK t : t \in acked'[m]
    OBVIOUS
  <2>2. t \in Task
    BY <2>1, TypeSplit DEF IInv, Types
  <2>3. CASE t \in acked[m]
    BY <1>0, <2>3 DEF HomeInv
  <2>4. CASE t \notin acked[m]
    <3>1. op.pc = "commit" /\ m = op.message
      BY <1>0, <2>1, <2>2, <2>4, AckedStep
    <3>. QED
      BY <1>0, <3>1 DEF FlowInv, Sending
  <2>. QED
    BY <2>3, <2>4
<1>7. op'.pc \in Sending => \A s \in Session : op'.message \in Traces(s)' => s = op'.session
  <2>. SUFFICES ASSUME op'.pc \in Sending, NEW s \in Session, op'.message \in Traces(s)'
                PROVE  s = op'.session
    OBVIOUS
  <2>1. CASE Send
    <3>1. op'.message = sent + 1 /\ op'.session = op.session
      BY <1>0, <2>1, SendOp, ProceedIs DEF Sending
    <3>. QED
      BY <1>0, <1>1, <1>2, <3>1
  <2>2. CASE op.pc \in Sending /\ op'.message = op.message /\ op'.session = op.session
    <3>1. op.message # sent + 1
      BY <1>0, <2>2 DEF FlowInv
    <3>. QED
      BY <1>1, <2>2, <3>1 DEF HomeInv
  <2>3. CASE Flush
    BY <1>0, <2>2, <2>3, FlushOp, ProceedIs DEF Sending
  <2>. QED
    BY <1>0, <2>1, <2>2, <2>3, SendingStep DEF Sending
<1>. QED
  BY <1>3, <1>4, <1>5, <1>6, <1>7 DEF HomeInv

LEMMA HomeAlways == Spec => []HomeInv
<1>1. Init => HomeInv
  <2>1. Init => \A s \in Session : Traces(s) = {}
    BY DEF Init, Traces
  <2>. QED
    BY <2>1, RestIs DEF Init, HomeInv, Sending
<1>2. IInv /\ IInv' /\ HomeInv /\ [Next]_vars => HomeInv'
  BY HomeStep
<1>. QED
  BY <1>1, <1>2, IInvAlways, PTL DEF Spec

\* Message m waits in s for t, and no later delivery of t has passed it by.
Owed(t, m, s) == m \in Waiting(s) /\ t \in acked[m] /\ m \notin unseen \cup consumed

\* The tasks whose last delivery has been looked up.
Bare == IF op.pc \in Looking THEN op.candidates ELSE Cleared

\* Such a message is that of the receipt, and the tasks to be delivered have none.
PileInv ==
  /\ \A t \in Task, s \in Session, m \in Message : Owed(t, m, s) =>
       rows[t].last # None /\ rows[t].last.message = m /\ rows[t].last.session = s
  /\ \A t \in Bare, s \in Session, m \in Message : ~Owed(t, m, s)

\* The last delivery of t is not in its inbox, or was passed by.
Passed(t) == \/ rows[t].last = None \/ rows[t].last.message \in unseen'
             \/ rows[t].last.message \notin Waiting(rows[t].last.session)

\* Only a lookup adds a task, and only a commit acknowledges it, which drops it.
LEMMA BareStep ==
  ASSUME IInv, IInv', [Next]_vars, NEW t \in Task, t \in Bare'
  PROVE  /\ \A m \in Message : t \in acked'[m] => t \in acked[m]
         /\ t \in Bare \/ (UNCHANGED rows /\ Passed(t))
<1>0. /\ TypeOK /\ StoreInv /\ RowInv /\ FlowInv /\ TaskInv /\ op \in OpType /\ op' \in OpType
      /\ rows \in [Task -> Row]
  BY TypeSplit DEF IInv, Types
<1>. DEFINE Adds == UNCHANGED rows /\ Passed(t)
<1>1. op'.pc \notin {"none", "pick"}
  BY DEF Bare, Cleared, Resolved, Looking
<1>2. ASSUME NEW m \in Message, t \in acked'[m], t \notin acked[m] PROVE FALSE
  <2>1. Commit(t)
    BY <1>0, <1>2, AckedStep
  <2>2. op'.pc = "commit" /\ op'.left = op.left \ {t}
    BY <1>0, <1>1, <2>1, CommitOp, ProceedIs
  <2>. QED
    BY <2>2 DEF Bare, Looking, Cleared, Resolved, Batch
<1>3. CASE Asides
  <2>1. op'.pc = op.pc /\ op'.candidates = op.candidates /\ Cleared' = Cleared
    BY <1>0, <1>3, SameOpIs DEF Asides, Cleared, Batch
  <2>. QED
    BY <1>2, <2>1 DEF Bare
<1>4. CASE TableEdits
  BY <1>1, <1>4, EditMoves, RestIs DEF Edited
<1>5. CASE BeginDrive \/ EndDrive \/ Crash \/ \E u \in Task : RunNow(u) \/ Pick(u)
  <2>1. op'.pc = "check" /\ op'.candidates = {}
    BY <1>0, <1>1, <1>5, BeginOp, RunOp, PickOp, RestIs DEF EndDrive, Crash, FlowInv
  <2>. QED
    BY <2>1 DEF Bare, Looking
<1>6. ASSUME NEW u \in Task, Check(u) PROVE t \in Bare \/ Adds
  <2>1. op.pc = "check" /\ UNCHANGED rows
    BY <1>6 DEF Check
  <2>2. CASE op' = Skip(u)
    BY <1>0, <2>1, <2>2, LookedFloor DEF Bare, Looking
  <2>3. CASE /\ ~LooksUp(u) /\ op' = Consider(u)
             /\ rows[u].last # None /\ Archived(rows[u].last.session) =>
                  rows[u].last.message \in unseen'
    <3>1. t \in Bare \/ t = u
      BY <1>0, <2>1, <2>3, LookedFloor DEF Bare, Looking
    <3>. QED
      BY <2>1, <2>3, <3>1 DEF LooksUp, Passed
  <2>4. CASE op' = [op EXCEPT !.pc = "restore", !.subject = u,
                              !.session = rows[u].last.session]
    <3>1. op'.pc = "restore" /\ op'.candidates = op.candidates
      BY <1>0, <2>4 DEF OpType
    <3>. QED
      BY <2>1, <3>1 DEF Bare, Looking
  <2>. QED
    BY <1>6, <2>2, <2>3, <2>4 DEF Check
<1>7. CASE Restored \/ Requeued
  <2>. DEFINE u == op.subject
              m == rows[u].last.message
  <2>1. /\ op.pc \in {"restore", "requeue"} /\ UNCHANGED rows /\ u \in Task
        /\ op.session = rows[u].last.session
    BY <1>0, <1>7 DEF Restored, Requeued, FlowInv, OpType
  <2>2. \/ op' = Proceed \/ op' = Skip(u)
        \/ op' = Consider(u) /\ (m \in unseen' \/ m \notin Waiting(op.session))
        \/ op'.pc = "requeue" /\ op'.candidates = op.candidates
    <3>1. CASE Restored
      <4>. DEFINE holders == Holders(m)
      <4>1. \/ op' = Skip(u)
            \/ op' = Consider(u) /\ (m \in unseen' \/ m \notin Waiting(op.session))
            \/ op' = [op EXCEPT !.pc = "requeue", !.held = holders, !.idled = FALSE]
        BY <3>1 DEF Restored
      <4>. HIDE DEF holders
      <4>. QED
        BY <1>0, <4>1 DEF OpType
    <3>2. CASE Requeued
      BY <3>2 DEF Requeued, Abandon
    <3>. QED
      BY <1>7, <3>1, <3>2
  <2>3. CASE op' = Skip(u) \/ (op'.pc = "requeue" /\ op'.candidates = op.candidates)
    <3>1. op'.pc \in Looking /\ op'.candidates = op.candidates
      BY <1>0, <2>1, <2>3, LookedFloor DEF Looking
    <3>. QED
      BY <1>2, <2>1, <3>1 DEF Bare, Looking
  <2>4. CASE op' = Consider(u) /\ (m \in unseen' \/ m \notin Waiting(op.session))
    <3>1. t \in Bare \/ t = u
      BY <1>0, <2>1, <2>4, LookedFloor DEF Bare, Looking
    <3>. QED
      BY <1>2, <2>1, <2>4, <3>1 DEF Passed
  <2>. QED
    BY <1>0, <1>1, <1>2, <2>2, <2>3, <2>4, ProceedIs
<1>8. CASE Admit
  <2>. DEFINE admitted == {u \in op.candidates : op.manual \/ rows[u].at <= now}
              first == CHOOSE u \in admitted : TRUE
  <2>1. op.pc = "check" /\ Bare = op.candidates
    BY <1>8 DEF Admit, Bare, Looking
  <2>2. op' # Proceed
    BY <1>0, <1>1, ProceedIs
  <2>3. op'.group \subseteq op.candidates /\ op'.pc \in {"open", "reserve"}
    <3>1. \/ op' = [Proceed EXCEPT !.pc = "open", !.manual = op.manual, !.group = admitted,
                                   !.subject = first, !.session = Destination(first)]
          \/ op' = [Proceed EXCEPT !.pc = "reserve", !.manual = op.manual, !.group = admitted,
                                   !.subject = first]
      BY <1>8, <2>2 DEF Admit, Abandon
    <3>2. admitted \subseteq op.candidates /\ Proceed \in OpType
      BY <1>0, ProceedIs
    <3>. HIDE DEF admitted, first
    <3>3. op'.group = admitted /\ op'.pc \in {"open", "reserve"}
      BY <3>1, <3>2 DEF OpType
    <3>. QED
      BY <3>2, <3>3
  <2>4. Bare' = op'.group
    BY <2>3 DEF Bare, Looking, Cleared, Resolved, Batch
  <2>. QED
    BY <1>2, <2>1, <2>3, <2>4
<1>9. CASE Reserve \/ Open \/ Create \/ Send
  <2>1. op' # Proceed
    BY <1>0, <1>1, ProceedIs
  <2>2. /\ op.pc \in {"reserve", "open", "create", "send"}
        /\ op'.pc \in {"create", "send", "flush"} /\ op'.group \subseteq op.group
    BY <1>0, <1>9, <2>1, ReserveOp, OpenOp, CreateOp, SendOp
  <2>3. Bare' \subseteq Bare
    BY <2>2 DEF Bare, Looking, Cleared, Resolved, Batch
  <2>. QED
    BY <1>2, <2>3
<1>10. CASE Flush \/ \E u \in Task : Commit(u)
  <2>1. op' # Proceed
    BY <1>0, <1>1, ProceedIs
  <2>2. /\ op.pc \in {"flush", "commit"} /\ op'.pc = "commit" /\ op'.left \subseteq op.left
        /\ op.left \subseteq op.group
    BY <1>0, <1>10, <2>1, FlushOp, CommitOp DEF FlowInv, Sending
  <2>3. Bare' \subseteq Bare
    BY <2>2 DEF Bare, Looking, Cleared, Resolved, Batch
  <2>. QED
    BY <1>2, <2>3
<1>. QED
  BY <1>0, Steps, <1>2, <1>3, <1>4, <1>5, <1>6, <1>7, <1>8, <1>9, <1>10

LEMMA PileStep ==
  ASSUME IInv, IInv', FloorInv, HomeInv, PileInv, [Next]_vars
  PROVE  PileInv'
<1>0. /\ TypeOK /\ StoreInv /\ FlowInv /\ TaskInv /\ Message \subseteq Nat /\ sent \in Nat
      /\ \A s \in Session : Exists(s)' => inbox'[s] \in tails'[s]
      /\ op \in OpType
  BY TypeSplit, BoundAssumption DEF IInv, Types, Message, Exists
<1>1. ASSUME NEW t \in Task, NEW s \in Session, NEW m \in Message, Owed(t, m, s)'
      PROVE  /\ m \in Traces(s) /\ m \in Waiting(s) /\ m \notin unseen \cup consumed
             /\ t \in acked[m] => Owed(t, m, s)
  <2>1. m \in Traces(s)'
    BY <1>0, <1>1 DEF Owed, Waiting, Traces, Exists
  <2>2. m \in Traces(s) \/ (Send /\ m = sent + 1)
    BY <1>0, <2>1, TraceStep
  <2>3. ~(Send /\ m = sent + 1)
    <3>1. Send => acked' = acked
      BY DEF Send
    <3>2. acked[m] # {} => m <= sent
      BY DEF HomeInv
    <3>. QED
      BY <1>0, <1>1, <3>1, <3>2 DEF Owed
  <2>4. m \notin unseen' \cup consumed' /\ consumed \subseteq consumed' /\ unseen \subseteq unseen'
    BY <1>0, <1>1, HistoryStep DEF Owed
  <2>. QED
    BY <2>2, <2>3, <2>4 DEF Owed, HomeInv
<1>2. ASSUME NEW t \in Task, NEW s \in Session, NEW m \in Message, Owed(t, m, s)'
      PROVE  /\ rows'[t].last # None /\ rows'[t].last.message = m
             /\ rows'[t].last.session = s
  <2>1. CASE t \in acked[m]
    <3>1. Owed(t, m, s)
      BY <1>1, <1>2, <2>1
    <3>2. rows[t].last # None /\ rows[t].last.message = m /\ rows[t].last.session = s
      BY <3>1 DEF PileInv
    <3>3. t \notin Bare
      BY <3>1 DEF PileInv
    <3>4. ~(Commit(t) /\ op.pc = "commit")
      BY <3>3 DEF Commit, Bare, Looking, Cleared, Resolved, Batch
    <3>5. rows[t].status # "absent"
      BY <3>2 DEF FloorInv
    <3>. QED
      BY <1>0, <3>2, <3>4, <3>5, LastStep
  <2>2. CASE t \notin acked[m]
    <3>1. /\ op.pc = "commit" /\ m = op.message /\ rows'[t].last \in Receipt
          /\ rows'[t].last.message = m /\ rows'[t].last.session = op.session
      BY <1>0, <1>2, <2>2, AckedStep DEF Owed
    <3>2. s = op.session
      BY <1>1, <1>2, <3>1 DEF HomeInv, Sending
    <3>3. rows'[t].last # None
      BY <3>1, ReceiptAssumption
    <3>. QED
      BY <3>1, <3>2, <3>3
  <2>. QED
    BY <2>1, <2>2
<1>3. ASSUME NEW t \in Task, t \in Bare', NEW s \in Session, NEW m \in Message, Owed(t, m, s)'
      PROVE  FALSE
  <2>1. t \in acked[m] /\ (t \in Bare \/ (UNCHANGED rows /\ Passed(t)))
    BY <1>3, BareStep DEF Owed
  <2>2. Owed(t, m, s)
    BY <1>1, <1>3, <2>1
  <2>3. t \notin Bare /\ rows[t].last # None
        /\ rows[t].last.message = m /\ rows[t].last.session = s
    BY <2>2 DEF PileInv
  <2>4. m \notin unseen' /\ m \in Waiting(s)
    BY <1>1, <1>3 DEF Owed
  <2>. QED
    BY <2>1, <2>3, <2>4 DEF Passed
<1>4. Bare' \subseteq Task
  BY TypeSplit DEF IInv, Types, FlowInv, Bare, Cleared, Batch, OpType
<1>. QED
  BY <1>2, <1>3, <1>4 DEF PileInv

LEMMA PileAlways == Spec => []PileInv
<1>1. Init => PileInv
  BY DEF Init, PileInv, Owed, Bare, Looking, Cleared, Resolved, Rest
<1>2. IInv /\ IInv' /\ FloorInv /\ HomeInv /\ PileInv /\ [Next]_vars => PileInv'
  BY PileStep
<1>. QED
  BY <1>1, <1>2, IInvAlways, FloorAlways, HomeAlways, PTL DEF Spec

\* Reminders of one task do not pile up: of those that wait in a session only one is
\* acknowledged and not passed by, whatever restarts, cancelled turns, archives, edits
\* and batches came between (runtime.ts recoverOutstandingExecution).
THEOREM PileCorrect == Spec => []NoPileUp
<1>1. ASSUME PileInv, TypeOK PROVE NoPileUp
  <2>. SUFFICES ASSUME NEW t \in Task, NEW s \in Session
                PROVE  Cardinality({m \in Waiting(s) : t \in acked[m]
                                                       /\ m \notin unseen \cup consumed}) <= 1
    BY DEF NoPileUp
  <2>. DEFINE S == {m \in Waiting(s) : t \in acked[m] /\ m \notin unseen \cup consumed}
  <2>1. \A m \in S : m \in Message /\ rows[t].last.message = m
    BY <1>1, TypeSplit DEF Waiting, Exists, PileInv, Owed, Types
  <2>2. S = {} \/ S = {rows[t].last.message}
    BY <2>1
  <2>. HIDE DEF S
  <2>3. Cardinality(S) = 0 \/ Cardinality(S) = 1
    BY <2>2, FS_EmptySet, FS_Singleton
  <2>4. Cardinality(S) <= 1
    BY <2>3
  <2>. QED
    BY <2>4 DEF S
<1>. QED
  BY <1>1, PileAlways, TypeCorrect, PTL

-----------------------------------------------------------------------------
(* The timer.                                                                *)

\* While the loop is at rest, an active task was left to the next drive, or is
\* watched, or the timer fires in time for it.
Served(t) ==
  \/ t \in failed
  \/ t \in Watched
  \/ /\ timer # None
     /\ timer <= Later(rows[t].at, NextAdmission(t)) \/ "rollback" \in Faults

\* An operation that no user asked for belongs to the drive loop.
TimerInv ==
  /\ op.pc # "none" /\ ~op.manual => loop = "driving"
  /\ loop = "off" /\ ~stopping => \A t \in Task : Active(t) => Served(t)

\* What a step that requests no drive does to the table.
QuietRows == \/ UNCHANGED rows
             \/ Reserve \/ \E t \in Task : Commit(t)
             \/ \E T \in SUBSET Task : Removed(T)

\* The loop, the timer and the table change together.
LEMMA DriveMoves ==
  ASSUME [Next]_vars
  PROVE  \/ BeginDrive \/ EndDrive \/ Crash \/ Stop
         \/ RequestDrive /\ UNCHANGED stopping
         \/ UNCHANGED <<loop, timer, stopping>> /\ failed \subseteq failed' /\ QuietRows
<1>1. CASE UNCHANGED vars
  BY <1>1 DEF vars, driveVars, world, QuietRows
<1>2. CASE TimerFires \/ ProviderReady \/ \E w \in watches : Release(w)
  BY <1>2 DEF TimerFires, ProviderReady, Release, world
<1>3. CASE \E t \in Task : Pick(t) \/ Check(t)
  BY <1>3 DEF Pick, Check, driveVars, world, QuietRows
<1>4. CASE Restored \/ Requeued \/ Admit
  BY <1>4 DEF Restored, Requeued, Admit, Abandon, driveVars, world, QuietRows
<1>5. CASE Reserve
  BY <1>5 DEF Reserve, Abandon, driveVars, world, QuietRows
<1>6. CASE Open \/ Create \/ Send \/ Flush
  BY <1>6 DEF Open, Create, Send, Flush, Abandon, driveVars, world, QuietRows
<1>7. ASSUME NEW t \in Task, Commit(t)
      PROVE  UNCHANGED <<loop, timer, stopping>> /\ failed \subseteq failed' /\ QuietRows
  BY <1>7 DEF Commit, Abandon, driveVars, world, QuietRows
<1>8. CASE Management
  <2>1. ASSUME NEW t \in Task,
               \/ Pause(t) \/ Delete(t)
               \/ \E k \in Kinds, s \in Session \cup {None} :
                    Retarget(t, k, s) \/ \E at \in 1 .. MaxTime : CreateTask(t, k, s, at)
               \/ \E at \in 1 .. MaxTime + Every, resume \in BOOLEAN : Rearm(t, at, resume)
        PROVE  RequestDrive /\ UNCHANGED stopping
    BY <2>1 DEF Pause, Delete, Retarget, CreateTask, Rearm
  <2>2. ASSUME NEW t \in Task, RunNow(t)
        PROVE  UNCHANGED <<loop, timer, stopping>> /\ failed \subseteq failed' /\ QuietRows
    BY <2>2 DEF RunNow, driveVars, QuietRows
  <2>3. CASE DeleteInactive
    BY <2>3, ClearIs DEF DeleteInactive, driveVars, QuietRows
  <2>4. ASSUME NEW s \in Session, AskArchive(s) \/ Archive(s) \/ ArchiveAndStop(s) \/ Unarchive(s)
        PROVE  UNCHANGED <<loop, timer, stopping>> /\ failed \subseteq failed' /\ QuietRows
    BY <2>4 DEF AskArchive, Archive, ArchiveAndStop, Unarchive, driveVars, QuietRows
  <2>5. ASSUME NEW s \in Session, StopSessionTasks(s)
        PROVE  \/ RequestDrive /\ UNCHANGED stopping
               \/ UNCHANGED <<loop, timer, stopping>> /\ failed \subseteq failed' /\ QuietRows
    <3>1. ActiveSessionTasks(s) \in SUBSET Task
      BY DEF ActiveSessionTasks
    <3>. QED
      BY <2>5, <3>1 DEF StopSessionTasks, driveVars, QuietRows
  <2>. QED
    BY <1>8, <2>1, <2>2, <2>3, <2>4, <2>5 DEF Management
<1>9. CASE Agents
  BY <1>9 DEF Agents, Idle, Wake, Dispose, Claim, driveVars, world, QuietRows
<1>10. CASE Tick \/ RollBack
  BY <1>10 DEF Tick, RollBack, driveVars, QuietRows
<1>. QED
  BY <1>1, <1>2, <1>3, <1>4, <1>5, <1>6, <1>7, <1>8, <1>9, <1>10 DEF Next, Operation

\* A watch stays until it releases its slots, which requests a drive.
LEMMA WatchedStep ==
  ASSUME TypeOK, FlowInv, [Next]_vars
  PROVE  Watched \subseteq Watched' \/ Crash \/ \E w \in watches : Release(w)
<1>0. /\ op \in OpType /\ (op.pc \in Facing => op.session \in Session)
      /\ watches \subseteq [tasks : SUBSET Task, session : Session, done : BOOLEAN]
  BY TypeSplit DEF Types, FlowInv
<1>1. watches \subseteq watches' => Watched \subseteq Watched'
  BY DEF Watched
<1>2. ASSUME NEW T, NEW s, NEW d, Watch(T, s, d) PROVE Watched \subseteq Watched'
  BY <1>1, <1>2 DEF Watch
<1>3. CASE UNCHANGED slotVars \/ Flush \/ Send
  BY <1>1, <1>3 DEF slotVars, Flush, Send
<1>4. CASE Restored \/ Requeued
  BY <1>1, <1>2, <1>4 DEF Restored, Requeued, slotVars
<1>5. ASSUME NEW t \in Task, Commit(t) PROVE Watched \subseteq Watched'
  BY <1>1, <1>2, <1>5 DEF Commit, Settle, slotVars
<1>6. ASSUME NEW s \in Session, Resolves(s) PROVE Watched \subseteq Watched'
  <2>1. ASSUME NEW w \in watches PROVE \E v \in watches' : v.tasks = w.tasks
    <3>. DEFINE v == IF w.session = s THEN [w EXCEPT !.done = TRUE] ELSE w
    <3>1. v \in watches'
      BY <1>6 DEF Resolves
    <3>2. v.tasks = w.tasks
      BY <1>0
    <3>. HIDE DEF v
    <3>. QED
      BY <3>1, <3>2
  <2>. QED
    BY <2>1 DEF Watched
<1>. QED
  BY SlotMoves, <1>3, <1>4, <1>5, <1>6

\* A drive ends with the timer set for every task that is its business.
LEMMA EndServes ==
  ASSUME TypeOK, SlotsAreWatched, EndDrive, ~stopping, NEW t \in Task, Active(t)
  PROVE  \/ t \in failed \/ t \in Watched
         \/ timer' \in Nat /\ timer' <= Later(rows[t].at, NextAdmission(t))
<1>1. CASE t \in executing
  BY <1>1 DEF SlotsAreWatched, EndDrive, Watched
<1>2. CASE t \notin executing /\ t \notin failed
  <2>1. Later(rows[t].at, NextAdmission(t)) \in Obligations
    BY <1>2 DEF Obligations
  <2>2. timer' = Earliest(Obligations)
    BY <2>1 DEF EndDrive
  <2>3. Obligations \in SUBSET Nat
    BY ObligationTypes
  <2>. QED
    BY <2>1, <2>2, <2>3, EarliestIs
<1>. QED
  BY <1>1, <1>2

\* The floor of t is not moved down.
Rises(t) == NextAdmission(t)' \in Nat /\ NextAdmission(t) <= NextAdmission(t)'

\* A manual run leaves the instant of its task, and moves its floor up.
LEMMA ManualCommit ==
  ASSUME TypeOK, FlowInv, TaskInv, FloorInv, op.manual, NEW t \in Task, Commit(t)
  PROVE  /\ \A u \in Task : /\ rows'[u].at = rows[u].at /\ rows'[u].status = rows[u].status
                            /\ u # t => rows'[u] = rows[u]
         /\ "rollback" \notin Faults => Rises(t)
<1>0. /\ op.pc = "commit" /\ t \in op.left /\ rows \in [Task -> Row] /\ op \in OpType
      /\ rows[t] \in Row /\ op.message \in Message /\ op.session \in Session
  BY TypeSplit DEF Commit, FlowInv, Facing, Sending, Types
<1>1. CASE UNCHANGED rows
  BY <1>0, <1>1, AdmissionType DEF NextAdmission, Rises
<1>2. CASE rows' = [rows EXCEPT ![t] = Delivered(t, op.sentAt)]
  <2>. DEFINE last == [message |-> op.message, session |-> op.session,
                       occurrence |-> op.sentAt, delivered |-> op.ackAt]
              kind == IF rows[t].kind = "once" THEN "session" ELSE rows[t].kind
  <2>1. Delivered(t, op.sentAt) = [rows[t] EXCEPT !.kind = kind, !.last = last, !.reserved = None]
    BY DEF Delivered
  <2>2. /\ last.occurrence = op.sentAt /\ last.delivered = op.ackAt /\ last \in Receipt
    BY <1>0 DEF Receipt, OpType
  <2>. HIDE DEF last, kind
  <2>3. /\ rows'[t].at = rows[t].at /\ rows'[t].status = rows[t].status /\ rows'[t].last = last
        /\ \A u \in Task \ {t} : rows'[u] = rows[u]
    BY <1>0, <1>2, <2>1 DEF Row
  <2>4. ASSUME "rollback" \notin Faults
        PROVE  Rises(t)
    <3>1. /\ op.sentAt \in Nat /\ op.ackAt \in Nat /\ Floor \in Nat /\ rows[t].at \in Nat
          /\ NextAdmission(t) \in Nat
      BY <1>0, Instants, TimeAssumption, AdmissionType DEF OpType, Row
    <3>2. NextAdmission(t) <= op.sentAt /\ op.sentAt <= op.ackAt
      BY <1>0, <2>4 DEF FloorInv, Cleared, Resolved, Batch, Reading, Sending
    <3>3. NextAdmission(t)' = Floor + (IF rows[t].at - op.sentAt >= Floor THEN op.sentAt
                                                                         ELSE op.ackAt)
      BY <2>2, <2>3, ReceiptAssumption DEF NextAdmission
    <3>. QED
      BY <3>1, <3>2, <3>3 DEF Rises
  <2>. QED
    BY <2>3, <2>4
<1>. QED
  BY <1>0, <1>1, <1>2 DEF Commit

\* A timed operation holds the loop.
LEMMA HoldsLoop ==
  ASSUME IInv, TimerInv, [Next]_vars, op'.pc # "none", ~op'.manual
  PROVE  loop' = "driving"
<1>0. TypeOK /\ StoreInv /\ FlowInv /\ op \in OpType
  BY TypeSplit DEF IInv, Types
<1>1. CASE BeginDrive
  BY <1>1 DEF BeginDrive
<1>2. CASE EndDrive \/ Crash
  BY <1>2, RestIs DEF EndDrive, Crash
<1>3. ~BeginDrive => op.pc # "none" /\ ~op.manual
  <2>1. CASE Asides
    BY <1>0, <2>1, SameOpIs DEF Asides
  <2>2. CASE TableEdits
    BY <2>2, EditMoves, RestIs DEF Edited
  <2>3. CASE \E t \in Task : RunNow(t) \/ Pick(t)
    BY <1>0, <2>3, RunOp, PickOp
  <2>4. CASE Restored \/ Requeued \/ Admit \/ \E t \in Task : Check(t) \/ Commit(t)
    <3>1. op.pc # "none" /\ (op' = Proceed \/ op'.manual = op.manual)
      BY <1>0, <2>4, RestoredOp, RequeuedOp, AdmitOp, CheckOp, CommitOp
    <3>. QED
      BY <3>1, RestIs DEF Proceed
  <2>5. CASE Reserve \/ Open \/ Create \/ Send \/ Flush
    <3>1. op.pc # "none" /\ (op' = Proceed \/ op'.manual = op.manual)
      BY <1>0, <2>5, ReserveOp, OpenOp, CreateOp, SendOp, FlushOp
    <3>. QED
      BY <3>1, RestIs DEF Proceed
  <2>. QED
    BY <1>0, <1>2, <2>1, <2>2, <2>3, <2>4, <2>5, Steps, RestIs DEF EndDrive, Crash
<1>4. RequestDrive /\ loop = "driving" => loop' = "driving"
  BY DEF RequestDrive
<1>. QED
  BY <1>1, <1>2, <1>3, <1>4, DriveMoves DEF TimerInv, Stop

LEMMA TimerStep ==
  ASSUME IInv, IInv', SlotsAreWatched, FloorInv, TimerInv, [Next]_vars
  PROVE  TimerInv'
<1>0. /\ TypeOK /\ StoreInv /\ FlowInv /\ TaskInv /\ rows \in [Task -> Row] /\ op \in OpType
      /\ timer \in Nat \cup {None}
  BY TypeSplit DEF IInv, Types
<1>. SUFFICES ASSUME loop' = "off", ~stopping', NEW t \in Task, Active(t)'
              PROVE  Served(t)'
  BY HoldsLoop DEF TimerInv
<1>1. CASE EndDrive
  <2>1. UNCHANGED <<rows, failed, watches, stopping>>
    BY <1>1 DEF EndDrive, slotVars, world
  <2>2. Active(t) /\ Watched' = Watched /\ NextAdmission(t)' = NextAdmission(t)
    BY <2>1 DEF Active, Watched, NextAdmission
  <2>3. \/ t \in failed \/ t \in Watched
        \/ timer' \in Nat /\ timer' <= Later(rows[t].at, NextAdmission(t))
    BY <1>0, <1>1, <2>1, <2>2, EndServes
  <2>. QED
    BY <2>1, <2>2, <2>3, TimerAssumption DEF Served, Later
<1>2. ~(RequestDrive /\ UNCHANGED stopping)
  BY DEF RequestDrive
<1>3. CASE UNCHANGED <<loop, timer, stopping>> /\ failed \subseteq failed' /\ QuietRows
  <2>1. Watched \subseteq Watched'
    <3>1. \A w \in watches : ~Release(w)
      BY <1>2, <1>3 DEF Release, world
    <3>2. ~Crash
      BY DEF Crash
    <3>. QED
      BY <1>0, <3>1, <3>2, WatchedStep
  <2>2. /\ Active(t) /\ rows'[t].at = rows[t].at
        /\ "rollback" \notin Faults => Rises(t)
    <3>1. NextAdmission(t) \in Nat
      BY <1>0, AdmissionType
    <3>2. rows'[t].at = rows[t].at /\ rows'[t].last = rows[t].last
            => NextAdmission(t)' = NextAdmission(t)
      BY DEF NextAdmission
    <3>3. CASE UNCHANGED rows
      BY <3>1, <3>2, <3>3 DEF Active, Rises
    <3>4. CASE Reserve
      <4>1. UNCHANGED rows \/ rows' = [rows EXCEPT ![op.subject].reserved = op'.session]
        BY <1>0, <3>4, ReserveOp
      <4>2. op.subject \in Task
        BY <1>0, <3>4, ReserveOp DEF OpType
      <4>3. /\ rows'[t].at = rows[t].at /\ rows'[t].last = rows[t].last
            /\ rows'[t].status = rows[t].status
        BY <1>0, <4>1, <4>2 DEF Row
      <4>. QED
        BY <3>1, <3>2, <4>3 DEF Active, Rises
    <3>5. ASSUME NEW u \in Task, Commit(u)
          PROVE  /\ Active(t) /\ rows'[t].at = rows[t].at
                 /\ "rollback" \notin Faults => Rises(t)
      <4>1. op.manual
        BY <1>3, <3>5 DEF TimerInv, Commit
      <4>2. /\ \A v \in Task : /\ rows'[v].at = rows[v].at /\ rows'[v].status = rows[v].status
                               /\ v # u => rows'[v] = rows[v]
            /\ "rollback" \notin Faults => Rises(u)
        BY <1>0, <3>5, <4>1, ManualCommit
      <4>3. CASE t = u
        BY <4>2, <4>3 DEF Active
      <4>4. CASE t # u
        BY <3>1, <3>2, <4>2, <4>4 DEF Active, Rises
      <4>. QED
        BY <4>3, <4>4
    <3>6. ASSUME NEW T \in SUBSET Task, Removed(T)
          PROVE  /\ Active(t) /\ rows'[t].at = rows[t].at
                 /\ "rollback" \notin Faults => Rises(t)
      <4>1. t \notin T
        BY <1>0, <3>6, RemovedIs DEF Active
      <4>2. rows'[t] = rows[t]
        BY <1>0, <3>6, <4>1, RemovedIs
      <4>. QED
        BY <3>1, <3>2, <4>2 DEF Active, Rises
    <3>. QED
      BY <1>3, <3>3, <3>4, <3>5, <3>6 DEF QuietRows
  <2>3. Served(t)
    BY <1>3, <2>2 DEF TimerInv
  <2>4. CASE t \in failed \/ t \in Watched
    BY <1>3, <2>1, <2>4 DEF Served
  <2>5. CASE timer # None /\ "rollback" \in Faults
    BY <1>3, <2>5 DEF Served
  <2>6. CASE /\ timer # None /\ timer <= Later(rows[t].at, NextAdmission(t))
             /\ "rollback" \notin Faults
    <3>1. /\ timer \in Nat /\ rows[t].at \in Nat /\ NextAdmission(t) \in Nat
          /\ NextAdmission(t)' \in Nat
      BY <1>0, <2>2, <2>6, AdmissionType DEF Rises
    <3>2. timer <= Later(rows'[t].at, NextAdmission(t)')
      BY <2>2, <2>6, <3>1 DEF Later, Rises
    <3>. QED
      BY <1>3, <2>6, <3>2 DEF Served, Later
  <2>. QED
    BY <2>3, <2>4, <2>5, <2>6 DEF Served
<1>4. ~BeginDrive /\ ~Crash /\ ~Stop
  BY DEF BeginDrive, Crash, Stop
<1>. QED
  BY <1>1, <1>2, <1>3, <1>4, DriveMoves

\* No active task is forgotten: while nothing happens, it was left to the next drive, or
\* an agent is watched for it, or the timer fires in time for it, whatever edits, manual
\* runs, failures and archives came before (runtime.ts drive, deliverDue,
\* watchExecution, requestDrive).
THEOREM ObligationCorrect == Spec => []ObligationHeld
<1>1. Init => TimerInv
  BY RestIs DEF Init, TimerInv
<1>2. IInv /\ IInv' /\ SlotsAreWatched /\ FloorInv /\ TimerInv /\ [Next]_vars => TimerInv'
  BY TimerStep
<1>3. TimerInv => ObligationHeld
  BY DEF TimerInv, Served, ObligationHeld, Watched
<1>. QED
  BY <1>1, <1>2, <1>3, IInvAlways, SlotsCorrect, FloorAlways, PTL DEF Spec

-----------------------------------------------------------------------------
(* What a slot covers.                                                       *)

\* The slots of the operation.
InHand == IF op.pc \in Holding THEN op.held ELSE {}

\* No slot is held on two accounts.
ApartInv ==
  /\ InHand \subseteq executing
  /\ \A w \in watches : w.tasks \subseteq executing \ InHand
  /\ \A v, w \in watches : v # w => v.tasks \cap w.tasks = {}

\* The slots that a step takes, for the operation or for a watch, are free.
TakesFree ==
  /\ op.pc \notin Holding /\ op'.pc \in Holding => op'.held \cap executing = {}
  /\ op.pc = "restore" => \A w \in watches' \ watches : ~w.done => w.tasks \cap executing = {}

\* A watch for slots of which no other watch knows.
LEMMA WatchApart ==
  ASSUME \A v, w \in watches : v # w => v.tasks \cap w.tasks = {},
         NEW T, NEW s, NEW d, Watch(T, s, d), \A w \in watches : w.tasks \cap T = {}
  PROVE  /\ \A w \in watches' : w \in watches \/ w.tasks = T
         /\ \A v, w \in watches' : v # w => v.tasks \cap w.tasks = {}
<1>. DEFINE new == [tasks |-> T, session |-> s, done |-> d]
<1>1. watches' = watches \cup {[tasks |-> U, session |-> s, done |-> d] : U \in {T} \ {{}}}
  BY DEF Watch
<1>2. \A w \in watches' : w \in watches \/ w = new
  BY <1>1
<1>3. new.tasks = T
  OBVIOUS
<1>. HIDE DEF new
<1>. QED
  BY <1>2, <1>3

LEMMA ApartStep ==
  ASSUME IInv, IInv', ApartInv, TakesFree, [Next]_vars
  PROVE  ApartInv'
<1>0. /\ TypeOK /\ StoreInv /\ FlowInv /\ TaskInv /\ op \in OpType /\ op' \in OpType
      /\ executing \subseteq Task
      /\ watches \subseteq [tasks : SUBSET Task, session : Session, done : BOOLEAN]
      /\ op.pc \in Facing => op.session \in Session
  BY TypeSplit DEF IInv, Types, FlowInv
<1>1. /\ InHand \subseteq executing
      /\ \A w \in watches : w.tasks \subseteq executing \ InHand
      /\ \A v, w \in watches : v # w => v.tasks \cap w.tasks = {}
  BY DEF ApartInv
<1>2. /\ op.pc \in Holding => InHand = op.held
      /\ op.pc \notin Holding => InHand = {}
      /\ op'.pc \in Holding => InHand' = op'.held
      /\ op'.pc \notin Holding => InHand' = {}
  BY DEF InHand
<1>3. CASE Restored
  <2>. DEFINE holders == Holders(rows[op.subject].last.message)
  <2>1. op.pc = "restore" /\ op.session \in Session /\ holders \in SUBSET Task /\ InHand = {}
    BY <1>0, <1>2, <1>3 DEF Restored, Holding, Facing, Holders
  <2>2. \/ UNCHANGED slotVars /\ op'.pc \notin Holding
        \/ /\ executing' = executing \cup holders /\ Watch(holders, op.session, FALSE)
           /\ op'.pc \notin Holding
        \/ /\ executing' = executing \cup holders /\ UNCHANGED watches
           /\ op'.pc \in Holding /\ op'.held = holders
    <3>1. \/ UNCHANGED slotVars /\ (op' = Skip(op.subject) \/ op' = Consider(op.subject))
          \/ /\ executing' = executing \cup holders /\ Watch(holders, op.session, FALSE)
             /\ op' = Skip(op.subject) \/ op' = Consider(op.subject)
          \/ /\ executing' = executing \cup holders /\ UNCHANGED watches
             /\ op' = [op EXCEPT !.pc = "requeue", !.held = holders, !.idled = FALSE]
      BY <1>3 DEF Restored
    <3>2. op' = Skip(op.subject) \/ op' = Consider(op.subject) => op'.pc \notin Holding
      BY <1>0 DEF Skip, Consider, OpType, Holding
    <3>. HIDE DEF holders
    <3>3. op' = [op EXCEPT !.pc = "requeue", !.held = holders, !.idled = FALSE]
            => op'.pc \in Holding /\ op'.held = holders
      BY <1>0, <2>1 DEF OpType, Holding
    <3>. QED
      BY <3>1, <3>2, <3>3
  <2>. HIDE DEF holders
  <2>3. CASE UNCHANGED slotVars /\ op'.pc \notin Holding
    BY <1>1, <1>2, <2>1, <2>3 DEF slotVars, ApartInv
  <2>4. CASE /\ executing' = executing \cup holders /\ Watch(holders, op.session, FALSE)
             /\ op'.pc \notin Holding
    <3>1. CASE watches' = watches
      BY <1>1, <1>2, <2>1, <2>4, <3>1 DEF ApartInv
    <3>2. CASE watches' # watches
      <4>. DEFINE new == [tasks |-> holders, session |-> op.session, done |-> FALSE]
      <4>1. watches' = watches \cup {new} /\ new \notin watches
        <5>1. watches' = watches \cup {[tasks |-> U, session |-> op.session, done |-> FALSE]
                                          : U \in {holders} \ {{}}}
          BY <2>4 DEF Watch
        <5>. QED
          BY <3>2, <5>1
      <4>2. new.tasks = holders /\ ~new.done
        OBVIOUS
      <4>. HIDE DEF new
      <4>3. holders \cap executing = {}
        BY <2>1, <4>1, <4>2 DEF TakesFree
      <4>4. \A w \in watches : w.tasks \cap holders = {}
        BY <1>1, <4>3
      <4>. QED
        BY <1>1, <1>2, <2>1, <2>4, <4>1, <4>2, <4>4 DEF ApartInv
    <3>. QED
      BY <3>1, <3>2
  <2>5. CASE /\ executing' = executing \cup holders /\ UNCHANGED watches
             /\ op'.pc \in Holding /\ op'.held = holders
    <3>1. holders \cap executing = {}
      BY <2>1, <2>5 DEF TakesFree, Holding
    <3>. QED
      BY <1>1, <1>2, <2>1, <2>5, <3>1 DEF ApartInv
  <2>. QED
    BY <2>2, <2>3, <2>4, <2>5
<1>4. CASE Send
  <2>1. op.pc \notin Holding /\ InHand = {}
    BY <1>2, <1>4 DEF Send, Holding
  <2>2. CASE UNCHANGED slotVars /\ op'.pc \notin Holding
    BY <1>1, <1>2, <2>1, <2>2 DEF slotVars, ApartInv
  <2>3. CASE /\ op'.pc \in Holding /\ executing' = executing \cup op'.held
             /\ UNCHANGED watches
    <3>1. op'.held \cap executing = {}
      BY <2>1, <2>3 DEF TakesFree
    <3>. QED
      BY <1>1, <1>2, <2>1, <2>3, <3>1 DEF ApartInv
  <2>4. \/ UNCHANGED slotVars /\ op' = Proceed
        \/ op'.pc = "flush" /\ UNCHANGED watches
    BY <1>0, <1>4 DEF Send, Abandon, OpType
  <2>5. op'.pc = "flush" => executing' = executing \cup op'.held
    BY <1>0, <1>4, SendOp, ProceedIs
  <2>. QED
    BY <1>0, <2>2, <2>3, <2>4, <2>5, ProceedIs DEF Holding
<1>5. ASSUME UNCHANGED watches, executing' = executing \ InHand, op'.pc \notin Holding
      PROVE  ApartInv'
  BY <1>1, <1>2, <1>5 DEF ApartInv
<1>6. ASSUME UNCHANGED slotVars, InHand' = InHand
      PROVE  ApartInv'
  BY <1>1, <1>6 DEF ApartInv, slotVars
<1>7. ASSUME NEW T \in SUBSET Task, NEW d \in BOOLEAN, op.pc \in Facing,
             T \subseteq InHand, Watch(T, op.session, d),
             executing' = executing \ (InHand \ T), op'.pc \notin Holding
      PROVE  ApartInv'
  <2>1. \A w \in watches : w.tasks \cap T = {}
    BY <1>1, <1>7
  <2>2. Watch(T, op.session, d)
    BY <1>7
  <2>3. /\ \A w \in watches' : w \in watches \/ w.tasks = T
        /\ \A v, w \in watches' : v # w => v.tasks \cap w.tasks = {}
    BY <1>1, <2>1, <2>2, WatchApart, Zenon
  <2>4. T \subseteq executing' /\ \A w \in watches : w.tasks \subseteq executing'
    BY <1>1, <1>7
  <2>. QED
    BY <1>2, <1>7, <2>3, <2>4 DEF ApartInv
<1>8. CASE Requeued
  <2>1. op.pc = "requeue" /\ op.held \in SUBSET Task /\ op.idled \in BOOLEAN
    BY <1>0, <1>8 DEF Requeued, OpType
  <2>2. op'.pc \notin Holding
    BY <1>0, <1>8, RequeuedOp, ProceedIs DEF Holding
  <2>3. \/ Watch(op.held, op.session, op.idled) /\ UNCHANGED executing
        \/ executing' = executing \ op.held /\ UNCHANGED watches
    BY <1>8 DEF Requeued, FreesHeld
  <2>4. InHand = op.held
    BY <1>2, <2>1 DEF Holding
  <2>5. op.held \ op.held = {} /\ executing \ {} = executing
    OBVIOUS
  <2>. QED
    BY <1>5, <1>7, <2>1, <2>2, <2>3, <2>4, <2>5 DEF Facing
<1>9. CASE Flush
  <2>1. op.pc = "flush" /\ UNCHANGED watches
    BY <1>9 DEF Flush
  <2>2. \/ op' = Proceed /\ executing' = executing \ op.held
        \/ op' = [op EXCEPT !.pc = "commit", !.ackAt = now] /\ UNCHANGED executing
    BY <1>9 DEF Flush, FreesHeld, Abandon
  <2>3. op' = [op EXCEPT !.pc = "commit", !.ackAt = now] => InHand' = InHand
    BY <1>0, <1>2, <2>1 DEF OpType, Holding
  <2>. QED
    BY <1>0, <1>2, <1>5, <1>6, <2>1, <2>2, <2>3, ProceedIs DEF Holding, slotVars
<1>10. ASSUME NEW t \in Task, Commit(t) PROVE ApartInv'
  <2>1. /\ op.pc = "commit" /\ op.held \in SUBSET Task /\ op.left \in SUBSET Task
        /\ op.idled \in BOOLEAN /\ InHand = op.held
    BY <1>0, <1>2, <1>10 DEF Commit, OpType, Holding
  <2>2. ASSUME NEW left \in SUBSET Task, Settle(left), op' = Proceed PROVE ApartInv'
    <3>1. Watch(op.held \ left, op.session, op.idled) /\ executing' = executing \ (op.held \cap left)
      BY <2>2 DEF Settle
    <3>2. op.held \cap left = InHand \ (op.held \ left) /\ op.held \ left \in SUBSET Task
          /\ op.held \ left \subseteq InHand
      BY <2>1
    <3>3. op'.pc \notin Holding
      BY <1>0, <2>2, ProceedIs DEF Holding
    <3>. QED
      BY <1>7, <2>1, <3>1, <3>2, <3>3 DEF Facing
  <2>3. CASE op' = [op EXCEPT !.left = op.left \ {t}] /\ UNCHANGED slotVars
    <3>1. InHand' = InHand
      BY <1>0, <1>2, <2>1, <2>3 DEF OpType
    <3>. QED
      BY <1>6, <2>3, <3>1
  <2>4. \/ (Settle({}) \/ Settle(op.left)) /\ op' = Proceed
        \/ op' = [op EXCEPT !.left = op.left \ {t}] /\ UNCHANGED slotVars
    BY <1>10 DEF Commit, Abandon
  <2>. QED
    BY <2>1, <2>2, <2>3, <2>4
<1>11. ASSUME NEW w \in watches, Release(w) PROVE ApartInv'
  <2>1. watches' = watches \ {w} /\ executing' = executing \ w.tasks /\ op' = op
    BY <1>11 DEF Release
  <2>2. InHand' = InHand
    BY <2>1 DEF InHand
  <2>3. w.tasks \cap InHand = {} /\ \A v \in watches' : v.tasks \cap w.tasks = {}
    BY <1>1, <2>1
  <2>. QED
    BY <1>1, <2>1, <2>2, <2>3 DEF ApartInv
<1>12. ASSUME NEW s \in Session, Resolves(s), UNCHANGED executing PROVE ApartInv'
  <2>1. InHand' = InHand
    <3>1. SameOp
      BY <1>12 DEF Resolves, SameOp
    <3>. QED
      BY <1>0, <3>1, SameOpIs DEF InHand
  <2>. DEFINE image(w) == IF w.session = s THEN [w EXCEPT !.done = TRUE] ELSE w
  <2>2. watches' = {image(w) : w \in watches}
    BY <1>12 DEF Resolves
  <2>3. \A w \in watches : image(w).tasks = w.tasks
    BY <1>0
  <2>. HIDE DEF image
  <2>4. \A v \in watches' : \E w \in watches : v = image(w) /\ v.tasks = w.tasks
    BY <2>2, <2>3
  <2>. QED
    BY <1>1, <1>12, <2>1, <2>4 DEF ApartInv
<1>13. CASE Crash
  <2>1. watches' = {} /\ op' = Rest
    BY <1>13 DEF Crash
  <2>. QED
    BY <1>2, <2>1, RestIs DEF ApartInv, Holding
<1>14. CASE /\ UNCHANGED slotVars /\ (op.pc \notin Holding \/ op' = op)
            /\ ~Restored /\ ~Send /\ ~Flush /\ ~\E t \in Task : Commit(t)
  <2>1. op.pc \notin Holding => op'.pc \notin Holding
    BY <1>0, <1>14, SendingStep DEF Holding
  <2>2. InHand' = InHand
    BY <1>2, <1>14, <2>1 DEF InHand
  <2>. QED
    BY <1>6, <1>14, <2>2
<1>. QED
  BY SlotMoves, <1>3, <1>4, <1>8, <1>9, <1>10, <1>11, <1>12, <1>13, <1>14

\* What runtime.ts:175 says of a slot, that it is held until the agent of the delivery
\* is idle, fails only through a slot that is taken while it is held: whatever else
\* fails, crashes or is cancelled, each slot stays with its watch (runtime.ts send,
\* settle, recoverOutstandingExecution).
THEOREM SlotTakenTwice == Spec /\ [][TakesFree]_vars => []SlotCoversDelivery
<1>1. Init => ApartInv
  BY RestIs DEF Init, ApartInv, InHand, Holding
<1>2. IInv /\ IInv' /\ ApartInv /\ [Next]_vars /\ [TakesFree]_vars => ApartInv'
  <2>1. UNCHANGED vars /\ ApartInv => ApartInv'
    BY DEF vars, slotVars, ApartInv, InHand
  <2>. QED
    BY <2>1, ApartStep
<1>3. ApartInv => SlotCoversDelivery
  BY DEF ApartInv, SlotCoversDelivery
<1>. QED
  BY <1>1, <1>2, <1>3, IInvAlways, PTL DEF Spec

\* In three ways a slot is taken twice, each found by TLC: a failed restore passes a
\* waiting reminder by, and so does an archived session that is opened again; another
\* target separates tasks of one reminder.
Steady == "restore" \notin Faults /\ Edits \cap {"retarget", "unarchive"} = {}

\* A reminder of t waits, for which a delivery has to be refused.
Waits(t) ==
  /\ Present(t) /\ rows[t].kind # "new" /\ rows[t].last # None
  /\ rows[t].last.message \in Waiting(rows[t].last.session)
  /\ ~Archived(rows[t].last.session)

\* Tasks with one waiting reminder are all among them, or none.
Closed(T) ==
  \A t \in T, u \in Task :
    Waits(t) /\ Waits(u) /\ rows[t].last.message = rows[u].last.message => u \in T

\* The tasks the operation has looked at, and may deliver.
Chosen ==
  IF op.pc \in Looking THEN op.candidates
  ELSE IF op.pc \in {"reserve"} \cup Resolved THEN Batch ELSE {}

\* Only tasks of an existing session share a reminder.
SharedInv ==
  /\ \A t, u \in Task : /\ t # u /\ rows[t].last # None /\ rows[u].last # None
                        /\ rows[t].last.message = rows[u].last.message
                        => rows[t].kind = "session"
  /\ op.pc \in Sending =>
       /\ \A t, u \in op.group : t # u => rows[t].kind = "session"
       /\ \A t \in Task : rows[t].last # None /\ rows[t].last.message = op.message
                            => t \in op.group

\* The slot is free of each task with the reminder that is looked up, and none of
\* them has been chosen.
SoughtInv ==
  op.pc = "restore" =>
    /\ op.subject \notin executing
    /\ rows[op.subject].last.message \in Waiting(op.session) =>
         Holders(rows[op.subject].last.message) \cap (executing \cup op.candidates) = {}

\* What the operation may deliver holds no slot and has no reminder that waits.
ChosenInv ==
  /\ \A t \in Chosen : ~Waits(t)
  /\ op.pc \notin Sending => Chosen \cap executing = {}
  /\ op.pc = "requeue" => op.subject \notin executing \ op.held

\* A slot is taken and watched for all tasks of the reminder.
ClosedInv ==
  /\ \A w \in watches : Closed(w.tasks)
  /\ op.pc = "requeue" => op.held = Holders(rows[op.subject].last.message)
  /\ op.pc \in Sending =>
       /\ {t \in Batch : rows[t].kind # "new"} \subseteq op.held
       /\ \A t \in op.held : rows[t].kind # "new"
       /\ Holders(op.message) \subseteq op.held
       /\ op.held \ op.left \subseteq Holders(op.message)

\* A receipt and a kind stay, unless the task is committed.
LEMMA KindStep ==
  ASSUME IInv, FloorInv, Steady, [Next]_vars, NEW t \in Task, rows'[t].last # None,
         ~Commit(t)
  PROVE  /\ rows'[t].last = rows[t].last /\ rows'[t].kind = rows[t].kind
         /\ Present(t)' => Present(t)
<1>0. TypeOK /\ StoreInv /\ RowInv /\ FlowInv /\ TaskInv /\ rows \in [Task -> Row] /\ op \in OpType
  BY TypeSplit DEF IInv, Types
<1>. DEFINE Same == /\ rows'[t].last = rows[t].last /\ rows'[t].kind = rows[t].kind
                    /\ Present(t)' => Present(t)
<1>1. ASSUME rows'[t] = rows[t] PROVE Same
  BY <1>1 DEF Present
<1>2. CASE Reserve
  <2>1. UNCHANGED rows \/ (rows' = [rows EXCEPT ![op.subject].reserved = op'.session]
                           /\ op.subject \in Task)
    BY <1>0, <1>2, ReserveOp DEF OpType
  <2>. QED
    BY <1>0, <1>1, <2>1 DEF Present, Row
<1>3. ASSUME NEW u \in Task, Commit(u) PROVE Same
  BY <1>0, <1>1, <1>3, CommitIs
<1>4. ASSUME NEW T \in SUBSET Task, Removed(T) PROVE Same
  BY <1>0, <1>1, <1>4, RemovedIs DEF Present
<1>5. CASE TableEdits
  <2>1. ASSUME NEW u \in Task, Pause(u) PROVE Same
    BY <1>0, <2>1 DEF Pause, Present, Row
  <2>2. ASSUME NEW u \in Task, Delete(u) PROVE Same
    BY <1>4, <2>2 DEF Delete
  <2>3. ASSUME NEW u \in Task, NEW k \in Kinds, NEW s \in Session \cup {None}, Retarget(u, k, s)
        PROVE  FALSE
    BY <2>3 DEF Retarget, Edit, Steady
  <2>4. ASSUME NEW u \in Task, NEW k \in Kinds, NEW s \in Session \cup {None},
               NEW at \in 1 .. MaxTime, CreateTask(u, k, s, at)
        PROVE  Same
    BY <1>0, <1>1, <2>4 DEF CreateTask, NewRow
  <2>5. ASSUME NEW u \in Task, NEW at \in 1 .. MaxTime + Every, NEW resume \in BOOLEAN,
               Rearm(u, at, resume)
        PROVE  Same
    <3>1. Present(u)
      BY <2>5 DEF Rearm
    <3>. QED
      BY <1>0, <1>1, <2>5, <3>1, RearmIs DEF Present
  <2>6. CASE DeleteInactive
    BY <1>4, <2>6, ClearIs
  <2>7. ASSUME NEW s \in Session, StopSessionTasks(s) PROVE Same
    BY <1>0, <1>1, <1>4, <2>7, StopIs
  <2>. QED
    BY <1>5, <2>1, <2>2, <2>3, <2>4, <2>5, <2>6, <2>7 DEF TableEdits
<1>. QED
  BY <1>0, <1>1, <1>2, <1>3, <1>5, RowMoves

\* An archived session stays archived.
LEMMA ArchivedStep ==
  ASSUME TypeOK, Steady, [Next]_vars, NEW s \in Session, Archived(s)
  PROVE  Archived(s)'
<1>0. archive \in [Session -> {"open", "asked", "archived", "stopping", "stopped"}]
  BY TypeSplit DEF Types
<1>1. CASE UNCHANGED archive
  BY <1>1 DEF Archived
<1>2. UNCHANGED vars \/ BeginDrive \/ TimerFires \/ (\E w \in watches : Release(w))
        => UNCHANGED archive
  BY DEF vars, BeginDrive, TimerFires, Release, world
<1>3. Operation => UNCHANGED archive
  <2>1. EndDrive \/ Restored \/ Requeued \/ (\E t \in Task : Pick(t) \/ Check(t) \/ Commit(t))
          => UNCHANGED archive
    BY DEF EndDrive, Restored, Requeued, Pick, Check, Commit, world
  <2>2. Admit \/ Reserve \/ Open \/ Create \/ Send \/ Flush => UNCHANGED archive
    BY DEF Admit, Reserve, Open, Create, Send, Flush, world
  <2>. QED
    BY <2>1, <2>2 DEF Operation
<1>4. CASE Management
  <2>1. ASSUME NEW t \in Task,
               \/ RunNow(t) \/ Pause(t) \/ Delete(t)
               \/ \E k \in Kinds, x \in Session \cup {None} :
                    Retarget(t, k, x) \/ \E at \in 1 .. MaxTime : CreateTask(t, k, x, at)
               \/ \E at \in 1 .. MaxTime + Every, resume \in BOOLEAN : Rearm(t, at, resume)
        PROVE  UNCHANGED archive
    BY <2>1 DEF RunNow, Pause, Delete, Retarget, CreateTask, Rearm
  <2>2. DeleteInactive => UNCHANGED archive
    BY DEF DeleteInactive
  <2>3. ASSUME NEW x \in Session, AskArchive(x) \/ Archive(x) \/ ArchiveAndStop(x)
        PROVE  Archived(s)'
    BY <1>0, <2>3 DEF AskArchive, Archive, ArchiveAndStop, Archived
  <2>4. ASSUME NEW x \in Session, StopSessionTasks(x) PROVE Archived(s)'
    BY <1>0, <2>4 DEF StopSessionTasks, Archived
  <2>5. ASSUME NEW x \in Session, Unarchive(x) PROVE FALSE
    BY <2>5 DEF Unarchive, Edit, Steady
  <2>. QED
    BY <1>1, <1>4, <2>1, <2>2, <2>3, <2>4, <2>5 DEF Management
<1>5. Agents \/ ProviderReady \/ Stop \/ Tick \/ RollBack => UNCHANGED archive
  BY DEF Agents, Idle, Wake, Dispose, Claim, ProviderReady, Stop, Tick, RollBack, world
<1>6. CASE Crash
  BY <1>0, <1>6 DEF Crash, Archived
<1>. QED
  BY <1>1, <1>2, <1>3, <1>4, <1>5, <1>6 DEF Next

\* Only sending brings a message to an inbox.
LEMMA InboxStep ==
  ASSUME TypeOK, StoreInv, FlowInv, [Next]_vars, ~Crash,
         NEW s \in Session, NEW m, m \in Waiting(s)'
  PROVE  m \in Waiting(s) \/ m = sent + 1
<1>. USE TypeSplit
<1>1. CASE UNCHANGED inbox
  BY <1>1 DEF Waiting, Exists
<1>2. ASSUME NEW x \in Session, Takes(x) PROVE m \in Waiting(s)
  <2>1. PICK box \in SUBSET Message :
          /\ inbox[x] \in SUBSET Message /\ box \subseteq inbox[x]
          /\ inbox' = [inbox EXCEPT ![x] = box]
    BY <1>2 DEF Takes, Splice
  <2>2. inbox[x] # None
    BY <2>1, InboxIs
  <2>. QED
    BY <2>1, <2>2 DEF Waiting, Exists, StoreInv
<1>3. ASSUME NEW x \in Session, Splice(x, {}) PROVE m \in Waiting(s)
  BY <1>3 DEF Splice, Waiting, Exists, StoreInv
<1>4. ASSUME NEW x \in Session, Exists(x), Splice(x, inbox[x] \cup {sent + 1})
      PROVE  m \in Waiting(s) \/ m = sent + 1
  BY <1>4 DEF Splice, Waiting, Exists, StoreInv
<1>. QED
  BY LogMoves, <1>1, <1>2, <1>3, <1>4

\* A reminder that waits for a task has waited before, or is being committed.
LEMMA WaitsStep ==
  ASSUME IInv, IInv', FloorInv, Steady, [Next]_vars, ~Crash, NEW t \in Task, Waits(t)'
  PROVE  \/ /\ Commit(t) /\ op.pc = "commit" /\ t \in op.left /\ rows[t].kind # "new"
            /\ rows'[t].last.message = op.message
         \/ /\ Waits(t) /\ rows'[t].last = rows[t].last /\ rows'[t].kind = rows[t].kind
<1>0. TypeOK /\ StoreInv /\ FlowInv /\ TaskInv /\ ReceiptInv
  BY DEF IInv
<1>1. Present(t)' /\ rows'[t].kind # "new" /\ rows'[t].last # None
  BY DEF Waits
<1>2. ASSUME rows'[t].last = rows[t].last, rows'[t].kind = rows[t].kind, Present(t)
      PROVE  Waits(t)
  <2>1. PICK s \in Session, m \in Message :
          /\ rows[t].last.session = s /\ rows[t].last.message = m
          /\ m \in Waiting(s)' /\ ~Archived(s)'
    <3>1. rows[t].last.session \in Session /\ rows[t].last.message \in Message
      BY <1>0, <1>1, <1>2, TypeSplit DEF Types, Row, Receipt
    <3>2. \A s \in Session, m \in Message :
            rows'[t].last.session = s /\ rows'[t].last.message = m
              => m \in Waiting(s)' /\ ~Archived(s)'
      BY DEF Waits, Waiting, Exists, Archived
    <3>. QED
      BY <1>2, <3>1, <3>2
  <2>2. m <= sent /\ m \in Nat /\ sent \in Nat
    BY <1>0, <1>1, <1>2, <2>1, BoundAssumption, TypeSplit DEF ReceiptInv, Types, Message
  <2>3. m # sent + 1
    BY <2>2
  <2>4. m \in Waiting(s)
    BY <1>0, <2>1, <2>3, InboxStep
  <2>5. ~Archived(s)
    BY <1>0, <2>1, ArchivedStep
  <2>. QED
    BY <1>1, <1>2, <2>1, <2>4, <2>5 DEF Waits
<1>3. CASE Commit(t)
  <2>1. op.pc = "commit" /\ t \in op.left /\ Present(t)
    BY <1>3 DEF Commit, IInv, TaskInv, Ahead, Batch
  <2>2. CASE UNCHANGED rows
    BY <1>2, <2>1, <2>2
  <2>3. CASE ~UNCHANGED rows
    <3>1. /\ rows'[t].last.message = op.message
          /\ rows'[t].kind = IF rows[t].kind = "once" THEN "session" ELSE rows[t].kind
      BY <1>0, <1>3, <2>3, CommitIs
    <3>. QED
      BY <1>1, <1>3, <2>1, <3>1
  <2>. QED
    BY <2>2, <2>3
<1>. QED
  BY <1>1, <1>2, <1>3, KindStep

\* Slots are taken only for a reminder that waits, or one that is sent.
LEMMA TakenStep ==
  ASSUME [Next]_vars
  PROVE  executing' \subseteq executing \/ Restored \/ Send
<1>1. Requeued \/ Flush => executing' \subseteq executing
  BY DEF Requeued, Flush, FreesHeld
<1>2. (\E t \in Task : Commit(t)) => executing' \subseteq executing
  BY DEF Commit, Settle, slotVars
<1>3. Crash \/ (\E w \in watches : Release(w)) => executing' \subseteq executing
  BY DEF Crash, Release
<1>. QED
  BY SlotMoves, <1>1, <1>2, <1>3 DEF slotVars

\* A reminder is shared only by tasks that were sent together.
LEMMA SharedStep ==
  ASSUME IInv, IInv', FloorInv, Steady, SharedInv, [Next]_vars
  PROVE  SharedInv'
<1>0. /\ TypeOK /\ StoreInv /\ FlowInv /\ TaskInv /\ ReceiptInv /\ op \in OpType /\ op' \in OpType
      /\ rows \in [Task -> Row] /\ sent \in Nat
  BY TypeSplit, BoundAssumption DEF IInv, Types
<1>1. ASSUME NEW t \in Task, rows'[t].last # None
      PROVE  \/ /\ rows'[t].last = rows[t].last
                /\ rows[t].kind = "session" => rows'[t].kind = "session"
             \/ /\ Commit(t) /\ op.pc = "commit" /\ t \in op.group
                /\ rows'[t].last.message = op.message
                /\ rows[t].kind = "session" => rows'[t].kind = "session"
  <2>1. CASE Commit(t)
    <3>1. op.pc = "commit" /\ t \in op.group
      BY <1>0, <2>1 DEF Commit, FlowInv, Sending
    <3>. QED
      BY <1>0, <2>1, <3>1, CommitIs
  <2>. QED
    BY <1>1, <2>1, KindStep
<1>2. ASSUME NEW t \in Task, NEW u \in Task, t # u, rows'[t].last # None, rows'[u].last # None,
             rows'[t].last.message = rows'[u].last.message
      PROVE  rows'[t].kind = "session"
  <2>1. CASE rows'[t].last = rows[t].last /\ rows'[u].last = rows[u].last
    BY <1>1, <1>2, <2>1 DEF SharedInv
  <2>2. CASE \/ rows'[t].last # rows[t].last \/ rows'[u].last # rows[u].last
    <3>1. /\ op.pc = "commit" /\ rows'[t].last.message = op.message
          /\ rows'[u].last.message = op.message
      BY <1>1, <1>2, <2>2
    <3>2. t \in op.group /\ u \in op.group
      BY <1>1, <1>2, <3>1 DEF SharedInv, Sending
    <3>. QED
      BY <1>1, <1>2, <3>1, <3>2 DEF SharedInv, Sending
  <2>. QED
    BY <2>1, <2>2
<1>3. ASSUME op'.pc \in Sending, op.pc \in Sending, op'.message = op.message,
             op'.group = op.group
      PROVE  /\ \A t, u \in op'.group : t # u => rows'[t].kind = "session"
             /\ \A t \in Task : rows'[t].last # None /\ rows'[t].last.message = op'.message
                                  => t \in op'.group
  <2>1. ASSUME NEW t \in op.group, NEW u \in op.group, t # u PROVE rows'[t].kind = "session"
    <3>1. t \in Task /\ rows[t].kind = "session"
      BY <1>0, <1>3, <2>1 DEF SharedInv, OpType
    <3>2. UNCHANGED rows \/ \E v \in Task : Commit(v)
      BY <1>0, <1>3, RowMoves, EditMoves, RestIs, ReserveOp DEF Edited, Sending
    <3>3. CASE UNCHANGED rows
      BY <3>1, <3>3
    <3>4. ASSUME NEW v \in Task, Commit(v) PROVE rows'[t].kind = "session"
      BY <1>0, <3>1, <3>4, CommitIs
    <3>. QED
      BY <3>2, <3>3, <3>4
  <2>2. ASSUME NEW t \in Task, rows'[t].last # None, rows'[t].last.message = op'.message
        PROVE  t \in op'.group
    BY <1>1, <1>3, <2>2 DEF SharedInv
  <2>. QED
    BY <1>3, <2>1, <2>2
<1>4. CASE Send
  <2>. SUFFICES ASSUME op'.pc \in Sending
                PROVE  /\ \A t, u \in op'.group : t # u => rows'[t].kind = "session"
                       /\ \A t \in Task : rows'[t].last # None
                                          /\ rows'[t].last.message = op'.message => t \in op'.group
    BY <1>2 DEF SharedInv
  <2>1. /\ op.pc = "send" /\ op'.group \subseteq op.group /\ op'.message = sent + 1
        /\ UNCHANGED rows
    BY <1>0, <1>4, SendOp, ProceedIs DEF Send, Sending
  <2>2. \A t, u \in op.group : t # u => rows[u].kind = "session"
    BY <1>0, <2>1 DEF TaskInv, Batch
  <2>3. \A t \in Task : rows[t].last # None => rows[t].last.message # sent + 1
    <3>1. \A t \in Task : rows[t].last # None =>
            rows[t].last.message <= sent /\ rows[t].last.message \in Nat
      BY <1>0 DEF ReceiptInv, Row, Receipt, Message
    <3>. QED
      BY <1>0, <3>1
  <2>. QED
    BY <2>1, <2>2, <2>3
<1>5. CASE ~Send
  <2>1. op'.pc \in Sending => /\ op.pc \in Sending /\ op'.message = op.message
                              /\ op'.group = op.group
    <3>1. Flush => op'.pc \notin Sending \/ (op.pc \in Sending /\ op'.message = op.message
                                             /\ op'.group = op.group)
      BY <1>0, FlushOp, ProceedIs DEF Sending
    <3>2. (\E t \in Task : Commit(t)) =>
            op'.pc \notin Sending \/ (op.pc \in Sending /\ op'.message = op.message
                                      /\ op'.group = op.group)
      BY <1>0, CommitOp, ProceedIs DEF Sending
    <3>3. Asides => op'.group = op.group
      BY <1>0, SameOpIs DEF Asides
    <3>. QED
      BY <1>0, <1>5, <3>1, <3>2, <3>3, SendingStep DEF Sending
  <2>. QED
    BY <1>2, <1>3, <2>1 DEF SharedInv
<1>. QED
  BY <1>4, <1>5

\* A task is chosen by a check, or when its last delivery has been looked up.
LEMMA ChosenMoves ==
  ASSUME IInv, IInv', [Next]_vars, NEW t \in Task, t \in Chosen'
  PROVE  \/ t \in Chosen /\ ~(Commit(t) /\ op.pc = "commit")
         \/ Check(t) /\ ~Refuses(t) /\ ~LooksUp(t) /\ op'.pc = "check"
         \/ /\ Restored \/ Requeued
            /\ t = op.subject /\ op' = Consider(t)
<1>0. /\ TypeOK /\ StoreInv /\ FlowInv /\ TaskInv /\ op \in OpType /\ op' \in OpType
  BY TypeSplit DEF IInv, Types
<1>1. op'.pc \notin {"none", "pick"}
  BY DEF Chosen, Looking, Resolved
<1>2. op' # Proceed
  BY <1>0, <1>1, ProceedIs
<1>. DEFINE Goal == \/ t \in Chosen /\ ~(Commit(t) /\ op.pc = "commit")
                    \/ Check(t) /\ ~Refuses(t) /\ ~LooksUp(t) /\ op'.pc = "check"
                    \/ /\ Restored \/ Requeued
                       /\ t = op.subject /\ op' = Consider(t)
<1>3. CASE Asides /\ ~\E u \in Task : Commit(u)
  <2>1. Chosen' = Chosen
    BY <1>0, <1>3, SameOpIs DEF Asides, Chosen, Batch
  <2>. QED
    BY <1>3, <2>1
<1>4. CASE TableEdits
  BY <1>1, <1>4, EditMoves, RestIs DEF Edited
<1>5. CASE BeginDrive \/ EndDrive \/ Crash \/ \E u \in Task : RunNow(u) \/ Pick(u)
  <2>1. op'.pc = "check" /\ op'.candidates = {}
    BY <1>0, <1>1, <1>5, BeginOp, RunOp, PickOp, RestIs DEF EndDrive, Crash, FlowInv
  <2>. QED
    BY <2>1 DEF Chosen, Looking
<1>6. ASSUME NEW u \in Task, Check(u) PROVE Goal
  <2>1. op.pc = "check" /\ op'.pc \in {"check", "restore"} /\ Chosen = op.candidates
    BY <1>0, <1>6, CheckOp DEF Chosen, Looking
  <2>2. Chosen' = op'.candidates
    BY <2>1 DEF Chosen, Looking
  <2>3. CASE op' = Skip(u)
    BY <1>0, <2>1, <2>2, <2>3, LookedFloor
  <2>4. CASE op' = Consider(u) /\ ~Refuses(u) /\ ~LooksUp(u)
    BY <1>0, <1>6, <2>1, <2>2, <2>4, LookedFloor
  <2>5. CASE op' = [op EXCEPT !.pc = "restore", !.subject = u, !.session = rows[u].last.session]
    <3>1. op'.candidates = op.candidates
      BY <1>0, <2>5 DEF OpType
    <3>. QED
      BY <2>1, <2>2, <3>1
  <2>. QED
    BY <1>6, <2>3, <2>4, <2>5 DEF Check
<1>7. CASE Restored \/ Requeued
  <2>1. op.pc \in {"restore", "requeue"} /\ Chosen = op.candidates
    BY <1>7 DEF Restored, Requeued, Chosen, Looking
  <2>2. \/ op' = Skip(op.subject) \/ op' = Consider(op.subject)
        \/ op' = [op EXCEPT !.pc = "requeue", !.held = op'.held, !.idled = FALSE]
    <3>1. CASE Restored
      <4>. DEFINE holders == Holders(rows[op.subject].last.message)
      <4>1. \/ op' = Skip(op.subject) \/ op' = Consider(op.subject)
            \/ op' = [op EXCEPT !.pc = "requeue", !.held = holders, !.idled = FALSE]
        BY <3>1 DEF Restored
      <4>. HIDE DEF holders
      <4>. QED
        BY <1>0, <4>1 DEF OpType
    <3>2. CASE Requeued
      BY <1>2, <3>2 DEF Requeued, Abandon
    <3>. QED
      BY <1>7, <3>1, <3>2
  <2>3. CASE op' = Skip(op.subject) \/ op' = Consider(op.subject)
    <3>1. /\ op'.pc = "check"
          /\ \/ op'.candidates = op.candidates
             \/ op'.candidates = op.candidates \cup {op.subject} /\ op' = Consider(op.subject)
      BY <1>0, <2>3 DEF Skip, Consider, OpType
    <3>2. Chosen' = op'.candidates
      BY <3>1 DEF Chosen, Looking
    <3>. QED
      BY <1>7, <2>1, <3>1, <3>2
  <2>4. CASE op' = [op EXCEPT !.pc = "requeue", !.held = op'.held, !.idled = FALSE]
    <3>1. op'.pc = "requeue" /\ op'.candidates = op.candidates
      BY <1>0, <2>4 DEF OpType
    <3>2. Chosen' = op'.candidates
      BY <3>1 DEF Chosen, Looking
    <3>. QED
      BY <2>1, <3>1, <3>2
  <2>. QED
    BY <2>2, <2>3, <2>4
<1>8. CASE Admit
  <2>. DEFINE admitted == {u \in op.candidates : op.manual \/ rows[u].at <= now}
              first == CHOOSE u \in admitted : TRUE
  <2>1. op.pc = "check" /\ Chosen = op.candidates
    BY <1>8 DEF Admit, Chosen, Looking
  <2>2. op'.group \subseteq op.candidates /\ op'.pc \in {"open", "reserve"}
    <3>1. \/ op' = [Proceed EXCEPT !.pc = "open", !.manual = op.manual, !.group = admitted,
                                   !.subject = first, !.session = Destination(first)]
          \/ op' = [Proceed EXCEPT !.pc = "reserve", !.manual = op.manual, !.group = admitted,
                                   !.subject = first]
      BY <1>8, <1>2 DEF Admit, Abandon
    <3>2. admitted \subseteq op.candidates /\ Proceed \in OpType
      BY <1>0, ProceedIs
    <3>. HIDE DEF admitted, first
    <3>3. op'.group = admitted /\ op'.pc \in {"open", "reserve"}
      BY <3>1, <3>2 DEF OpType
    <3>. QED
      BY <3>2, <3>3
  <2>3. Chosen' = op'.group
    BY <2>2 DEF Chosen, Looking, Resolved, Batch
  <2>. QED
    BY <2>1, <2>2, <2>3
<1>9. CASE Reserve
  <2>1. op.pc = "reserve" /\ op'.pc = "create" /\ op'.group = op.group
    BY <1>0, <1>2, <1>9, ReserveOp
  <2>2. Chosen' = op.group /\ Chosen = op.group
    BY <2>1 DEF Chosen, Looking, Resolved, Batch
  <2>. QED
    BY <2>1, <2>2
<1>10. CASE Open \/ Create \/ Send
  <2>1. /\ op.pc \in {"open", "create", "send"} /\ op'.pc \in {"create", "send", "flush"}
        /\ op'.group \subseteq op.group
    BY <1>0, <1>2, <1>10, OpenOp, CreateOp, SendOp
  <2>2. Chosen' = op'.group /\ Chosen = op.group
    BY <2>1 DEF Chosen, Looking, Resolved, Batch
  <2>. QED
    BY <2>1, <2>2
<1>11. CASE Flush
  <2>1. op.pc = "flush" /\ op'.pc = "commit" /\ op'.left = op.left /\ op.left \subseteq op.group
    BY <1>0, <1>2, <1>11, FlushOp DEF FlowInv, Sending
  <2>2. Chosen' = op.left /\ Chosen = op.group
    BY <2>1 DEF Chosen, Looking, Resolved, Batch
  <2>. QED
    BY <2>1, <2>2
<1>12. ASSUME NEW u \in Task, Commit(u) PROVE Goal
  <2>1. op.pc = "commit" /\ op'.pc = "commit" /\ op'.left = op.left \ {u}
    BY <1>0, <1>2, <1>12, CommitOp
  <2>2. Chosen' = op.left \ {u} /\ Chosen = op.left
    BY <2>1 DEF Chosen, Looking, Resolved, Batch
  <2>3. t # u /\ t \in op.left
    BY <2>2
  <2>4. ~Commit(t)
    <3>1. SUFFICES ASSUME Commit(t) PROVE FALSE
      OBVIOUS
    <3>2. op'.left = op.left \ {t}
      BY <1>0, <1>2, <3>1, CommitOp
    <3>. QED
      BY <2>1, <2>3, <3>2
  <2>. QED
    BY <2>2, <2>3, <2>4
<1>. QED
  BY <1>0, Steps, <1>3, <1>4, <1>5, <1>6, <1>7, <1>8, <1>9, <1>10, <1>11, <1>12

\* No task with the reminder that is looked up holds its slot, or has been chosen.
LEMMA LookedUp ==
  ASSUME IInv, SlotsAreWatched, ApartInv, SharedInv, ChosenInv, ClosedInv,
         NEW t \in Task, Check(t), ~Refuses(t), LooksUp(t),
         rows[t].last.message \in Waiting(rows[t].last.session),
         NEW u \in Holders(rows[t].last.message)
  PROVE  u \notin executing /\ u \notin op.candidates
<1>0. /\ TypeOK /\ ReceiptInv /\ FlowInv /\ TaskInv /\ op.pc = "check" /\ t \in op.unchecked
      /\ t \notin executing /\ rows[t].last # None /\ ~Archived(rows[t].last.session)
  BY DEF IInv, Check, Refuses, LooksUp
<1>1. /\ u \in Task /\ Present(u) /\ rows[u].kind # "new" /\ rows[u].last # None
      /\ rows[u].last.message = rows[t].last.message
  BY DEF Holders
<1>2. Present(t)
  BY <1>0 DEF FlowInv, TaskInv, Looking, Ahead, Batch
<1>3. rows[t].kind # "new"
  BY <1>0, <1>1 DEF SharedInv
<1>4. rows[u].last.session = rows[t].last.session
  BY <1>0, <1>1 DEF ReceiptInv
<1>5. Waits(t) /\ Waits(u)
  BY <1>0, <1>1, <1>2, <1>3, <1>4 DEF Waits
<1>6. u \notin op.candidates
  BY <1>0, <1>5 DEF ChosenInv, Chosen, Looking
<1>7. ASSUME u \in executing PROVE FALSE
  <2>1. PICK w \in watches : u \in w.tasks
    BY <1>0, <1>7 DEF SlotsAreWatched
  <2>2. t \in w.tasks
    BY <1>1, <1>5, <2>1 DEF ClosedInv, Closed
  <2>. QED
    BY <1>0, <2>1, <2>2 DEF ApartInv
<1>. QED
  BY <1>6, <1>7

\* How the last delivery is looked up.
LEMMA LookUpIs ==
  ASSUME IInv, Steady, SoughtInv, Restored
  PROVE  LET t == op.subject
             m == rows[t].last.message
         IN  /\ op.pc = "restore" /\ t \in Task /\ t \in op.group /\ Present(t)
             /\ op.session \in Session /\ rows[t].last # None
             /\ op.session = rows[t].last.session /\ t \notin executing
             /\ UNCHANGED rows
             /\ \/ /\ m \notin Waiting(op.session) /\ op' = Consider(t) /\ UNCHANGED slotVars
                \/ /\ m \in Waiting(op.session) /\ Holders(m) \cap (executing \cup op.candidates) = {}
                   /\ executing' = executing \cup Holders(m) /\ Watch(Holders(m), op.session, FALSE)
                   /\ op' = IF t \in Holders(m) THEN Skip(t) ELSE Consider(t)
                \/ /\ m \in Waiting(op.session) /\ Holders(m) \cap (executing \cup op.candidates) = {}
                   /\ executing' = executing \cup Holders(m) /\ UNCHANGED watches
                   /\ op'.pc = "requeue" /\ op'.held = Holders(m) /\ op'.subject = t
                   /\ op'.candidates = op.candidates
<1>0. /\ TypeOK /\ FlowInv /\ TaskInv /\ op \in OpType /\ op.pc = "restore"
  BY TypeSplit DEF IInv, Restored
<1>. DEFINE t == op.subject
            m == rows[t].last.message
            holders == Holders(m)
<1>1. /\ t \in Task /\ t \in op.group /\ Present(t) /\ op.session \in Session
      /\ rows[t].last # None /\ op.session = rows[t].last.session
  BY <1>0 DEF FlowInv, TaskInv, Looking, Facing, Ahead, Batch, OpType
<1>2. t \notin executing /\ UNCHANGED rows
  BY <1>0 DEF SoughtInv, Restored
<1>3. m \in Waiting(op.session) => holders \cap (executing \cup op.candidates) = {}
  BY <1>0 DEF SoughtInv
<1>4. ~Fault("restore")
  BY DEF Fault, Steady
<1>5. \/ m \notin Waiting(op.session) /\ op' = Consider(t) /\ UNCHANGED slotVars
      \/ /\ m \in Waiting(op.session)
         /\ executing' = executing \cup holders /\ Watch(holders, op.session, FALSE)
         /\ op' = IF t \in holders THEN Skip(t) ELSE Consider(t)
      \/ /\ m \in Waiting(op.session) /\ executing' = executing \cup holders /\ UNCHANGED watches
         /\ op' = [op EXCEPT !.pc = "requeue", !.held = holders, !.idled = FALSE]
  BY <1>4 DEF Restored
<1>. HIDE DEF holders
<1>6. op' = [op EXCEPT !.pc = "requeue", !.held = holders, !.idled = FALSE]
        => /\ op'.pc = "requeue" /\ op'.held = holders /\ op'.subject = t
           /\ op'.candidates = op.candidates
  BY <1>0 DEF OpType
<1>. QED
  BY <1>0, <1>1, <1>2, <1>3, <1>5, <1>6 DEF holders

\* A task that does not hold its slot for a waiting reminder has none.
LEMMA HoldsNone ==
  ASSUME NEW t \in Task, rows[t].last # None, t \notin Holders(rows[t].last.message)
  PROVE  ~Waits(t)
BY DEF Holders, Waits

LEMMA ChosenStep ==
  ASSUME IInv, IInv', FloorInv, Steady, SlotsAreWatched, SoughtInv, ChosenInv, ClosedInv,
         [Next]_vars, ~Crash
  PROVE  ChosenInv'
<1>0. /\ TypeOK /\ StoreInv /\ FlowInv /\ TaskInv /\ op \in OpType /\ op' \in OpType
      /\ Chosen' \subseteq Task
  BY TypeSplit DEF IInv, Types, FlowInv, Chosen, Looking, Resolved, Batch, OpType
<1>1. ASSUME NEW t \in Task, Check(t), ~Refuses(t), ~LooksUp(t)
      PROVE  ~Waits(t) /\ t \notin executing
  BY <1>1 DEF Refuses, LooksUp, Waits
<1>2. ASSUME NEW t \in Task, Restored, t = op.subject, op' = Consider(t)
      PROVE  ~Waits(t) /\ t \notin executing'
  <2>. DEFINE m == rows[t].last.message
              holders == Holders(m)
  <2>1. /\ rows[t].last # None /\ op.session = rows[t].last.session /\ t \notin executing
        /\ \/ m \notin Waiting(op.session) /\ UNCHANGED slotVars
           \/ /\ holders \cap (executing \cup op.candidates) = {}
              /\ executing' = executing \cup holders
              /\ op' = (IF t \in holders THEN Skip(t) ELSE Consider(t)) \/ op'.pc = "requeue"
    BY <1>2, LookUpIs
  <2>2. op'.pc = "check" /\ op'.candidates = op.candidates \cup {t}
        /\ Skip(t).candidates = op.candidates
    BY <1>0, <1>2, LookedFloor
  <2>. HIDE DEF holders
  <2>3. CASE m \notin Waiting(op.session) /\ UNCHANGED slotVars
    BY <2>1, <2>3 DEF Waits, slotVars
  <2>4. CASE /\ holders \cap (executing \cup op.candidates) = {}
             /\ executing' = executing \cup holders
             /\ op' = (IF t \in holders THEN Skip(t) ELSE Consider(t)) \/ op'.pc = "requeue"
    <3>1. t \notin holders
      BY <2>2, <2>4
    <3>. QED
      BY <2>1, <2>4, <3>1, HoldsNone DEF holders
  <2>. QED
    BY <2>1, <2>3, <2>4
<1>3. ASSUME NEW t \in Task, Requeued, t = op.subject, op' = Consider(t)
      PROVE  ~Waits(t) /\ t \notin executing'
  <2>1. /\ op.pc = "requeue" /\ t \notin executing \ op.held
        /\ op.held = Holders(rows[t].last.message) /\ rows[t].last # None
    BY <1>0, <1>3 DEF Requeued, ChosenInv, ClosedInv, FlowInv
  <2>2. /\ op' = IF t \in op.held THEN Skip(t) ELSE Consider(t)
        /\ UNCHANGED executing
    <3>1. op' # Proceed
      BY <1>0, <1>3, ProceedIs, LookedFloor
    <3>2. \/ /\ op' = IF op.subject \in op.held THEN Skip(op.subject) ELSE Consider(op.subject)
             /\ UNCHANGED executing
          \/ op' = Proceed
      BY <1>3 DEF Requeued, Abandon
    <3>. QED
      BY <1>3, <3>1, <3>2
  <2>3. t \notin op.held \/ t \in op.candidates
    <3>1. Skip(t).candidates = op.candidates /\ Consider(t).candidates = op.candidates \cup {t}
      BY <1>0, LookedFloor
    <3>2. Skip(t) = Consider(t) => t \in op.candidates
      BY <3>1
    <3>. QED
      BY <1>3, <2>2, <3>2
  <2>4. t \in op.candidates => ~Waits(t) /\ t \notin executing
    BY <2>1 DEF ChosenInv, Chosen, Looking, Sending
  <2>. QED
    BY <2>1, <2>2, <2>3, <2>4, HoldsNone
<1>4. ASSUME NEW t \in Chosen' PROVE ~Waits(t)'
  <2>. SUFFICES ASSUME Waits(t)' PROVE FALSE
    OBVIOUS
  <2>1. \/ Commit(t) /\ op.pc = "commit"
        \/ Waits(t)
    BY <1>0, <1>4, WaitsStep
  <2>2. \/ t \in Chosen /\ ~(Commit(t) /\ op.pc = "commit")
        \/ Check(t) /\ ~Refuses(t) /\ ~LooksUp(t) /\ op'.pc = "check"
        \/ (Restored \/ Requeued) /\ t = op.subject /\ op' = Consider(t)
    BY <1>0, <1>4, ChosenMoves
  <2>3. Check(t) \/ Restored \/ Requeued => op.pc # "commit"
    BY DEF Check, Restored, Requeued
  <2>. QED
    BY <1>0, <1>1, <1>2, <1>3, <1>4, <2>1, <2>2, <2>3 DEF ChosenInv
<1>5. ASSUME op'.pc \notin Sending, NEW t \in Chosen' PROVE t \notin executing'
  <2>1. \/ t \in Chosen /\ ~(Commit(t) /\ op.pc = "commit")
        \/ Check(t) /\ ~Refuses(t) /\ ~LooksUp(t) /\ op'.pc = "check"
        \/ (Restored \/ Requeued) /\ t = op.subject /\ op' = Consider(t)
    BY <1>0, <1>5, ChosenMoves
  <2>2. CASE t \in Chosen /\ op.pc \notin Sending
    <3>1. t \notin executing
      BY <2>2 DEF ChosenInv
    <3>2. CASE executing' \subseteq executing
      BY <3>1, <3>2
    <3>3. CASE Restored
      <4>1. t \in op.candidates
        BY <2>2, <3>3 DEF Restored, Chosen, Looking
      <4>. QED
        BY <3>1, <3>3, <4>1, LookUpIs DEF slotVars
    <3>4. CASE Send
      <4>1. UNCHANGED slotVars
        <5>1. op' = Proceed \/ op'.pc = "flush"
          BY <1>0, <3>4, SendOp
        <5>2. op'.pc \notin {"none", "pick", "flush"}
          BY <1>5 DEF Chosen, Looking, Resolved, Sending
        <5>. QED
          BY <1>0, <5>1, <5>2, ProceedIs
      <4>. QED
        BY <3>1, <4>1 DEF slotVars
    <3>. QED
      BY <3>2, <3>3, <3>4, TakenStep
  <2>3. CASE t \in Chosen /\ op.pc \in Sending
    <3>1. op'.pc \in Sending \cup {"none", "pick"}
      <4>1. Flush \/ Asides \/ (\E u \in Task : Commit(u)) \/ Crash
        BY <1>0, <2>3, Steps, EditMoves, RestIs
           DEF Edited, BeginDrive, EndDrive, RunNow, Pick, Check, Restored, Requeued, Admit,
               Reserve, Open, Create, Send, Sending
      <4>2. Flush => op'.pc \in Sending \cup {"none", "pick"}
        BY <1>0, FlushOp, ProceedIs DEF Sending
      <4>3. Asides => op'.pc = op.pc
        BY <1>0, SameOpIs DEF Asides
      <4>4. (\E u \in Task : Commit(u)) => op'.pc \in Sending \cup {"none", "pick"}
        BY <1>0, CommitOp, ProceedIs DEF Sending
      <4>. QED
        BY <2>3, <4>1, <4>2, <4>3, <4>4
    <3>. QED
      BY <1>5, <3>1 DEF Chosen, Looking, Resolved
  <2>4. CASE Check(t) /\ ~Refuses(t) /\ ~LooksUp(t)
    <3>1. UNCHANGED executing
      BY <2>4 DEF Check, slotVars
    <3>. QED
      BY <1>0, <1>1, <2>4, <3>1
  <2>. QED
    BY <1>0, <1>2, <1>3, <2>1, <2>2, <2>3, <2>4
<1>6. ASSUME op'.pc = "requeue" PROVE op'.subject \notin executing' \ op'.held
  <2>1. CASE Restored
    <3>1. /\ op'.subject = op.subject /\ op.subject \notin executing
          /\ executing' = executing \cup op'.held
      BY <1>0, <1>6, <2>1, LookUpIs, LookedFloor
    <3>. QED
      BY <3>1
  <2>2. CASE Asides /\ op.pc = "requeue" /\ op'.subject = op.subject
    <3>1. op'.held = op.held
      BY <1>0, <2>2, SameOpIs DEF Asides
    <3>2. executing' \subseteq executing
      BY <2>2, TakenStep DEF Restored, Send
    <3>. QED
      BY <2>2, <3>1, <3>2 DEF ChosenInv
  <2>. QED
    BY <1>0, <1>6, <2>1, <2>2, SendingStep
<1>. QED
  BY <1>4, <1>5, <1>6 DEF ChosenInv

LEMMA SoughtStep ==
  ASSUME IInv, IInv', Steady, SlotsAreWatched, ApartInv, SharedInv, SoughtInv, ChosenInv,
         ClosedInv, [Next]_vars, ~Crash
  PROVE  SoughtInv'
<1>0. TypeOK /\ StoreInv /\ FlowInv /\ TaskInv /\ ReceiptInv /\ op \in OpType /\ sent \in Nat
  BY TypeSplit, BoundAssumption DEF IInv, Types
<1>. SUFFICES ASSUME op'.pc = "restore" PROVE SoughtInv'
  BY DEF SoughtInv
<1>1. ASSUME op'.subject \notin executing',
             \A m, s : /\ m = rows'[op'.subject].last.message /\ s = op'.session
                       /\ m \in Waiting(s)'
                       => Holders(m)' \cap (executing' \cup op'.candidates) = {}
      PROVE  SoughtInv'
  BY <1>1 DEF SoughtInv, Waiting, Exists, Holders, Present
<1>2. Asides \/ \E t \in Task : Check(t)
  <2>1. ~(\/ BeginDrive \/ EndDrive \/ Crash \/ Restored \/ Requeued \/ Admit \/ Reserve
          \/ Open \/ Create \/ Send \/ Flush \/ TableEdits
          \/ \E t \in Task : RunNow(t) \/ Pick(t) \/ Commit(t))
    BY <1>0, BeginOp, RunOp, PickOp, RestIs, RestoredOp, RequeuedOp, AdmitOp, ReserveOp,
       OpenOp, CreateOp, SendOp, FlushOp, CommitOp, ProceedIs, EditMoves
       DEF EndDrive, Crash, Edited
  <2>. QED
    BY <1>0, <2>1, Steps
<1>3. executing' \subseteq executing
  BY <1>0, TakenStep, RestoredOp, SendOp, ProceedIs
<1>4. CASE Asides
  <2>1. /\ op'.subject = op.subject /\ op'.session = op.session /\ op.pc = "restore"
        /\ op'.candidates = op.candidates /\ UNCHANGED rows
    BY <1>0, <1>4, SameOpIs DEF Asides
  <2>2. op.session \in Session /\ op.subject \in Task /\ rows[op.subject].last # None
    BY <1>0, <2>1 DEF FlowInv, Facing, Looking, OpType
  <2>3. op.subject \notin executing
        /\ (rows[op.subject].last.message \in Waiting(op.session) =>
              Holders(rows[op.subject].last.message) \cap (executing \cup op.candidates) = {})
    BY <2>1 DEF SoughtInv
  <2>4. ASSUME NEW m, NEW s, m = rows'[op'.subject].last.message, s = op'.session, m \in Waiting(s)'
        PROVE  Holders(m)' \cap (executing' \cup op'.candidates) = {}
    <3>1. m = rows[op.subject].last.message /\ s = op.session /\ s \in Session
      BY <2>1, <2>2, <2>4
    <3>2. m <= sent /\ m \in Nat
      BY <1>0, <2>2, <3>1, TypeSplit DEF ReceiptInv, Types, Row, Receipt, Message
    <3>3. m # sent + 1
      BY <1>0, <3>2
    <3>4. m \in Waiting(s)
      BY <1>0, <2>4, <3>1, <3>3, InboxStep
    <3>5. Holders(m)' = Holders(m)
      BY <2>1 DEF Holders, Present
    <3>. QED
      BY <1>3, <2>1, <2>3, <3>1, <3>4, <3>5
  <2>. QED
    BY <1>1, <1>3, <2>1, <2>3, <2>4
<1>5. ASSUME NEW t \in Task, Check(t) PROVE SoughtInv'
  <2>1. /\ ~Refuses(t) /\ LooksUp(t)
        /\ op' = [op EXCEPT !.pc = "restore", !.subject = t, !.session = rows[t].last.session]
    BY <1>0, <1>5, LookedFloor DEF Check
  <2>2. /\ op'.subject = t /\ op'.session = rows[t].last.session
        /\ op'.candidates = op.candidates
    BY <1>0, <2>1 DEF OpType
  <2>3. UNCHANGED <<rows, executing, inbox>> /\ t \notin executing
    BY <1>5, <2>1 DEF Check, slotVars, logVars, Refuses
  <2>4. rows[t].last.message \in Waiting(rows[t].last.session) =>
          \A u \in Holders(rows[t].last.message) : u \notin executing /\ u \notin op.candidates
    BY <1>5, <2>1, LookedUp
  <2>5. ASSUME NEW m, NEW s, m = rows'[op'.subject].last.message, s = op'.session, m \in Waiting(s)'
        PROVE  Holders(m)' \cap (executing' \cup op'.candidates) = {}
    <3>1. m = rows[t].last.message /\ s = rows[t].last.session
      BY <2>2, <2>3, <2>5
    <3>2. m \in Waiting(s) /\ Holders(m)' = Holders(m)
      BY <2>3, <2>5 DEF Waiting, Exists, Holders, Present
    <3>. QED
      BY <2>2, <2>3, <2>4, <3>1, <3>2
  <2>. QED
    BY <1>1, <2>2, <2>3, <2>5
<1>. QED
  BY <1>2, <1>4, <1>5

\* The slots of the operation stay those of one reminder.
LEMMA HeldStep ==
  ASSUME IInv, IInv', Steady, SoughtInv, ClosedInv, [Next]_vars
  PROVE  /\ op'.pc = "requeue" => /\ UNCHANGED rows
                                  /\ op'.held = Holders(rows[op'.subject].last.message)
         /\ op'.pc \in Sending =>
              /\ \A t \in Batch' : rows'[t].kind # "new" => t \in op'.held
              /\ \A t \in op'.held : rows'[t].kind # "new"
              /\ \A t \in Task : /\ Present(t)' /\ rows'[t].kind # "new" /\ rows'[t].last # None
                                 /\ rows'[t].last.message = op'.message
                                 => t \in op'.held
              /\ \A t \in op'.held \ op'.left :
                   /\ Present(t)' /\ rows'[t].kind # "new" /\ rows'[t].last # None
                   /\ rows'[t].last.message = op'.message
<1>0. /\ TypeOK /\ StoreInv /\ FlowInv /\ TaskInv /\ ReceiptInv /\ op \in OpType /\ op' \in OpType
      /\ rows \in [Task -> Row] /\ sent \in Nat
  BY TypeSplit, BoundAssumption DEF IInv, Types
<1>1. ASSUME op'.pc = "requeue"
      PROVE  UNCHANGED rows /\ op'.held = Holders(rows[op'.subject].last.message)
  <2>1. CASE Restored
    <3>1. op'.subject = op.subject /\ op'.held = Holders(rows[op.subject].last.message)
      BY <1>0, <1>1, <2>1, RestoredOp
    <3>. QED
      BY <2>1, <3>1 DEF Restored
  <2>2. CASE Asides /\ op.pc = "requeue" /\ op'.subject = op.subject
    <3>1. op'.held = op.held
      BY <1>0, <2>2, SameOpIs DEF Asides
    <3>. QED
      BY <2>2, <3>1 DEF ClosedInv, Asides
  <2>. QED
    BY <1>0, <1>1, <2>1, <2>2, SendingStep
<1>. DEFINE Whole ==
              /\ \A t \in Batch' : rows'[t].kind # "new" => t \in op'.held
              /\ \A t \in op'.held : rows'[t].kind # "new"
              /\ \A t \in Task : /\ Present(t)' /\ rows'[t].kind # "new" /\ rows'[t].last # None
                                 /\ rows'[t].last.message = op'.message
                                 => t \in op'.held
              /\ \A t \in op'.held \ op'.left :
                   /\ Present(t)' /\ rows'[t].kind # "new" /\ rows'[t].last # None
                   /\ rows'[t].last.message = op'.message
<1>2. ASSUME op.pc \in Sending, op'.pc \in Sending, UNCHANGED rows, op'.held = op.held,
             op'.message = op.message, op'.left = op.left, Batch' \subseteq Batch
      PROVE  Whole
  <2>1. /\ \A t \in Batch : rows[t].kind # "new" => t \in op.held
        /\ \A t \in op.held : rows[t].kind # "new"
        /\ Holders(op.message) \subseteq op.held
        /\ op.held \ op.left \subseteq Holders(op.message)
    BY <1>2 DEF ClosedInv
  <2>2. \A t \in Batch' : rows'[t].kind # "new" => t \in op'.held
    BY <1>2, <2>1
  <2>3. \A t \in op'.held : rows'[t].kind # "new"
    BY <1>2, <2>1
  <2>4. \A t \in Task : /\ Present(t)' /\ rows'[t].kind # "new" /\ rows'[t].last # None
                        /\ rows'[t].last.message = op'.message
                        => t \in op'.held
    BY <1>2, <2>1 DEF Holders, Present
  <2>5. \A t \in op'.held \ op'.left :
          /\ Present(t)' /\ rows'[t].kind # "new" /\ rows'[t].last # None
          /\ rows'[t].last.message = op'.message
    BY <1>2, <2>1 DEF Holders, Present
  <2>. QED
    BY <2>2, <2>3, <2>4, <2>5
<1>3. ASSUME Send, op'.pc \in Sending PROVE Whole
  <2>. DEFINE admitted == {t \in op.group : op.manual \/ rows[t].at <= now}
              holders == {t \in admitted : rows[t].kind # "new"}
  <2>1. op' # Proceed
    BY <1>0, <1>3, ProceedIs DEF Sending
  <2>2. op' = [op EXCEPT !.pc = "flush", !.group = admitted, !.left = admitted,
                         !.held = holders, !.message = sent + 1, !.sentAt = now, !.idled = FALSE]
        /\ UNCHANGED rows
    BY <1>3, <2>1 DEF Send, Abandon
  <2>3. holders \subseteq admitted /\ \A t \in admitted : t \in holders <=> rows[t].kind # "new"
    OBVIOUS
  <2>. HIDE DEF admitted, holders
  <2>4. /\ op'.pc = "flush" /\ op'.group = admitted /\ op'.left = admitted
        /\ op'.held = holders /\ op'.message = sent + 1
    BY <1>0, <2>2 DEF OpType
  <2>5. Batch' = admitted
    BY <2>4 DEF Batch
  <2>6. \A t \in Task : rows[t].last # None => rows[t].last.message # sent + 1
    <3>1. \A t \in Task : rows[t].last # None =>
            rows[t].last.message <= sent /\ rows[t].last.message \in Nat
      BY <1>0 DEF ReceiptInv, Row, Receipt, Message
    <3>. QED
      BY <1>0, <3>1
  <2>. QED
    BY <2>2, <2>3, <2>4, <2>5, <2>6
<1>4. ASSUME Flush, op'.pc \in Sending PROVE Whole
  <2>1. /\ op.pc = "flush" /\ op'.pc = "commit" /\ op'.left = op.left
        /\ op'.message = op.message /\ op'.held = op.held /\ op.left \subseteq op.group
    BY <1>0, <1>4, FlushOp, ProceedIs DEF Sending, FlowInv
  <2>2. Batch' \subseteq Batch /\ UNCHANGED rows
    BY <1>4, <2>1 DEF Batch, Flush
  <2>. QED
    BY <1>2, <2>1, <2>2 DEF Sending
<1>5. ASSUME Asides, op.pc \in Sending PROVE Whole
  <2>1. /\ op'.pc = op.pc /\ op'.left = op.left /\ op'.message = op.message
        /\ op'.held = op.held /\ op'.group = op.group /\ UNCHANGED rows
    BY <1>0, <1>5, SameOpIs DEF Asides
  <2>2. Batch' \subseteq Batch
    BY <2>1 DEF Batch
  <2>. QED
    BY <1>2, <1>5, <2>1, <2>2
<1>6. ASSUME NEW t \in Task, Commit(t), op'.pc \in Sending PROVE Whole
  <2>1. /\ op.pc = "commit" /\ op'.pc = "commit" /\ t \in op.left /\ op'.left = op.left \ {t}
        /\ op'.message = op.message /\ op'.held = op.held
    BY <1>0, <1>6, CommitOp, ProceedIs DEF Sending
  <2>2. /\ \A u \in op.left : rows[u].kind # "new" => u \in op.held
        /\ \A u \in op.held : rows[u].kind # "new"
        /\ Holders(op.message) \subseteq op.held
        /\ op.held \ op.left \subseteq Holders(op.message)
    BY <2>1 DEF ClosedInv, Sending, Batch
  <2>3. /\ \A u \in Task \ {t} : rows'[u] = rows[u]
        /\ rows'[t].last \in Receipt /\ rows'[t].last.message = op.message
        /\ rows'[t].kind = IF rows[t].kind = "once" THEN "session" ELSE rows[t].kind
        /\ rows'[t].status \in {rows[t].status, "active", "ended"}
    <3>1. op' # Proceed
      BY <1>0, <2>1, ProceedIs
    <3>. QED
      BY <1>0, <1>6, <3>1, CommitIs
  <2>4. Present(t)' /\ rows'[t].last # None /\ (rows'[t].kind # "new" <=> rows[t].kind # "new")
    <3>1. Present(t)
      BY <1>0, <2>1 DEF TaskInv, Ahead, Batch
    <3>. QED
      BY <2>3, <3>1, ReceiptAssumption DEF Present
  <2>5. Batch' = op.left \ {t}
    BY <2>1 DEF Batch
  <2>6. \A u \in Task \ {t} : Present(u)' <=> Present(u)
    BY <2>3 DEF Present
  <2>7. \A u \in Task : u \in Holders(op.message) <=>
          /\ Present(u) /\ rows[u].kind # "new" /\ rows[u].last # None
          /\ rows[u].last.message = op.message
    BY DEF Holders
  <2>8. op.left \subseteq Task /\ op.held \subseteq Task
    BY <1>0 DEF OpType
  <2>9. \A u \in Batch' : rows'[u].kind # "new" => u \in op'.held
    BY <2>1, <2>2, <2>3, <2>5, <2>8
  <2>10. \A u \in op'.held : rows'[u].kind # "new"
    BY <2>1, <2>2, <2>3, <2>4, <2>8
  <2>11. \A u \in Task : /\ Present(u)' /\ rows'[u].kind # "new" /\ rows'[u].last # None
                         /\ rows'[u].last.message = op'.message
                         => u \in op'.held
    BY <2>1, <2>2, <2>3, <2>4, <2>6, <2>7
  <2>12. \A u \in op'.held \ op'.left :
           /\ Present(u)' /\ rows'[u].kind # "new" /\ rows'[u].last # None
           /\ rows'[u].last.message = op'.message
    BY <2>1, <2>2, <2>3, <2>4, <2>6, <2>7, <2>8
  <2>. QED
    BY <2>9, <2>10, <2>11, <2>12
<1>7. op'.pc \in Sending => Whole
  <2>. HIDE DEF Whole
  <2>. QED
    BY <1>0, <1>3, <1>4, <1>5, <1>6, SendingStep DEF Sending
<1>. QED
  BY <1>1, <1>7

\* The same after a step.
Closes(T) ==
  \A t \in T, u \in Task :
    Waits(t)' /\ Waits(u)' /\ rows'[t].last.message = rows'[u].last.message => u \in T

\* A watch is for all tasks of a reminder that waits.
LEMMA ClosedStep ==
  ASSUME IInv, IInv', FloorInv, Steady, ApartInv, SoughtInv, ChosenInv, ClosedInv,
         [Next]_vars, ~Crash
  PROVE  ClosedInv'
<1>0. /\ TypeOK /\ StoreInv /\ FlowInv /\ TaskInv /\ op \in OpType /\ op' \in OpType
      /\ watches \subseteq [tasks : SUBSET Task, session : Session, done : BOOLEAN]
  BY TypeSplit DEF IInv, Types
<1>1. ASSUME NEW t \in Task, NEW u \in Task, Waits(t)', Waits(u)',
             rows'[t].last.message = rows'[u].last.message
      PROVE  \/ Waits(t) /\ Waits(u) /\ rows[t].last.message = rows[u].last.message
             \/ /\ op.pc = "commit" /\ rows'[t].last.message = op.message
                /\ \/ t \in op.left /\ t \in op.held
                   \/ u \in op.left /\ u \in op.held
  <2>1. ASSUME NEW v \in op.left, op.pc = "commit", rows[v].kind # "new" PROVE v \in op.held
    BY <2>1 DEF ClosedInv, Sending, Batch
  <2>. QED
    BY <1>0, <1>1, <2>1, WaitsStep
<1>2. ASSUME NEW T, T \in SUBSET Task, Closed(T), T \cap InHand = {} PROVE Closes(T)
  <2>. SUFFICES ASSUME NEW t \in T, NEW u \in Task, Waits(t)', Waits(u)',
                       rows'[t].last.message = rows'[u].last.message
                PROVE  u \in T
    BY DEF Closes
  <2>1. CASE Waits(t) /\ Waits(u) /\ rows[t].last.message = rows[u].last.message
    BY <1>2, <2>1 DEF Closed
  <2>2. CASE /\ op.pc = "commit" /\ rows'[t].last.message = op.message
             /\ u \in op.left /\ u \in op.held
    <3>1. InHand = op.held /\ t \notin op.held
      BY <1>2, <2>2 DEF InHand, Holding
    <3>2. t \notin op.left \/ rows[t].kind = "new"
      BY <2>2, <3>1 DEF ClosedInv, Sending, Batch
    <3>3. Waits(t) /\ rows'[t].last = rows[t].last
      BY <1>0, <1>2, <3>2, WaitsStep
    <3>4. t \in Holders(op.message)
      BY <1>2, <2>2, <3>3 DEF Waits, Holders
    <3>. QED
      BY <2>2, <3>1, <3>4 DEF ClosedInv, Sending
  <2>3. CASE op.pc = "commit" /\ t \in op.held
    BY <1>2, <2>3 DEF InHand, Holding
  <2>. QED
    BY <1>1, <1>2, <2>1, <2>2, <2>3
<1>3. ASSUME NEW m, UNCHANGED rows PROVE Closes(Holders(m))
  BY <1>3 DEF Closes, Holders, Waits, Present
<1>4. \A w \in watches : Closes(w.tasks)
  <2>1. \A w \in watches : w.tasks \in SUBSET Task /\ Closed(w.tasks) /\ w.tasks \cap InHand = {}
    BY <1>0 DEF ApartInv, ClosedInv
  <2>. QED
    BY <1>2, <2>1
<1>5. ASSUME NEW T, NEW s, NEW d, Watch(T, s, d), Closes(T), NEW w \in watches'
      PROVE  Closes(w.tasks)
  <2>. DEFINE new == [tasks |-> T, session |-> s, done |-> d]
  <2>1. w \in watches \/ w = new
    BY <1>5 DEF Watch
  <2>2. new.tasks = T
    OBVIOUS
  <2>. QED
    BY <1>4, <1>5, <2>1, <2>2
<1>6. ASSUME Restored PROVE \A w \in watches' : Closes(w.tasks)
  <2>1. UNCHANGED rows
        /\ (UNCHANGED watches \/ Watch(Holders(rows[op.subject].last.message), op.session, FALSE))
    BY <1>6, LookUpIs DEF slotVars
  <2>2. Closes(Holders(rows[op.subject].last.message))
    BY <1>3, <2>1
  <2>. QED
    BY <1>4, <1>5, <2>1, <2>2
<1>7. ASSUME Requeued PROVE \A w \in watches' : Closes(w.tasks)
  <2>1. /\ op.held = Holders(rows[op.subject].last.message) /\ UNCHANGED rows
        /\ UNCHANGED watches \/ Watch(op.held, op.session, op.idled)
    BY <1>7 DEF Requeued, ClosedInv
  <2>2. Closes(op.held)
    BY <1>3, <2>1
  <2>. QED
    BY <1>4, <1>5, <2>1, <2>2
<1>8. ASSUME NEW c \in Task, Commit(c) PROVE \A w \in watches' : Closes(w.tasks)
  <2>1. /\ op.pc = "commit" /\ op.left \in SUBSET Task /\ op.held \in SUBSET Task
        /\ \A u \in op.left : ~Waits(u)
        /\ \A u \in op.left : rows[u].kind # "new" => u \in op.held
        /\ \A u \in Holders(op.message) : u \in op.held
        /\ \A u \in op.held \ op.left : u \in Holders(op.message)
    BY <1>0, <1>8 DEF Commit, ChosenInv, ClosedInv, Chosen, Batch, Sending, Resolved, Looking, OpType
  <2>2. \A u \in Task : u \in Holders(op.message) <=>
          /\ Present(u) /\ rows[u].kind # "new" /\ rows[u].last # None
          /\ rows[u].last.message = op.message
    BY DEF Holders
  <2>3. ASSUME NEW u \in Task, Waits(u)'
        PROVE  \/ u \in op.left /\ u \in op.held /\ rows'[u].last.message = op.message
               \/ u \notin op.left /\ Waits(u) /\ rows'[u].last = rows[u].last
    BY <1>0, <2>1, <2>3, WaitsStep
  <2>4. Closes(op.held)
    <3>1. ASSUME NEW u \in Task, Waits(u)', u \in op.held PROVE rows'[u].last.message = op.message
      BY <2>1, <2>2, <2>3, <3>1
    <3>2. ASSUME NEW u \in Task, Waits(u)', rows'[u].last.message = op.message PROVE u \in op.held
      BY <2>1, <2>2, <2>3, <3>2 DEF Waits
    <3>. QED
      BY <2>1, <3>1, <3>2 DEF Closes
  <2>5. ASSUME UNCHANGED rows PROVE Closes(op.held \ op.left)
    <3>1. \A u \in Task : Waits(u)' => Waits(u)
      BY <1>8, <2>5 DEF Commit, logVars, world, Waits, Present, Waiting, Exists, Archived
    <3>. QED
      BY <2>1, <2>2, <2>5, <3>1 DEF Closes, Waits
  <2>6. \/ Watch(op.held \ {}, op.session, op.idled)
        \/ UNCHANGED rows /\ Watch(op.held \ op.left, op.session, op.idled)
        \/ UNCHANGED watches
    BY <1>8 DEF Commit, Settle, slotVars
  <2>7. op.held \ {} = op.held
    OBVIOUS
  <2>. QED
    BY <1>4, <1>5, <2>4, <2>5, <2>6, <2>7
<1>9. ASSUME NEW s \in Session, Resolves(s) PROVE \A w \in watches' : Closes(w.tasks)
  <2>. DEFINE image(w) == IF w.session = s THEN [w EXCEPT !.done = TRUE] ELSE w
  <2>1. watches' = {image(w) : w \in watches}
    BY <1>9 DEF Resolves
  <2>2. \A w \in watches : image(w).tasks = w.tasks
    BY <1>0
  <2>. HIDE DEF image
  <2>. QED
    BY <1>4, <2>1, <2>2
<1>10. \A w \in watches' : Closes(w.tasks)
  <2>1. Send \/ Flush => UNCHANGED watches
    BY DEF Send, Flush, slotVars
  <2>2. (\E w \in watches : Release(w)) => watches' \subseteq watches
    BY DEF Release
  <2>. QED
    BY SlotMoves, <1>4, <1>6, <1>7, <1>8, <1>9, <2>1, <2>2 DEF slotVars
<1>11. \A w \in watches' : Closed(w.tasks)'
  BY <1>10 DEF Closes, Closed
<1>12. (op.pc = "requeue" => op.held = Holders(rows[op.subject].last.message))'
  BY HeldStep DEF Holders, Present
<1>13. ASSUME op'.pc \in Sending
       PROVE  /\ {t \in Batch' : rows'[t].kind # "new"} \subseteq op'.held
              /\ \A t \in op'.held : rows'[t].kind # "new"
              /\ {t \in Task : /\ Present(t)' /\ rows'[t].kind # "new" /\ rows'[t].last # None
                               /\ rows'[t].last.message = op'.message} \subseteq op'.held
              /\ op'.held \ op'.left \subseteq
                   {t \in Task : /\ Present(t)' /\ rows'[t].kind # "new" /\ rows'[t].last # None
                                 /\ rows'[t].last.message = op'.message}
  <2>1. op'.held \subseteq Task
    BY <1>0 DEF OpType
  <2>. QED
    BY <1>13, <2>1, HeldStep
<1>14. Sending' = Sending
  BY DEF Sending
<1>. QED
  BY <1>11, <1>12, <1>13, <1>14 DEF ClosedInv, Holders

\* Where nothing separates the tasks of a reminder, no slot is taken twice.
LEMMA TakesFreeStep ==
  ASSUME IInv, IInv', Steady, SoughtInv, ChosenInv, [Next]_vars
  PROVE  TakesFree
<1>0. /\ TypeOK /\ StoreInv /\ FlowInv /\ TaskInv /\ op \in OpType
      /\ watches \subseteq [tasks : SUBSET Task, session : Session, done : BOOLEAN]
  BY TypeSplit DEF IInv, Types
<1>1. ASSUME op.pc \notin Holding, op'.pc \in Holding PROVE op'.held \cap executing = {}
  <2>1. CASE Restored
    <3>1. op'.pc = "requeue" /\ op'.held = Holders(rows[op.subject].last.message)
      BY <1>0, <1>1, <2>1, RestoredOp DEF Holding
    <3>2. Consider(op.subject).pc = "check"
      BY <1>0, <2>1, LookUpIs, LookedFloor
    <3>. QED
      BY <2>1, <3>1, <3>2, LookUpIs
  <2>2. CASE Send
    <3>1. op.pc = "send" /\ op' # Proceed
      BY <1>0, <1>1, <2>2, ProceedIs DEF Holding, Send
    <3>2. op'.held \subseteq op.group
      <4>. DEFINE admitted == {t \in op.group : op.manual \/ rows[t].at <= now}
                  holders == {t \in admitted : rows[t].kind # "new"}
      <4>1. op' = [op EXCEPT !.pc = "flush", !.group = admitted, !.left = admitted,
                             !.held = holders, !.message = sent + 1, !.sentAt = now,
                             !.idled = FALSE]
        BY <2>2, <3>1 DEF Send, Abandon
      <4>2. holders \subseteq op.group
        OBVIOUS
      <4>. HIDE DEF admitted, holders
      <4>. QED
        BY <1>0, <4>1, <4>2 DEF OpType
    <3>3. op.group \cap executing = {}
      BY <3>1 DEF ChosenInv, Chosen, Looking, Resolved, Batch, Sending
    <3>. QED
      BY <3>2, <3>3
  <2>. QED
    BY <1>0, <1>1, <2>1, <2>2, SendingStep DEF Holding, Flush
<1>2. ASSUME op.pc = "restore", NEW w \in watches', w \notin watches, ~w.done
      PROVE  w.tasks \cap executing = {}
  <2>1. CASE Restored
    <3>. DEFINE holders == Holders(rows[op.subject].last.message)
                new == [tasks |-> holders, session |-> op.session, done |-> FALSE]
    <3>1. \/ UNCHANGED watches
          \/ holders \cap executing = {} /\ Watch(holders, op.session, FALSE)
      BY <2>1, LookUpIs DEF slotVars
    <3>2. Watch(holders, op.session, FALSE) => w \in watches \/ w = new
      BY <1>2 DEF Watch
    <3>3. new.tasks = holders
      OBVIOUS
    <3>. HIDE DEF new, holders
    <3>. QED
      BY <1>2, <3>1, <3>2, <3>3
  <2>2. ASSUME NEW s \in Session, Resolves(s) PROVE FALSE
    <3>. DEFINE image(v) == IF v.session = s THEN [v EXCEPT !.done = TRUE] ELSE v
    <3>1. watches' = {image(v) : v \in watches}
      BY <2>2 DEF Resolves
    <3>2. \A v \in watches : image(v) = v \/ image(v).done
      BY <1>0
    <3>. HIDE DEF image
    <3>. QED
      BY <1>2, <3>1, <3>2
  <2>3. CASE \E v \in watches : Release(v)
    BY <1>2, <2>3 DEF Release
  <2>4. CASE Crash
    BY <1>2, <2>4 DEF Crash
  <2>5. CASE UNCHANGED slotVars
    BY <1>2, <2>5 DEF slotVars
  <2>6. ~(Requeued \/ Send \/ Flush \/ \E t \in Task : Commit(t))
    BY <1>2 DEF Requeued, Send, Flush, Commit
  <2>. QED
    BY SlotMoves, <2>1, <2>2, <2>3, <2>4, <2>5, <2>6
<1>. QED
  BY <1>1, <1>2 DEF TakesFree

\* What is known of the slots while the tasks of a reminder stay together.
SlotInv == ApartInv /\ SharedInv /\ SoughtInv /\ ChosenInv /\ ClosedInv

LEMMA SlotRest ==
  ASSUME op = Rest, executing = {}, watches = {}
  PROVE  ApartInv /\ SoughtInv /\ ChosenInv /\ ClosedInv
BY RestIs DEF ApartInv, InHand, Holding, SoughtInv, ChosenInv, Chosen, Looking, Resolved,
              Sending, ClosedInv

LEMMA SlotStep ==
  ASSUME IInv, IInv', FloorInv, SlotsAreWatched, Steady, SlotInv, [Next]_vars
  PROVE  SlotInv'
<1>. USE DEF SlotInv
<1>1. SharedInv'
  BY SharedStep
<1>2. CASE Crash
  <2>1. op' = Rest /\ executing' = {} /\ watches' = {}
    BY <1>2 DEF Crash
  <2>2. ApartInv' /\ SoughtInv' /\ ChosenInv' /\ ClosedInv'
    BY <2>1, RestIs DEF ApartInv, InHand, Holding, SoughtInv, ChosenInv, Chosen, Looking,
                        Resolved, Sending, ClosedInv
  <2>. QED
    BY <1>1, <2>2
<1>3. CASE ~Crash
  <2>1. ApartInv'
    BY TakesFreeStep, ApartStep
  <2>2. SoughtInv'
    BY <1>3, SoughtStep
  <2>3. ChosenInv'
    BY <1>3, ChosenStep
  <2>4. ClosedInv'
    BY <1>3, ClosedStep
  <2>. QED
    BY <1>1, <2>1, <2>2, <2>3, <2>4
<1>. QED
  BY <1>2, <1>3

\* What runtime.ts:175 says of a slot holds where restores do not fail, no archived
\* session is opened again, and no task gets another target: these three alone separate
\* the tasks of one reminder, or hide that it waits, so that its slot is taken while it
\* is held (runtime.ts recoverOutstandingExecution, deliverDue, send, settle).
THEOREM SlotCoversCorrect ==
  ASSUME "restore" \notin Faults, Edits \cap {"retarget", "unarchive"} = {}
  PROVE  Spec => []SlotCoversDelivery
<1>0. Steady
  BY DEF Steady
<1>1. Init => SlotInv
  <2>. SUFFICES ASSUME Init PROVE SlotInv
    OBVIOUS
  <2>1. op = Rest /\ executing = {} /\ watches = {}
    BY DEF Init
  <2>2. \A t \in Task : rows[t].last = None
    BY DEF Init, InitialRows, NewRow
  <2>3. SharedInv
    BY <2>1, <2>2, RestIs DEF SharedInv, Sending
  <2>. QED
    BY <2>1, <2>3, SlotRest DEF SlotInv
<1>2. IInv /\ IInv' /\ FloorInv /\ SlotsAreWatched /\ SlotInv /\ [Next]_vars => SlotInv'
  BY <1>0, SlotStep
<1>3. SlotInv => SlotCoversDelivery
  BY DEF SlotInv, ApartInv, SlotCoversDelivery
<1>. QED
  BY <1>1, <1>2, <1>3, IInvAlways, FloorAlways, SlotsCorrect, PTL DEF Spec

=============================================================================
