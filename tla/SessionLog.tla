----------------------------- MODULE SessionLog -----------------------------
(***************************************************************************)
(* The JSONL session store: one session's log file, and the write handles  *)
(* that processes hold on it one after the other, or, before the file      *)
(* exists, side by side.                                                   *)
(*                                                                         *)
(* The file is a sequence of frames, one per durable batch; the last one   *)
(* may be torn, and then only its complete records can be read.  An event  *)
(* is its sequence number and an identity.  Every mutation of a handle     *)
(* runs on its promise chain; the routed live buffer is drained by one     *)
(* drain at a time through the same chain.                                 *)
(***************************************************************************)
EXTENDS Naturals, Sequences, SequencesExt

CONSTANTS Proc,            \* processes with a persistence backend
          MaxEvents,       \* bound: events published
          MaxFaults,       \* bound: file operations that fail, an append and
                           \* its rollback counted as one
          MaxCrashes,      \* bound: processes that die
          MaxOpens,        \* bound: handles created or opened for writing
          CleanClose,      \* a handle whose last drain failed is not let go, and
                           \* nothing is published while a handle lets go
          NoProc

ASSUME SessionAssumption ==
  /\ NoProc \notin Proc /\ CleanClose \in BOOLEAN
  /\ MaxEvents \in Nat /\ MaxFaults \in Nat /\ MaxCrashes \in Nat
  /\ MaxOpens \in Nat

VARIABLES
  exists,      \* the file is published under its final name
  frames,      \* its frames
  owner,       \* the process that holds the kernel lock
  state,       \* where a process is with its handle
  live,        \* the log of the session object a process works on
  on,          \* that session is announced: its events are routed
  handle,      \* what the handle knows of the file
  buffer,      \* the routed live buffer and its timer
  chain,       \* operations on the mutation chain, the first one running
  step,        \* how far the running operation is
  batch,       \* the events the running operation writes
  closer,      \* the progress of close()
  flushing,    \* the progress of a session/flush
  stored,      \* history: how many records belong to appends that resolved
  promised,    \* history: events a resolved flush covers
  resent,      \* history: what a rejected append left in the file was sent again
  made, faults, crashes, opens

file == <<exists, frames>>
memory == <<state, live, on, handle, buffer, chain, step, batch, closer, flushing>>
history == <<stored, promised, resent>>
counters == <<made, faults, crashes, opens>>
vars == <<file, owner, memory, history, counters>>

Event == [seq : Nat, id : 1 .. MaxEvents]
Frame == [events : Seq(Event), whole : BOOLEAN]
Op == {"drain", "append", "flush"}
Handle == [cursor : Nat, materialized : BOOLEAN, lease : {"none", "held", "released"},
           torn : Nat, recovered : Seq(Event),
           left : BOOLEAN]  \* history: the bytes of a rejected append are in the file
Buffer == [events : Seq(Event), timer : BOOLEAN, paused : BOOLEAN, draining : BOOLEAN]

\* SessionLogScanner: the records of the frames, a torn last one included.
Decode(fs) == FlattenSeq([i \in DOMAIN fs |-> fs[i].events])

Records == Decode(frames)

\* What the reader accepts: records numbered without a gap, and no torn frame
\* but the last.
Readable == /\ \A i \in 1 .. Len(frames) - 1 : frames[i].whole
            /\ \A i \in 1 .. Len(Records) : Records[i].seq = i

Numbered(s, first) == \A i \in 1 .. Len(s) : s[i].seq = first + i

NoHandle == [cursor |-> 0, materialized |-> FALSE, lease |-> "none",
             torn |-> 0, recovered |-> <<>>, left |-> FALSE]
NoBuffer == [events |-> <<>>, timer |-> FALSE, paused |-> FALSE, draining |-> FALSE]
NotClosing == [at |-> "no", ahead |-> 0]
NoFlush == [at |-> "no", upTo |-> 0]

TypeOK ==
  /\ exists \in BOOLEAN /\ frames \in Seq(Frame) /\ owner \in Proc \cup {NoProc}
  /\ state \in [Proc -> {"shut", "reading", "open", "closing", "releasing", "stray"}]
  /\ live \in [Proc -> Seq(Event)] /\ on \in [Proc -> BOOLEAN]
  /\ handle \in [Proc -> Handle] /\ buffer \in [Proc -> Buffer]
  /\ chain \in [Proc -> Seq(Op)] /\ batch \in [Proc -> Seq(Event)]
  /\ step \in [Proc -> {"idle", "lease", "mutate"}]
  /\ closer \in [Proc -> [at : {"no", "drain", "failed", "chain", "last"}, ahead : Nat]]
  /\ flushing \in [Proc -> [at : {"no", "drain", "barrier"}, upTo : Nat]]
  /\ stored \in Nat /\ promised \in Seq(Event) /\ resent \in BOOLEAN
  /\ made \in 0 .. MaxEvents /\ faults \in 0 .. MaxFaults
  /\ crashes \in 0 .. MaxCrashes /\ opens \in 0 .. MaxOpens

Init ==
  /\ exists = FALSE /\ frames = <<>> /\ owner = NoProc
  /\ state = [p \in Proc |-> "shut"]
  /\ live = [p \in Proc |-> <<>>] /\ on = [p \in Proc |-> FALSE]
  /\ handle = [p \in Proc |-> NoHandle] /\ buffer = [p \in Proc |-> NoBuffer]
  /\ chain = [p \in Proc |-> <<>>] /\ step = [p \in Proc |-> "idle"]
  /\ batch = [p \in Proc |-> <<>>]
  /\ closer = [p \in Proc |-> NotClosing] /\ flushing = [p \in Proc |-> NoFlush]
  /\ stored = 0 /\ promised = <<>> /\ resent = FALSE
  /\ made = 0 /\ faults = 0 /\ crashes = 0 /\ opens = 0

\* The process keeps nothing of the session.
Forgets(p) ==
  /\ state' = [state EXCEPT ![p] = "shut"]
  /\ live' = [live EXCEPT ![p] = <<>>] /\ on' = [on EXCEPT ![p] = FALSE]
  /\ handle' = [handle EXCEPT ![p] = NoHandle]
  /\ buffer' = [buffer EXCEPT ![p] = NoBuffer]
  /\ chain' = [chain EXCEPT ![p] = <<>>] /\ step' = [step EXCEPT ![p] = "idle"]
  /\ batch' = [batch EXCEPT ![p] = <<>>]
  /\ closer' = [closer EXCEPT ![p] = NotClosing]
  /\ flushing' = [flushing EXCEPT ![p] = NoFlush]

Unlocked(p) == IF owner = p THEN NoProc ELSE owner

-----------------------------------------------------------------------------
(* Handles.                                                                  *)

\* create(): nothing is written and no lock is taken before the first batch.
Create(p) ==
  /\ state[p] = "shut" /\ ~exists /\ opens < MaxOpens
  /\ opens' = opens + 1
  /\ state' = [state EXCEPT ![p] = "open"]
  /\ UNCHANGED <<file, owner, live, on, handle, buffer, chain, step, batch,
                 closer, flushing, history, made, faults, crashes>>

\* open(id, "write"): the claim, then the lock.  A second writer is refused.
OpenWrite(p) ==
  /\ state[p] = "shut" /\ exists /\ owner = NoProc /\ opens < MaxOpens
  /\ opens' = opens + 1 /\ owner' = p
  /\ state' = [state EXCEPT ![p] = "reading"]
  /\ UNCHANGED <<file, live, on, handle, buffer, chain, step, batch, closer,
                 flushing, history, made, faults, crashes>>

\* Mutation: the torn frame is not noticed.
TornAt_Missed == 0

\* Mutation: the torn point is the start of the last complete frame.
TornAt_LastWhole == LET n == Len(frames)
                    IN IF n > 1 /\ ~frames[n].whole THEN n - 1 ELSE 0

\* tornTruncateTo: the frame that the first mutation cuts off.
TornAt == LET n == Len(frames) IN IF n > 0 /\ ~frames[n].whole THEN n ELSE 0

\* The log read under the lock becomes the handle's state and the session's
\* seed, the records recovered from a torn frame included.
ReadLog(p) ==
  /\ state[p] = "reading" /\ Readable
  /\ handle' = [handle EXCEPT ![p] =
       [cursor |-> Len(Records), materialized |-> TRUE, lease |-> "held",
        torn |-> TornAt,
        recovered |-> IF TornAt = 0 THEN <<>> ELSE frames[TornAt].events,
        left |-> FALSE]]
  /\ live' = [live EXCEPT ![p] = Records]
  /\ state' = [state EXCEPT ![p] = "open"]
  /\ UNCHANGED <<file, owner, on, buffer, chain, step, batch, closer,
                 flushing, history, counters>>

\* A damaged log or a cancelled open gives the lock and the claim back.
RefuseOpen(p) ==
  /\ state[p] = "reading"
  /\ owner' = Unlocked(p) /\ Forgets(p)
  /\ UNCHANGED <<file, history, counters>>

-----------------------------------------------------------------------------
(* The session's events.                                                     *)

NewEvent(p) == [seq |-> Len(live[p]) + 1, id |-> made + 1]

\* agent-loop announces the session; from now on its events are routed.
GoLive(p) ==
  /\ state[p] = "open" /\ ~on[p] /\ chain[p] = <<>>
  /\ on' = [on EXCEPT ![p] = TRUE]
  /\ UNCHANGED <<file, owner, state, live, handle, buffer, chain, step, batch,
                 closer, flushing, history, counters>>

\* A handle has found its buffer empty for the last time.
LettingGo(p) == state[p] = "releasing" \/ closer[p].at = "last"

\* enqueueLive: an event of the announced session is buffered, and the
\* batching timer armed unless it is or a drain has failed.
Publish(p) ==
  /\ on[p] /\ state[p] \in {"open", "closing", "releasing"} /\ made < MaxEvents
  /\ CleanClose => ~LettingGo(p)
  /\ made' = made + 1
  /\ live' = [live EXCEPT ![p] = Append(@, NewEvent(p))]
  /\ buffer' = [buffer EXCEPT ![p].events = Append(@, NewEvent(p)),
                              ![p].timer = @ \/ ~buffer[p].paused]
  /\ UNCHANGED <<file, owner, state, on, handle, chain, step, batch, closer,
                 flushing, history, faults, crashes, opens>>

\* append(): seed, closers or an outsider's record, before the session is live.
AppendSeed(p) ==
  /\ state[p] = "open" /\ ~on[p] /\ chain[p] = <<>> /\ made < MaxEvents
  /\ made' = made + 1
  /\ batch' = [batch EXCEPT ![p] = <<NewEvent(p)>>]
  /\ chain' = [chain EXCEPT ![p] = <<"append">>]
  /\ UNCHANGED <<file, owner, state, live, on, handle, buffer, step, closer,
                 flushing, history, faults, crashes, opens>>

-----------------------------------------------------------------------------
(* Who asks for a drain.                                                     *)

Busy(p) == buffer[p].draining

\* drainLive: joins the drain under way, or starts one, which takes the timer
\* down and ends at once on an empty buffer.
Drains(p) ==
  LET some == buffer[p].events # <<>>
  IN IF Busy(p)
     THEN UNCHANGED <<buffer, chain>>
     ELSE /\ buffer' = [buffer EXCEPT ![p].timer = FALSE, ![p].paused = FALSE,
                                      ![p].draining = some]
          /\ chain' = [chain EXCEPT ![p] = IF some THEN Append(@, "drain") ELSE @]

\* close() goes on in the microtask after the operation it waited for: no timer
\* fires, and no operation queued behind that one begins, in between.
Resumes(p) == /\ state[p] = "closing" /\ closer[p].at \in {"chain", "last", "failed"}
              /\ closer[p].ahead = 0

\* The batching window ends.
Timer(p) ==
  /\ buffer[p].timer /\ ~Resumes(p)
  /\ IF Busy(p)
     THEN buffer' = [buffer EXCEPT ![p].timer = FALSE] /\ UNCHANGED chain
     ELSE Drains(p)
  /\ UNCHANGED <<file, owner, state, live, on, handle, step, batch, closer,
                 flushing, history, counters>>

\* session/flush: drainLive, then the handle's own flush.  A drain that is over can
\* be joined for a microtask more (draining is cleared in a finally); a flush that
\* does so covers what that drain saw, and is not modelled.
Flush(p) ==
  /\ state[p] = "open" /\ flushing[p] = NoFlush
  /\ IF buffer[p].events = <<>> /\ ~Busy(p)
     THEN /\ buffer' = [buffer EXCEPT ![p].timer = FALSE, ![p].paused = FALSE]
          /\ chain' = [chain EXCEPT ![p] = Append(@, "flush")]
          /\ flushing' = [flushing EXCEPT ![p] = [at |-> "barrier", upTo |-> Len(live[p])]]
     ELSE /\ Drains(p)
          /\ flushing' = [flushing EXCEPT ![p] = [at |-> "drain", upTo |-> Len(live[p])]]
  /\ UNCHANGED <<file, owner, state, live, on, handle, step, batch, closer,
                 history, counters>>

\* close() begins with a drain.  The session was disposed of and is silent,
\* or its owner tears it down and it stays live until the handle is gone.
Close(p) ==
  /\ state[p] = "open"
  /\ state' = [state EXCEPT ![p] = "closing"]
  /\ Drains(p)
  /\ closer' = [closer EXCEPT ![p] =
       IF Busy(p) \/ buffer[p].events # <<>> THEN [at |-> "drain", ahead |-> 0]
       ELSE [at |-> "chain", ahead |-> Len(chain[p])]]
  /\ \E stays \in {on[p], FALSE} : on' = [on EXCEPT ![p] = stays]
  /\ UNCHANGED <<file, owner, live, handle, step, batch, flushing, history,
                 counters>>

-----------------------------------------------------------------------------
(* The end of an operation on the chain.                                     *)

\* The chain moves on, with the operations of more behind it.
Leaves(p, more) ==
  /\ chain' = [chain EXCEPT ![p] = Tail(@) \o more]
  /\ step' = [step EXCEPT ![p] = "idle"] /\ batch' = [batch EXCEPT ![p] = <<>>]

\* What close() waits for comes one nearer.
Nearer(c) == [c EXCEPT !.ahead = IF @ = 0 THEN 0 ELSE @ - 1]

\* Mutation: a drain writes one batch and is over.
MoreBuffered_Never(p) == FALSE

MoreBuffered(p) == buffer[p].events # <<>>

\* A drained batch: the loop takes the next one, or the drain is over and
\* those who joined it go on.
DrainResolves(p) ==
  LET more == MoreBuffered(p)
      flushes == ~more /\ flushing[p].at = "drain"
      next == IF more THEN <<"drain">>
              ELSE IF flushes /\ state[p] = "open" THEN <<"flush">> ELSE <<>>
  IN /\ Leaves(p, next)
     /\ buffer' = [buffer EXCEPT ![p].draining = more]
     /\ flushing' = [flushing EXCEPT ![p] =
          IF ~flushes THEN @
          ELSE IF state[p] = "open" THEN [@ EXCEPT !.at = "barrier"] ELSE NoFlush]
     /\ closer' = [closer EXCEPT ![p] =
          IF closer[p].at = "drain" /\ ~more
          THEN [at |-> "chain", ahead |-> Len(chain[p]) - 1] ELSE Nearer(@)]
     /\ UNCHANGED <<state, live, on>>

\* Mutation: the batch that failed goes behind the events that came meanwhile.
Retained_Behind(p) == [buffer[p] EXCEPT !.events = @ \o batch[p],
                                        !.paused = TRUE, !.draining = FALSE]

\* Mutation: the failed drain leaves no trace but the events.
Retained_Silent(p) == [buffer[p] EXCEPT !.events = batch[p] \o @, !.draining = FALSE]

\* A failed drain puts its batch back in front and quiets the timer.
Retained(p) == [buffer[p] EXCEPT !.events = batch[p] \o @,
                                 !.paused = TRUE, !.draining = FALSE]

\* close() remembers the failure and waits for what is left on the chain.
GoesOn(p) == IF closer[p].at = "drain"
             THEN [at |-> "failed", ahead |-> Len(chain[p]) - 1]
             ELSE Nearer(closer[p])

DrainRejects(p) ==
  /\ Leaves(p, <<>>)
  /\ buffer' = [buffer EXCEPT ![p] = Retained(p)]
  /\ flushing' = [flushing EXCEPT ![p] = IF @.at = "drain" THEN NoFlush ELSE @]
  /\ closer' = [closer EXCEPT ![p] = GoesOn(p)]
  /\ UNCHANGED <<state, live, on>>

\* The appended batch is part of the session from now on.
AppendResolves(p) ==
  /\ Leaves(p, <<>>)
  /\ live' = [live EXCEPT ![p] = @ \o batch[p]]
  /\ closer' = [closer EXCEPT ![p] = Nearer(@)]
  /\ UNCHANGED <<state, on, buffer, flushing>>

\* Whoever appended gives the handle up.
AppendRejects(p) ==
  /\ Leaves(p, <<>>)
  /\ state' = [state EXCEPT ![p] = IF @ = "open" THEN "closing" ELSE @]
  /\ closer' = [closer EXCEPT ![p] =
       IF state[p] = "open" THEN [at |-> "chain", ahead |-> Len(chain[p]) - 1]
       ELSE Nearer(@)]
  /\ UNCHANGED <<live, on, buffer, flushing>>

FlushEnds(p) ==
  /\ Leaves(p, <<>>)
  /\ flushing' = [flushing EXCEPT ![p] = NoFlush]
  /\ closer' = [closer EXCEPT ![p] = Nearer(@)]
  /\ UNCHANGED <<state, live, on, buffer>>

Runs(p, op) == chain[p] # <<>> /\ Head(chain[p]) = op

Rejects(p) == \/ Runs(p, "drain") /\ DrainRejects(p)
              \/ Runs(p, "append") /\ AppendRejects(p)
              \/ Runs(p, "flush") /\ FlushEnds(p)

\* What a resolved flush promises.
Promise(p) == IF flushing[p].upTo > Len(promised)
              THEN SubSeq(live[p], 1, flushing[p].upTo) ELSE promised

-----------------------------------------------------------------------------
(* persistContiguous and flush, one await at a time.                         *)

\* Mutation: the first write of a created session takes no lock.
FirstStep_Unlocked(p) == "mutate"

\* ensureLease has nothing to do while the handle holds a lease object.
FirstStep(p) == IF handle[p].lease = "none" THEN "lease" ELSE "mutate"

\* The chained turn of a drain captures what is buffered now.
BeginDrain(p) ==
  /\ Runs(p, "drain") /\ step[p] = "idle" /\ ~Resumes(p)
  /\ batch' = [batch EXCEPT ![p] = buffer[p].events]
  /\ buffer' = [buffer EXCEPT ![p].events = <<>>]
  /\ step' = [step EXCEPT ![p] = FirstStep(p)]
  /\ UNCHANGED <<file, owner, state, live, on, handle, chain, closer,
                 flushing, history, counters>>

\* run(): a handle that is closing refuses an operation of its callers.
BeginAppend(p) ==
  /\ Runs(p, "append") /\ step[p] = "idle"
  /\ IF state[p] = "open"
     THEN /\ step' = [step EXCEPT ![p] = FirstStep(p)]
          /\ UNCHANGED <<state, live, on, buffer, chain, batch, closer, flushing>>
     ELSE AppendRejects(p)
  /\ UNCHANGED <<file, owner, handle, history, counters>>

\* flush(): a materialized session is durable already.
BeginFlush(p) ==
  /\ Runs(p, "flush") /\ step[p] = "idle"
  /\ IF state[p] = "open" /\ ~handle[p].materialized
     THEN /\ step' = [step EXCEPT ![p] = FirstStep(p)]
          /\ UNCHANGED <<state, live, on, buffer, chain, batch, closer,
                         flushing, promised>>
     ELSE /\ FlushEnds(p)
          /\ promised' = IF state[p] = "open" THEN Promise(p) ELSE promised
  /\ UNCHANGED <<file, owner, handle, stored, resent, counters>>

\* The first durable write takes the kernel lock, or finds it taken.
TakeLease(p) ==
  /\ step[p] = "lease"
  /\ IF owner = NoProc
     THEN /\ owner' = p
          /\ handle' = [handle EXCEPT ![p].lease = "held"]
          /\ step' = [step EXCEPT ![p] = "mutate"]
          /\ UNCHANGED <<state, live, on, buffer, chain, batch, closer, flushing>>
     ELSE Rejects(p) /\ UNCHANGED <<owner, handle>>
  /\ UNCHANGED <<file, history, counters>>

\* What the running operation does to the file next.  The batch continues the
\* log; a torn tail is cut off and its records are rewritten before the batch.
Contiguous(p) == Numbered(batch[p], handle[p].cursor)
Truncating(p) == step[p] = "mutate" /\ Contiguous(p) /\ handle[p].torn # 0
Rewriting(p) == /\ step[p] = "mutate" /\ Contiguous(p)
                /\ handle[p].torn = 0 /\ handle[p].recovered # <<>>
Writing(p) == /\ step[p] = "mutate" /\ Contiguous(p)
              /\ handle[p].torn = 0 /\ handle[p].recovered = <<>>

\* truncateTornTail.
TruncateTail(p) ==
  /\ Truncating(p)
  /\ frames' = SubSeq(frames, 1, handle[p].torn - 1)
  /\ handle' = [handle EXCEPT ![p].torn = 0]
  /\ UNCHANGED <<exists, owner, state, live, on, buffer, chain, step, batch,
                 closer, flushing, history, counters>>

\* A handle that writes behind the bytes of its own rejected append.
Resends(p) == resent' = (resent \/ handle[p].left)

\* The records recovered from the torn frame are written again.
RewriteTail(p) ==
  /\ Rewriting(p)
  /\ frames' = Append(frames, [events |-> handle[p].recovered, whole |-> TRUE])
  /\ handle' = [handle EXCEPT ![p].recovered = <<>>]
  /\ Resends(p)
  /\ UNCHANGED <<exists, owner, state, live, on, buffer, chain, step, batch,
                 closer, flushing, stored, promised, counters>>

BatchFrame(p) == IF batch[p] = <<>> THEN <<>>
                 ELSE <<[events |-> batch[p], whole |-> TRUE]>>

\* materialize() refuses a file that is already there.
MayWrite(p) == handle[p].materialized \/ ~exists

\* appendLines or materialize succeeds.
WriteBatch(p) ==
  /\ Writing(p) /\ MayWrite(p)
  /\ exists' = TRUE
  /\ frames' = frames \o BatchFrame(p)
  /\ handle' = [handle EXCEPT ![p].materialized = TRUE,
                              ![p].cursor = @ + Len(batch[p])]
  /\ stored' = handle[p].cursor + Len(batch[p])
  /\ \/ Runs(p, "drain") /\ DrainResolves(p) /\ UNCHANGED promised
     \/ Runs(p, "append") /\ AppendResolves(p) /\ UNCHANGED promised
     \/ Runs(p, "flush") /\ FlushEnds(p) /\ promised' = Promise(p)
  /\ Resends(p)
  /\ UNCHANGED <<owner, counters>>

\* The batch does not continue the log, or another session has the name.
RefuseWrite(p) ==
  /\ step[p] = "mutate" /\ (~Contiguous(p) \/ (Writing(p) /\ ~MayWrite(p)))
  /\ Rejects(p)
  /\ UNCHANGED <<file, owner, handle, history, counters>>

\* A file operation fails.  An append rolls the file back to its old length; of a
\* truncation perhaps only the sync behind it has failed.
FileOpFails(p) ==
  /\ Truncating(p) \/ Rewriting(p) \/ Writing(p)
  /\ faults < MaxFaults /\ faults' = faults + 1
  /\ \/ UNCHANGED frames
     \/ Truncating(p) /\ frames' = SubSeq(frames, 1, handle[p].torn - 1)
  /\ Rejects(p)
  /\ UNCHANGED <<exists, owner, handle, history, made, crashes, opens>>

\* What can be left of a frame on its way to the file: nothing, a torn frame with
\* some of its records complete, or all of it.
Remains(fs, s) ==
  {fs, Append(fs, [events |-> s, whole |-> TRUE])} \cup
  {Append(fs, [events |-> SubSeq(s, 1, n), whole |-> FALSE]) : n \in 0 .. Len(s)}

\* The records on their way to a file that is there.
Outgoing(p) == IF Rewriting(p) THEN handle[p].recovered ELSE batch[p]

\* appendLines rejects, and what it wrote stays: the close behind a write that is
\* durable fails, or a write fails and its rollback does too.
AppendStays(p) ==
  /\ Rewriting(p) \/ (Writing(p) /\ handle[p].materialized)
  /\ faults < MaxFaults /\ faults' = faults + 1
  /\ frames' \in Remains(frames, Outgoing(p)) \ {frames}
  /\ handle' = [handle EXCEPT ![p].left = TRUE]
  /\ Rejects(p) /\ Resends(p)
  /\ UNCHANGED <<exists, owner, stored, promised, made, crashes, opens>>

\* Publication succeeds and the sync of the directory after it does not.
PublishUnsynced(p) ==
  /\ Writing(p) /\ ~handle[p].materialized /\ ~exists
  /\ faults < MaxFaults /\ faults' = faults + 1
  /\ exists' = TRUE /\ frames' = BatchFrame(p)
  /\ Rejects(p)
  /\ UNCHANGED <<owner, handle, history, made, crashes, opens>>

-----------------------------------------------------------------------------
(* The end of a handle.                                                      *)

\* close(): after each drain it waits for the chain as it stands and looks at
\* the buffer again; after a failed drain it waits for the chain and goes on.
CloseLoops(p) ==
  /\ Resumes(p) /\ closer[p].at = "chain"
  /\ IF buffer[p].events = <<>>
     THEN /\ closer' = [closer EXCEPT ![p] = [at |-> "last", ahead |-> Len(chain[p])]]
          /\ UNCHANGED <<buffer, chain>>
     ELSE /\ closer' = [closer EXCEPT ![p] = [at |-> "drain", ahead |-> 0]]
          /\ Drains(p)
  /\ UNCHANGED <<file, owner, state, live, on, handle, step, batch, flushing,
                 history, counters>>

CloseLetsGo(p) ==
  /\ Resumes(p) /\ closer[p].at # "chain"
  /\ CleanClose => closer[p].at = "last"
  /\ state' = [state EXCEPT ![p] = "releasing"]
  /\ UNCHANGED <<file, owner, live, on, handle, buffer, chain, step, batch,
                 closer, flushing, history, counters>>

\* The lock and the claim are gone.  A timer or a drain that outlives them
\* keeps the handle object alive.
Release(p) ==
  /\ state[p] = "releasing"
  /\ owner' = Unlocked(p)
  /\ IF buffer[p].timer \/ Busy(p)
     THEN /\ state' = [state EXCEPT ![p] = "stray"] /\ on' = [on EXCEPT ![p] = FALSE]
          /\ handle' = [handle EXCEPT ![p].lease = IF @ = "held" THEN "released" ELSE @]
          /\ closer' = [closer EXCEPT ![p] = NotClosing]
          /\ UNCHANGED <<live, buffer, chain, step, batch, flushing>>
     ELSE Forgets(p)
  /\ UNCHANGED <<file, history, counters>>

StrayEnds(p) ==
  /\ state[p] = "stray" /\ ~buffer[p].timer /\ ~Busy(p) /\ chain[p] = <<>>
  /\ Forgets(p)
  /\ UNCHANGED <<file, owner, history, counters>>

\* The process dies; the kernel drops its lock.
Crash(p) ==
  /\ state[p] # "shut" /\ crashes < MaxCrashes
  /\ crashes' = crashes + 1
  /\ owner' = Unlocked(p) /\ Forgets(p)
  /\ CASE Truncating(p) ->
            frames' \in {frames, SubSeq(frames, 1, handle[p].torn - 1)} /\ UNCHANGED exists
       [] Rewriting(p) \/ (Writing(p) /\ handle[p].materialized) ->
            frames' \in Remains(frames, Outgoing(p)) /\ UNCHANGED exists
       [] Writing(p) /\ ~handle[p].materialized /\ ~exists ->
            \/ UNCHANGED file
            \/ exists' = TRUE /\ frames' = BatchFrame(p)
       [] OTHER -> UNCHANGED file
  /\ IF frames' = frames THEN UNCHANGED resent ELSE Resends(p)
  /\ UNCHANGED <<stored, promised, made, faults, opens>>

-----------------------------------------------------------------------------
(* Properties.                                                               *)

\* Whatever crashes, failed operations and retries came before: no record is
\* missing, doubled or out of order, and the log can be opened.  What breaks that
\* is one thing: a handle whose rejected append stayed in the file writes again
\* (appendLines: its close fails behind a durable write, or a rollback fails).
LogIsReadable == resent \/ Readable

\* The frames of the file that its handle counts on.
Told(p) == IF handle[p].left THEN Front(frames) ELSE frames

\* An event published on a live session waits in the buffer or in the batch
\* being written, in order and behind what the handle counts as stored, until
\* it is stored; and while the handle holds the lock, what it counts as stored
\* is what the file holds, with the recovered records it still owes the file and
\* without what a rejected append left there.
HandleTracksFile == \A p \in Proc :
  LET h == handle[p]
      waiting == (IF Runs(p, "drain") THEN batch[p] ELSE <<>>) \o buffer[p].events
      counted == SubSeq(live[p], 1, h.cursor)
      owed == IF h.torn \in DOMAIN frames THEN <<>> ELSE h.recovered
  IN state[p] \in {"open", "closing", "releasing"} /\ ~resent =>
       /\ live[p] = counted \o waiting
       /\ h.materialized /\ h.lease = "held" => counted = Decode(Told(p)) \o owed

\* A buffered event is never left with nobody to write it: a timer is armed, a
\* drain is under way, a failed drain has said so, or close() will look again.
BufferIsWatched == \A p \in Proc :
  state[p] = "open" /\ buffer[p].events # <<>> =>
    buffer[p].timer \/ buffer[p].draining \/ buffer[p].paused

\* A session/flush that resolves has every event published before it in the file,
\* each in its place, unless a rejected append was sent again.
FlushCovers == [][promised' # promised => resent' \/ IsPrefix(promised', Records')]_vars

Mutating(p) == Truncating(p) \/ Rewriting(p) \/ (Writing(p) /\ MayWrite(p))

\* Two processes never mutate one log together: until its close() resolves, a
\* handle changes the file only while its process holds the kernel lock.
OwnerWrites == \A p \in Proc : Mutating(p) /\ state[p] # "stray" => owner = p

\* The claim of lease.ts: the lock is held whenever the file is mutated.
WritesUnderLock == \A p \in Proc : Mutating(p) => owner = p

\* The file keeps what the durable log promises.
Durable == INSTANCE DurableLog WITH Record <- Event, log <- Records,
                                    acked <- stored
KeepsAcknowledged == Durable!DSpec

-----------------------------------------------------------------------------

\* A step of code that is already running.
Proceeds(p) ==
  \/ ReadLog(p) \/ RefuseOpen(p) \/ BeginDrain(p) \/ BeginAppend(p) \/ BeginFlush(p)
  \/ TakeLease(p) \/ TruncateTail(p) \/ RewriteTail(p)
  \/ WriteBatch(p) \/ RefuseWrite(p) \/ FileOpFails(p) \/ AppendStays(p)
  \/ PublishUnsynced(p) \/ CloseLoops(p) \/ CloseLetsGo(p) \/ Release(p) \/ StrayEnds(p)

Next == \E p \in Proc :
  \/ Create(p) \/ OpenWrite(p) \/ GoLive(p) \/ Publish(p) \/ AppendSeed(p)
  \/ Timer(p) \/ Flush(p) \/ Close(p) \/ Crash(p)
  \/ Proceeds(p)

Spec == Init /\ [][Next]_vars

=============================================================================
