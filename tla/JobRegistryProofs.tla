-------------------------- MODULE JobRegistryProofs --------------------------
(***************************************************************************)
(* Proofs about JobRegistry, for any jobs, owners, waits and limit: the    *)
(* first outcome stands, settlements tell the truth about their waiters,   *)
(* live jobs are listed and counted, and an owner leaves nothing behind.   *)
(***************************************************************************)
EXTENDS JobRegistry, FiniteSetTheorems, TLAPS

-----------------------------------------------------------------------------
(* The stack of interrupted callers.                                         *)

Call == [step : {"start", "register", "settle"}, job : Job]

\* A pushed caller is on top of the others.
LEMMA PushCall ==
  ASSUME NEW s \in Seq(Call), NEW c \in Call
  PROVE  /\ Append(s, c) \in Seq(Call)
         /\ DOMAIN Append(s, c) = DOMAIN s \cup {Len(s) + 1}
         /\ Append(s, c)[Len(s) + 1] = c
         /\ \A i \in DOMAIN s : Append(s, c)[i] = s[i] /\ i # Len(s) + 1
  OBVIOUS

\* Popping takes the caller on top and leaves the others where they are.
LEMMA PopCall ==
  ASSUME NEW s \in Seq(Call), s # <<>>
  PROVE  LET r == SubSeq(s, 1, Len(s) - 1)
         IN /\ r \in Seq(Call)
            /\ Len(s) \in DOMAIN s
            /\ DOMAIN r = DOMAIN s \ {Len(s)}
            /\ \A i \in DOMAIN r : r[i] = s[i]
  OBVIOUS

\* Replacing the caller on top leaves the others where they are.
LEMMA ReplaceCall ==
  ASSUME NEW s \in Seq(Call), s # <<>>, NEW c \in Call
  PROVE  LET r == [s EXCEPT ![Len(s)] = c]
         IN /\ r \in Seq(Call)
            /\ Len(s) \in DOMAIN s /\ Len(r) = Len(s)
            /\ DOMAIN r = DOMAIN s
            /\ r[Len(s)] = c
            /\ \A i \in DOMAIN s : i # Len(s) => r[i] = s[i]
  OBVIOUS

-----------------------------------------------------------------------------
(* Type correctness.                                                         *)

\* The records of a settlement are well typed.
LEMMA ReleaseType ==
  ASSUME TypeOK, NEW j \in Job, NEW cause \in Cause, Release(j, cause)
  PROVE  /\ waitState' \in [Waiter -> {"idle", "waiting", "released", "timedOut",
                                       "aborted", "returned"}]
         /\ resolvers' \subseteq Waiter /\ waitJob' = waitJob
         /\ verdict' \in [Job -> [cause : Cause, awaited : BOOLEAN]]
         /\ announced' \in [Job -> SUBSET {"registered", "settled"}]
  BY DEF TypeOK, Release, Announce, Owed

\* So is what a settlement leaves, whether or not its observers run.
LEMMA SettleType ==
  ASSUME TypeOK, NEW j \in Job, NEW outcome \in Terminal, NEW cause \in Cause,
         Settle(j, outcome, cause)
  PROVE  /\ status' \in [Job -> Unlisted \cup Active \cup Terminal]
         /\ frames' \in Seq(Call)
         /\ waitState' \in [Waiter -> {"idle", "waiting", "released", "timedOut",
                                       "aborted", "returned"}]
         /\ resolvers' \subseteq Waiter /\ waitJob' = waitJob
         /\ verdict' \in [Job -> [cause : Cause, awaited : BOOLEAN]]
         /\ announced' \in [Job -> SUBSET {"registered", "settled"}]
<1>1. status' \in [Job -> Unlisted \cup Active \cup Terminal]
  BY DEF TypeOK, Settle
<1>2. CASE Publishes(owner[j]) /\ Push("settle", j)
           /\ UNCHANGED <<waitVars, verdict, announced>>
  BY <1>1, <1>2, PushCall DEF TypeOK, Push, waitVars, Call
<1>3. CASE Release(j, cause) /\ UNCHANGED frames
  BY <1>1, <1>3, ReleaseType DEF TypeOK, Call
<1> QED
  BY <1>2, <1>3 DEF Settle

\* The initial state is well typed.
LEMMA InitType == Init => TypeOK
  BY DEF Init, TypeOK, Unlisted, Active, Terminal, Cause, Torn, Unsettled

\* Calls of other code keep the types.
LEMMA CallerType ==
  ASSUME TypeOK, Caller
  PROVE  TypeOK'
<1>1. ASSUME NEW j \in Job, NEW o \in Owner \cup {Unowned}, Start(j, o)
      PROVE  TypeOK'
  <2>1. /\ attached' \subseteq Owner
        /\ UNCHANGED <<settleCause, working, overtaken, stored, announced, verdict, waitVars,
                       life, snapshot, todo>>
    BY <1>1 DEF TypeOK, Start
  <2>2. [step |-> "start", job |-> j] \in Call
    BY DEF Call
  <2>3. CASE UNCHANGED <<status, owner, frames>>
    BY <2>1, <2>3 DEF TypeOK, waitVars
  <2>4. CASE /\ status' = [status EXCEPT ![j] = "starting"]
             /\ owner' = [owner EXCEPT ![j] = o]
             /\ Push("start", j)
    <3>1. /\ status' \in [Job -> Unlisted \cup Active \cup Terminal]
          /\ owner' \in [Job -> Owner \cup {Unowned}]
      BY <2>4 DEF TypeOK, Unlisted
    <3>2. frames' \in Seq(Call)
      BY <2>2, <2>4, PushCall DEF TypeOK, Push, Call
    <3> QED
      BY <2>1, <3>1, <3>2 DEF TypeOK, Call, waitVars
  <2> QED
    BY <1>1, <2>3, <2>4 DEF Start
<1>2. ASSUME NEW j \in Job, Kill(j) PROVE TypeOK'
  BY <1>2 DEF TypeOK, Kill, waitVars, lifeVars, Active, Cause
<1>3. ASSUME NEW j \in Job, Remove(j) PROVE TypeOK'
  BY <1>3 DEF TypeOK, Remove, jobVars, waitVars, lifeVars
<1>4. ASSUME NEW w \in Waiter, NEW j \in Job, Wait(w, j) PROVE TypeOK'
  BY <1>4 DEF TypeOK, Wait, jobVars, lifeVars
<1>5. ASSUME NEW w \in Waiter, AbortWait(w) PROVE TypeOK'
  BY <1>5 DEF TypeOK, AbortWait, EndWait, jobVars, lifeVars
<1>6. ASSUME NEW t \in Torn, Unload(t) PROVE TypeOK'
  BY <1>6 DEF TypeOK, Unload, jobVars, waitVars
<1> QED
  BY <1>1, <1>2, <1>3, <1>4, <1>5, <1>6 DEF Caller

\* Interrupted callers, continuations and timers keep them.
LEMMA ResumeType ==
  ASSUME TypeOK,
         Resume \/ (\E j \in Job : ProducerEnds(j)) \/ (\E w \in Waiter : TimeOut(w))
  PROVE  TypeOK'
<1>0. ASSUME NEW j \in Job, EndStart(j) PROVE TypeOK'
  <2>1. frames \in Seq(Call) /\ frames # <<>> /\ [step |-> "register", job |-> j] \in Call
    BY <1>0 DEF TypeOK, EndStart, Top, Call
  <2>2. UNCHANGED <<settleCause, verdict, waitVars, lifeVars>>
    BY <1>0 DEF EndStart
  <2>3. CASE Register(j)
    <3>1. /\ status' \in [Job -> Unlisted \cup Active \cup Terminal]
          /\ stored' \subseteq Job /\ working' \subseteq Job /\ overtaken' \subseteq Job
          /\ owner' = owner
      BY <2>3 DEF TypeOK, Register, Siblings, Active
    <3>2. frames' \in Seq(Call) /\ announced' \in [Job -> SUBSET {"registered", "settled"}]
      <4>1. CASE frames' = [frames EXCEPT ![Len(frames)] = [step |-> "register", job |-> j]]
                 /\ UNCHANGED announced
        BY <2>1, <4>1, ReplaceCall DEF TypeOK
      <4>2. CASE Announce(j, "registered") /\ Pop
        BY <2>1, <4>2, PopCall DEF TypeOK, Announce, Pop
      <4> QED
        BY <2>3, <4>1, <4>2 DEF Register
    <3> QED
      BY <2>2, <3>1, <3>2 DEF TypeOK, Call, waitVars, lifeVars
  <2>4. CASE ProducerThrows(j)
    <3>1. frames' \in Seq(Call)
      BY <2>1, <2>4, PopCall DEF ProducerThrows, Pop
    <3>2. /\ status' \in [Job -> Unlisted \cup Active \cup Terminal]
          /\ owner' \in [Job -> Owner \cup {Unowned}] /\ overtaken' \subseteq Job
          /\ UNCHANGED <<stored, working, announced>>
      BY <2>4 DEF TypeOK, ProducerThrows, Unlisted
    <3> QED
      BY <2>2, <3>1, <3>2 DEF TypeOK, Call, waitVars, lifeVars
  <2> QED
    BY <1>0, <2>3, <2>4 DEF EndStart
<1>1. ASSUME NEW j \in Job, EndRegister(j) PROVE TypeOK'
  <2>1. frames' \in Seq(Call)
    BY <1>1, PopCall DEF TypeOK, EndRegister, Top, Pop, Call
  <2> QED
    BY <1>1, <2>1 DEF TypeOK, EndRegister, Announce, jobVars, waitVars, lifeVars, Call
<1>2. ASSUME NEW j \in Job, EndSettle(j) PROVE TypeOK'
  <2>1. frames' \in Seq(Call)
    BY <1>2, PopCall DEF TypeOK, EndSettle, Top, Pop, Call
  <2>2. Release(j, settleCause[j]) /\ settleCause[j] \in Cause
    BY <1>2 DEF EndSettle, TypeOK
  <2> QED
    BY <1>2, <2>1, <2>2, ReleaseType DEF TypeOK, EndSettle, jobVars, lifeVars, Call
<1>3. ASSUME NEW j \in Job, ProducerEnds(j) PROVE TypeOK'
  <2>1. /\ working' \subseteq Job
        /\ UNCHANGED <<owner, settleCause, overtaken, stored, lifeVars>>
    BY <1>3 DEF ProducerEnds, TypeOK
  <2>2. ASSUME NEW outcome \in Terminal, Settle(j, outcome, settleCause[j])
        PROVE  TypeOK'
    <3>1. settleCause[j] \in Cause
      BY DEF TypeOK
    <3> QED
      BY <2>1, <2>2, <3>1, SettleType DEF TypeOK, lifeVars, Call
  <2>3. CASE UNCHANGED <<status, frames, waitVars, verdict, announced>>
    BY <2>1, <2>3 DEF TypeOK, lifeVars, waitVars
  <2> QED
    BY <1>3, <2>2, <2>3 DEF ProducerEnds
<1>4. ASSUME NEW w \in Waiter, TimeOut(w) PROVE TypeOK'
  BY <1>4 DEF TypeOK, TimeOut, EndWait, jobVars, lifeVars
<1> QED
  BY <1>0, <1>1, <1>2, <1>3, <1>4 DEF Resume

\* So do teardowns.
LEMMA TeardownType ==
  ASSUME TypeOK, (\E o \in Owner : NothingAttached(o)) \/ (\E t \in Torn : Teardown(t))
  PROVE  TypeOK'
<1>1. ASSUME NEW o \in Owner, NothingAttached(o) PROVE TypeOK'
  BY <1>1 DEF TypeOK, NothingAttached, jobVars, waitVars, Torn
<1>2. ASSUME NEW t \in Torn, BeginTeardown(t) PROVE TypeOK'
  BY <1>2 DEF TypeOK, BeginTeardown, Found, jobVars, waitVars
<1>3. ASSUME NEW t \in Torn, NEW j \in Job, CancelNext(t, j) PROVE TypeOK'
  <2>1. todo' \subseteq Job /\ UNCHANGED <<owner, working, overtaken, stored, life, attached, snapshot>>
    BY <1>3 DEF CancelNext, TypeOK
  <2>2. settleCause' \in [Job -> Cause]
    BY <1>3 DEF CancelNext, TypeOK, Cause
  <2>3. CASE UNCHANGED <<frames, waitVars, verdict, announced>>
             /\ (status' = status \/ status' = [status EXCEPT ![j] = "stopping"])
    BY <2>1, <2>2, <2>3 DEF TypeOK, waitVars, Active
  <2>4. CASE Orphan(j)
    <3>1. "failed" \in Terminal /\ "teardown" \in Cause
      BY DEF Terminal, Cause
    <3> QED
      BY <2>1, <2>2, <2>4, <3>1, SettleType DEF TypeOK, Orphan, Call
  <2> QED
    BY <1>3, <2>3, <2>4 DEF CancelNext
<1>4. ASSUME NEW t \in Torn, AllCancelled(t) PROVE TypeOK'
  BY <1>4 DEF TypeOK, AllCancelled, Move, jobVars, waitVars
<1>5. ASSUME NEW t \in Torn, AllSettled(t) PROVE TypeOK'
  BY <1>5 DEF TypeOK, AllSettled, Move, jobVars, waitVars
<1>6. ASSUME NEW t \in Torn, NEW j \in Job, DropNext(t, j) PROVE TypeOK'
  BY <1>6 DEF TypeOK, DropNext, jobVars, waitVars
<1>7. ASSUME NEW t \in Torn, AllDropped(t) PROVE TypeOK'
  BY <1>7 DEF TypeOK, AllDropped, Move, jobVars, waitVars
<1> QED
  BY <1>1, <1>2, <1>3, <1>4, <1>5, <1>6, <1>7 DEF Teardown

\* Every step keeps the types.
LEMMA StepType == TypeOK /\ [Next]_vars => TypeOK'
<1> SUFFICES ASSUME TypeOK, [Next]_vars PROVE TypeOK'
  OBVIOUS
<1>1. CASE UNCHANGED vars
  BY <1>1 DEF TypeOK, vars, jobVars, waitVars, lifeVars
<1>2. CASE Next
  BY <1>2, CallerType, ResumeType, TeardownType DEF Next
<1> QED
  BY <1>1, <1>2

\* Every reachable state of the registry is well typed (LocalJobRegistry).
THEOREM TypeCorrect == Spec => []TypeOK
  BY InitType, StepType, PTL DEF Spec

-----------------------------------------------------------------------------
(* Starts that are under way.                                                *)

InFrame(step, j) == \E i \in DOMAIN frames : frames[i] = [step |-> step, job |-> j]

\* The jobs that are starting are those of the interrupted starts, each once.
StackInv ==
  /\ \A i \in DOMAIN frames : frames[i].step = "start" => status[frames[i].job] = "starting"
  /\ \A i, k \in DOMAIN frames :
       /\ frames[i].step = "start" /\ frames[k].step = "start"
       /\ frames[i].job = frames[k].job
       => i = k
  /\ \A j \in Job : status[j] = "starting" => InFrame("start", j)

\* What a step can do to statuses, announcements, callers and waits.
Still == UNCHANGED <<status, announced, verdict, frames, waitVars>>

Begins(j) ==
  /\ status[j] = "absent" /\ status' = [status EXCEPT ![j] = "starting"]
  /\ Push("start", j) /\ UNCHANGED <<announced, verdict, waitVars>>

Stops(j) ==
  /\ status[j] \in Active /\ status' = [status EXCEPT ![j] = "stopping"]
  /\ UNCHANGED <<announced, verdict, frames, waitVars>>

Settles(j) ==
  status[j] \in Active
  /\ \E outcome \in Terminal, cause \in Cause : Settle(j, outcome, cause)

\* Nothing else happens to them.
LEMMA Effects ==
  ASSUME TypeOK, [Next]_vars
  PROVE  \/ Still
         \/ \E j \in Job : \/ Begins(j) \/ Stops(j) \/ Settles(j)
                           \/ EndStart(j) \/ EndRegister(j) \/ EndSettle(j)
         \/ \E w \in Waiter : \/ \E j \in Job : Wait(w, j)
                              \/ \E state \in {"timedOut", "aborted"} : EndWait(w, state)
<1>1. CASE UNCHANGED vars
  BY <1>1 DEF vars, jobVars, waitVars, Still
<1>2. CASE Caller
  BY <1>2 DEF Caller, Start, Begins, Kill, Stops, Remove, AbortWait,
              Unload, Still, jobVars, waitVars
<1>3. CASE Resume
  BY <1>3 DEF Resume
<1>4. ASSUME NEW j \in Job, ProducerEnds(j)
      PROVE  Still \/ Settles(j)
  <2>1. settleCause[j] \in Cause
    BY DEF TypeOK
  <2> QED
    BY <1>4, <2>1 DEF ProducerEnds, Settles, Still
<1>5. CASE \E w \in Waiter : TimeOut(w)
  BY <1>5 DEF TimeOut
<1>6. CASE \E o \in Owner : NothingAttached(o)
  BY <1>6 DEF NothingAttached, Still, jobVars
<1>7. ASSUME NEW t \in Torn, Teardown(t)
      PROVE  Still \/ \E j \in Job : Stops(j) \/ Settles(j)
  <2>1. ASSUME NEW j \in Job, CancelNext(t, j)
        PROVE  Still \/ Stops(j) \/ Settles(j)
    <3>1. "failed" \in Terminal /\ "teardown" \in Cause
      BY DEF Terminal, Cause
    <3> QED
      BY <2>1, <3>1 DEF CancelNext, Orphan, Still, Stops, Settles
  <2>2. CASE BeginTeardown(t) \/ AllCancelled(t) \/ AllSettled(t) \/ AllDropped(t)
    BY <2>2 DEF BeginTeardown, AllCancelled, AllSettled, AllDropped, Still, jobVars
  <2>3. CASE \E j \in Job : DropNext(t, j)
    BY <2>3 DEF DropNext, Still, jobVars
  <2> QED
    BY <1>7, <2>1, <2>2, <2>3 DEF Teardown
<1> QED
  BY <1>1, <1>2, <1>3, <1>4, <1>5, <1>6, <1>7 DEF Next

\* A live job is not terminal, and one that is not registered is neither.
LEMMA Disjoint == Active \cap Terminal = {} /\ Unlisted \cap (Active \cup Terminal) = {}
                 /\ {"absent", "starting", "threw"} = Unlisted /\ "running" \in Active
  BY DEF Unlisted, Active, Terminal

\* The frames are calls.
LEMMA FramesAreCalls ==
  ASSUME TypeOK
  PROVE  frames \in Seq(Call) /\ \A i \in DOMAIN frames : frames[i].job \in Job
<1>1. frames \in Seq(Call)
  BY DEF TypeOK, Call
<1>2. \A i \in DOMAIN frames : frames[i] \in Call
  BY <1>1
<1> QED
  BY <1>1, <1>2 DEF Call

\* The start that its producer interrupted ends: its job is the one that starts.
LEMMA TopStarts ==
  ASSUME TypeOK, StackInv, NEW j \in Job, Top("start", j)
  PROVE  /\ status[j] = "starting"
         /\ frames \in Seq(Call) /\ frames # <<>> /\ Len(frames) \in DOMAIN frames
         /\ frames[Len(frames)] = [step |-> "start", job |-> j]
         /\ \A i \in DOMAIN frames :
              frames[i].step = "start" /\ i # Len(frames) => frames[i].job # j
<1>1. /\ frames \in Seq(Call) /\ frames # <<>> /\ Len(frames) \in DOMAIN frames
      /\ frames[Len(frames)] = [step |-> "start", job |-> j]
  BY FramesAreCalls, PopCall DEF Top
<1>2. frames[Len(frames)].step = "start" /\ frames[Len(frames)].job = j
  BY <1>1
<1> QED
  BY <1>1, <1>2 DEF StackInv

\* What the end of a start does to the callers: the one on top is replaced or
\* popped.
LEMMA StartEnds ==
  ASSUME TypeOK, StackInv, NEW j \in Job, EndStart(j)
  PROVE  /\ DOMAIN frames' \subseteq DOMAIN frames
         /\ DOMAIN frames \ {Len(frames)} \subseteq DOMAIN frames'
         /\ \A i \in DOMAIN frames' : i # Len(frames) => frames'[i] = frames[i]
         /\ Len(frames) \in DOMAIN frames' =>
              frames'[Len(frames)] = [step |-> "register", job |-> j]
<1>1. /\ frames \in Seq(Call) /\ frames # <<>> /\ [step |-> "register", job |-> j] \in Call
  BY TopStarts DEF EndStart, Call
<1>2. CASE frames' = [frames EXCEPT ![Len(frames)] = [step |-> "register", job |-> j]]
  BY <1>1, <1>2, ReplaceCall
<1>3. CASE Pop
  BY <1>1, <1>3, PopCall DEF Pop
<1> QED
  BY <1>2, <1>3 DEF EndStart, Register, ProducerThrows

\* What it does to its job.
LEMMA StartOutcome ==
  ASSUME TypeOK, StackInv, NEW j \in Job, EndStart(j)
  PROVE  /\ status[j] = "starting" /\ verdict' = verdict /\ waitVars' = waitVars
         /\ \/ status' = [status EXCEPT ![j] = "running"]
            \/ status' = [status EXCEPT ![j] = "threw"]
<1>1. status[j] = "starting" /\ verdict' = verdict /\ waitVars' = waitVars
  BY TopStarts DEF EndStart
<1> QED
  BY <1>1 DEF EndStart, Register, ProducerThrows

\* What it announces.
LEMMA StartAnnounces ==
  ASSUME TypeOK, NEW j \in Job, EndStart(j), NEW k \in Job
  PROVE  /\ announced[k] \subseteq announced'[k]
         /\ "settled" \in announced'[k] <=> "settled" \in announced[k]
<1>1. announced' = announced \/ announced' = [announced EXCEPT ![j] = @ \cup {"registered"}]
  BY DEF EndStart, Register, ProducerThrows, Announce
<1> QED
  BY <1>1 DEF TypeOK

\* Every step keeps StackInv.
LEMMA StepStack == TypeOK /\ StackInv /\ [Next]_vars => StackInv'
<1> SUFFICES ASSUME TypeOK, StackInv, [Next]_vars PROVE StackInv'
  OBVIOUS
<1> USE FramesAreCalls, Disjoint
<1>1. CASE Still
  BY <1>1 DEF Still, StackInv, InFrame
<1>2. ASSUME NEW j \in Job, Begins(j) PROVE StackInv'
  <2>1. [step |-> "start", job |-> j] \in Call
    BY DEF Call
  <2>2. /\ DOMAIN frames' = DOMAIN frames \cup {Len(frames) + 1}
        /\ frames'[Len(frames) + 1] = [step |-> "start", job |-> j]
        /\ \A i \in DOMAIN frames : frames'[i] = frames[i] /\ i # Len(frames) + 1
    BY <1>2, <2>1, PushCall DEF Begins, Push
  <2>3. status[j] = "absent" /\ status' = [status EXCEPT ![j] = "starting"]
    BY <1>2 DEF Begins
  <2>4. \A i \in DOMAIN frames : frames[i].step = "start" => frames[i].job # j
    BY <2>3 DEF StackInv
  <2> QED
    BY <2>2, <2>3, <2>4 DEF StackInv, InFrame, TypeOK
<1>3. ASSUME NEW j \in Job, Stops(j) PROVE StackInv'
  BY <1>3 DEF Stops, StackInv, InFrame, TypeOK
<1>4. ASSUME NEW j \in Job, Settles(j) PROVE StackInv'
  <2>1. PICK outcome \in Terminal, cause \in Cause : Settle(j, outcome, cause)
    BY <1>4 DEF Settles
  <2>2. /\ status[j] # "starting" /\ outcome # "starting"
        /\ status' = [status EXCEPT ![j] = outcome]
    BY <1>4, <2>1 DEF Settles, Settle
  <2>3. CASE Push("settle", j)
    <3>1. [step |-> "settle", job |-> j] \in Call
      BY DEF Call
    <3>2. /\ DOMAIN frames' = DOMAIN frames \cup {Len(frames) + 1}
          /\ frames'[Len(frames) + 1] = [step |-> "settle", job |-> j]
          /\ \A i \in DOMAIN frames : frames'[i] = frames[i] /\ i # Len(frames) + 1
      BY <2>3, <3>1, PushCall DEF Push
    <3> QED
      BY <2>2, <3>2 DEF StackInv, InFrame, TypeOK
  <2>4. CASE UNCHANGED frames
    BY <2>2, <2>4 DEF StackInv, InFrame, TypeOK
  <2> QED
    BY <2>1, <2>3, <2>4 DEF Settle
<1>5. ASSUME NEW j \in Job, EndStart(j) PROVE StackInv'
  <2>1. /\ status[j] = "starting"
        /\ frames[Len(frames)] = [step |-> "start", job |-> j]
        /\ \A i \in DOMAIN frames :
             frames[i].step = "start" /\ i # Len(frames) => frames[i].job # j
    BY <1>5, TopStarts DEF EndStart
  <2>2. \/ status' = [status EXCEPT ![j] = "running"]
        \/ status' = [status EXCEPT ![j] = "threw"]
    BY <1>5 DEF EndStart, Register, ProducerThrows
  <2>3. /\ DOMAIN frames' \subseteq DOMAIN frames
        /\ DOMAIN frames \ {Len(frames)} \subseteq DOMAIN frames'
        /\ \A i \in DOMAIN frames' : i # Len(frames) => frames'[i] = frames[i]
        /\ Len(frames) \in DOMAIN frames' =>
             frames'[Len(frames)] = [step |-> "register", job |-> j]
    BY <1>5, StartEnds
  <2>4. \A i \in DOMAIN frames' : frames'[i].step = "start" =>
          i # Len(frames) /\ i \in DOMAIN frames /\ frames'[i] = frames[i]
    BY <2>3
  <2>5. ASSUME NEW k \in Job, status'[k] = "starting"
        PROVE  InFrame("start", k)'
    <3>1. k # j /\ status[k] = "starting"
      BY <2>2, <2>5 DEF TypeOK
    <3>2. PICK i \in DOMAIN frames : frames[i] = [step |-> "start", job |-> k]
      BY <3>1 DEF StackInv, InFrame
    <3>3. i # Len(frames)
      BY <2>1, <3>1, <3>2
    <3> QED
      BY <2>3, <3>2, <3>3 DEF InFrame
  <2> QED
    BY <2>1, <2>2, <2>4, <2>5 DEF StackInv, TypeOK
<1>6. ASSUME NEW j \in Job, EndRegister(j) \/ EndSettle(j) PROVE StackInv'
  <2>0. /\ frames # <<>> /\ Pop /\ status' = status
        /\ \E step \in {"register", "settle"} : frames[Len(frames)] = [step |-> step, job |-> j]
    BY <1>6 DEF EndRegister, EndSettle, Top, jobVars
  <2>1. /\ Len(frames) \in DOMAIN frames /\ frames[Len(frames)].step # "start"
        /\ DOMAIN frames' = DOMAIN frames \ {Len(frames)}
        /\ \A i \in DOMAIN frames' : frames'[i] = frames[i]
        /\ status' = status
    BY <2>0, PopCall DEF Pop
  <2>2. ASSUME NEW k \in Job, status[k] = "starting"
        PROVE  InFrame("start", k)'
    <3>1. PICK i \in DOMAIN frames : frames[i] = [step |-> "start", job |-> k]
      BY <2>2 DEF StackInv, InFrame
    <3>2. i # Len(frames)
      BY <2>1, <3>1
    <3> QED
      BY <2>1, <3>1, <3>2 DEF InFrame
  <2> QED
    BY <2>1, <2>2 DEF StackInv
<1>7. ASSUME NEW w \in Waiter, NEW j \in Job, Wait(w, j) PROVE StackInv'
  BY <1>7 DEF Wait, StackInv, InFrame, jobVars
<1>8. ASSUME NEW w \in Waiter, NEW state, EndWait(w, state) PROVE StackInv'
  BY <1>8 DEF EndWait, StackInv, InFrame, jobVars
<1> QED
  BY <1>1, <1>2, <1>3, <1>4, <1>5, <1>6, <1>7, <1>8, Effects

\* Nothing is starting initially.
LEMMA InitStack == Init => StackInv
  BY DEF Init, StackInv

-----------------------------------------------------------------------------
(* Settlements and waits.                                                    *)

\* A job is settled after it has become terminal, and once: the settlements that
\* observers interrupt are of different jobs, which are terminal and unsettled.
SettleInv ==
  /\ \A j \in Job : "settled" \in announced[j] => status[j] \in Terminal
  /\ \A i \in DOMAIN frames : frames[i].step = "settle" =>
       status[frames[i].job] \in Terminal /\ "settled" \notin announced[frames[i].job]
  /\ \A i, k \in DOMAIN frames :
       /\ frames[i].step = "settle" /\ frames[k].step = "settle"
       /\ frames[i].job = frames[k].job
       => i = k

\* The resolvers are those of the waits that wait, and only a settlement
\* releases one.
WaitInv ==
  /\ resolvers = {w \in Waiter : waitState[w] = "waiting"}
  /\ \A w \in Waiter, j \in Job :
       waitState[w] = "released" /\ waitJob[w] = j => "settled" \in announced[j]
  /\ AwaitedIsTrue

\* What a settlement does to its job's announcements.
LEMMA ReleaseAnnounces ==
  ASSUME TypeOK, NEW j \in Job, NEW cause \in Cause, Release(j, cause)
  PROVE  announced' = [announced EXCEPT ![j] = @ \cup {"settled"}]
  BY DEF Release, Announce

\* No settlement is in progress for a live job.
LEMMA LiveIsUnsettled ==
  ASSUME TypeOK, SettleInv, NEW j \in Job, status[j] \notin Terminal
  PROVE  /\ "settled" \notin announced[j]
         /\ \A i \in DOMAIN frames : frames[i].step = "settle" => frames[i].job # j
  BY DEF SettleInv

\* The settlement that an observer interrupted ends: its job was terminal and
\* unsettled, and no other settlement of it is interrupted.
LEMMA TopSettles ==
  ASSUME TypeOK, SettleInv, NEW j \in Job, Top("settle", j)
  PROVE  /\ status[j] \in Terminal /\ "settled" \notin announced[j]
         /\ \A i \in DOMAIN frames :
              frames[i].step = "settle" /\ i # Len(frames) => frames[i].job # j
<1>1. Len(frames) \in DOMAIN frames
  BY PopCall, FramesAreCalls DEF Top
<1>2. frames[Len(frames)].step = "settle" /\ frames[Len(frames)].job = j
  BY DEF Top
<1> QED
  BY <1>1, <1>2 DEF SettleInv

\* Every step keeps SettleInv.
LEMMA StepSettle == TypeOK /\ StackInv /\ SettleInv /\ [Next]_vars => SettleInv'
<1> SUFFICES ASSUME TypeOK, StackInv, SettleInv, [Next]_vars PROVE SettleInv'
  OBVIOUS
<1> USE FramesAreCalls, Disjoint
<1>1. CASE Still
  BY <1>1 DEF Still, SettleInv
<1>2. ASSUME NEW j \in Job, Begins(j) PROVE SettleInv'
  <2>1. [step |-> "start", job |-> j] \in Call
    BY DEF Call
  <2>2. /\ DOMAIN frames' = DOMAIN frames \cup {Len(frames) + 1}
        /\ frames'[Len(frames) + 1] = [step |-> "start", job |-> j]
        /\ \A i \in DOMAIN frames : frames'[i] = frames[i]
    BY <1>2, <2>1, PushCall DEF Begins, Push
  <2>3. /\ status[j] \notin Terminal /\ status' = [status EXCEPT ![j] = "starting"]
        /\ "settled" \notin announced[j] /\ UNCHANGED announced
        /\ \A i \in DOMAIN frames : frames[i].step = "settle" => frames[i].job # j
    BY <1>2, LiveIsUnsettled DEF Begins
  <2> QED
    BY <2>2, <2>3 DEF SettleInv, TypeOK
<1>9. ASSUME NEW j \in Job, EndStart(j) PROVE SettleInv'
  <2>1. status[j] = "starting"
    BY <1>9, StartOutcome
  <2>2. \/ status' = [status EXCEPT ![j] = "running"]
        \/ status' = [status EXCEPT ![j] = "threw"]
    BY <1>9, StartOutcome
  <2>6. \A k \in Job : "settled" \in announced'[k] <=> "settled" \in announced[k]
    BY <1>9, StartAnnounces
  <2>3. /\ "settled" \notin announced[j]
        /\ \A i \in DOMAIN frames : frames[i].step = "settle" => frames[i].job # j
    BY <2>1, LiveIsUnsettled
  <2>5. /\ DOMAIN frames' \subseteq DOMAIN frames
        /\ \A i \in DOMAIN frames' : i # Len(frames) => frames'[i] = frames[i]
        /\ Len(frames) \in DOMAIN frames' =>
             frames'[Len(frames)] = [step |-> "register", job |-> j]
    BY <1>9, StartEnds
  <2>4. \A i \in DOMAIN frames' : frames'[i].step = "settle" =>
          i \in DOMAIN frames /\ frames'[i] = frames[i]
    BY <2>5
  <2> QED
    <3>1. \A i \in DOMAIN frames : frames[i].job \in Job
      OBVIOUS
    <3>2. /\ status'[j] \notin Terminal
          /\ \A k \in Job : k # j => status'[k] = status[k]
      BY <2>2 DEF TypeOK
    <3>3. \A k \in Job : "settled" \in announced'[k] => status'[k] \in Terminal
      BY <2>3, <2>6, <3>2 DEF SettleInv
    <3>4. \A i \in DOMAIN frames' : frames'[i].step = "settle" =>
            status'[frames'[i].job] \in Terminal /\ "settled" \notin announced'[frames'[i].job]
      BY <2>3, <2>4, <2>6, <3>1, <3>2 DEF SettleInv
    <3>5. \A i, k \in DOMAIN frames' :
            /\ frames'[i].step = "settle" /\ frames'[k].step = "settle"
            /\ frames'[i].job = frames'[k].job
            => i = k
      BY <2>4 DEF SettleInv
    <3> QED
      BY <3>3, <3>4, <3>5 DEF SettleInv
<1>3. ASSUME NEW j \in Job, Stops(j) PROVE SettleInv'
  BY <1>3, LiveIsUnsettled DEF Stops, SettleInv, TypeOK
<1>4. ASSUME NEW j \in Job, Settles(j) PROVE SettleInv'
  <2>1. PICK outcome \in Terminal, cause \in Cause : Settle(j, outcome, cause)
    BY <1>4 DEF Settles
  <2>2. /\ "settled" \notin announced[j] /\ status' = [status EXCEPT ![j] = outcome]
        /\ \A i \in DOMAIN frames : frames[i].step = "settle" => frames[i].job # j
    BY <1>4, <2>1, LiveIsUnsettled DEF Settles, Settle
  <2>3. CASE Push("settle", j) /\ UNCHANGED announced
    <3>1. [step |-> "settle", job |-> j] \in Call
      BY DEF Call
    <3>2. /\ DOMAIN frames' = DOMAIN frames \cup {Len(frames) + 1}
          /\ frames'[Len(frames) + 1] = [step |-> "settle", job |-> j]
          /\ \A i \in DOMAIN frames : frames'[i] = frames[i] /\ i # Len(frames) + 1
      BY <2>3, <3>1, PushCall DEF Push
    <3> QED
      BY <2>2, <2>3, <3>2 DEF SettleInv, TypeOK
  <2>4. CASE Release(j, cause) /\ UNCHANGED frames
    BY <2>2, <2>4, ReleaseAnnounces DEF SettleInv, TypeOK
  <2> QED
    BY <2>1, <2>3, <2>4 DEF Settle
<1>5. ASSUME NEW j \in Job, EndRegister(j) PROVE SettleInv'
  <2>1. /\ DOMAIN frames' = DOMAIN frames \ {Len(frames)}
        /\ \A i \in DOMAIN frames' : frames'[i] = frames[i]
    BY <1>5, PopCall DEF EndRegister, Top, Pop
  <2> QED
    BY <1>5, <2>1 DEF EndRegister, Announce, SettleInv, TypeOK, jobVars
<1>6. ASSUME NEW j \in Job, EndSettle(j) PROVE SettleInv'
  <2>1. /\ DOMAIN frames' = DOMAIN frames \ {Len(frames)}
        /\ \A i \in DOMAIN frames' : frames'[i] = frames[i]
    BY <1>6, PopCall DEF EndSettle, Top, Pop
  <2>2. announced' = [announced EXCEPT ![j] = @ \cup {"settled"}]
    BY <1>6 DEF EndSettle, Release, Announce
  <2>3. /\ status[j] \in Terminal
        /\ \A i \in DOMAIN frames :
             frames[i].step = "settle" /\ i # Len(frames) => frames[i].job # j
    BY <1>6, TopSettles DEF EndSettle
  <2> QED
    BY <1>6, <2>1, <2>2, <2>3 DEF EndSettle, SettleInv, TypeOK, jobVars
<1>7. ASSUME NEW w \in Waiter, NEW j \in Job, Wait(w, j) PROVE SettleInv'
  BY <1>7 DEF Wait, SettleInv, jobVars
<1>8. ASSUME NEW w \in Waiter, NEW state, EndWait(w, state) PROVE SettleInv'
  BY <1>8 DEF EndWait, SettleInv, jobVars
<1> QED
  BY <1>1, <1>2, <1>3, <1>4, <1>5, <1>6, <1>7, <1>8, <1>9, Effects

\* A settlement releases the waits of its job and tells the truth about them.
LEMMA ReleaseTells ==
  ASSUME TypeOK, WaitInv, NEW j \in Job, NEW cause \in Cause, Release(j, cause),
         "settled" \notin announced[j]
  PROVE  WaitInv'
<1>1. Owed(j) = {w \in Waiter : waitState[w] = "waiting" /\ waitJob[w] = j}
  BY DEF Owed, WaitInv
<1>2. /\ waitJob' = waitJob
      /\ waitState' = [w \in Waiter |-> IF waitState[w] = "waiting" /\ waitJob[w] = j
                                          THEN "released" ELSE waitState[w]]
      /\ resolvers' = resolvers \ Owed(j)
      /\ announced' = [announced EXCEPT ![j] = @ \cup {"settled"}]
      /\ verdict' = [verdict EXCEPT ![j] = [cause |-> cause, awaited |-> Owed(j) # {}]]
  BY <1>1 DEF Release, Announce
<1>3. resolvers' = {w \in Waiter : waitState'[w] = "waiting"}
  BY <1>1, <1>2 DEF WaitInv
<1>4. \A w \in Waiter, k \in Job :
        waitState'[w] = "released" /\ waitJob'[w] = k => "settled" \in announced'[k]
  BY <1>2 DEF WaitInv, TypeOK
<1>5. \A w \in Waiter : waitJob[w] = j => waitState[w] # "released"
  BY DEF WaitInv
<1>6. ASSUME NEW k \in Job, "settled" \in announced'[k]
      PROVE  /\ verdict'[k].awaited <=>
                  \E w \in Waiter : waitJob'[w] = k /\ waitState'[w] = "released"
             /\ \A w \in Waiter : waitJob'[w] = k => waitState'[w] # "waiting"
  <2>1. CASE k = j
    <3>1. verdict'[j].awaited <=> Owed(j) # {}
      BY <1>2 DEF TypeOK
    <3>2. \A w \in Waiter : waitJob'[w] = j =>
            /\ waitState'[w] # "waiting"
            /\ waitState'[w] = "released" <=> w \in Owed(j)
      BY <1>1, <1>2, <1>5
    <3>3. \A w \in Owed(j) : w \in Waiter /\ waitJob'[w] = j
      BY <1>1, <1>2
    <3> QED
      BY <2>1, <3>1, <3>2, <3>3
  <2>2. CASE k # j
    <3>1. verdict'[k] = verdict[k] /\ "settled" \in announced[k]
      BY <1>2, <1>6, <2>2 DEF TypeOK
    <3>2. \A w \in Waiter : waitJob[w] = k => waitState'[w] = waitState[w]
      BY <1>2, <2>2
    <3> QED
      BY <1>2, <3>1, <3>2 DEF WaitInv, AwaitedIsTrue
  <2> QED
    BY <2>1, <2>2
<1> QED
  BY <1>3, <1>4, <1>6 DEF WaitInv, AwaitedIsTrue

\* Every step keeps WaitInv.
LEMMA StepWait == TypeOK /\ StackInv /\ SettleInv /\ WaitInv /\ [Next]_vars => WaitInv'
<1> SUFFICES ASSUME TypeOK, StackInv, SettleInv, WaitInv, [Next]_vars PROVE WaitInv'
  OBVIOUS
<1> USE Disjoint
<1>1. CASE Still
  BY <1>1 DEF Still, WaitInv, AwaitedIsTrue, waitVars
<1>8. ASSUME NEW j \in Job, EndStart(j) PROVE WaitInv'
  <2>1. verdict' = verdict /\ waitVars' = waitVars
    BY <1>8, StartOutcome
  <2>2. \A k \in Job : "settled" \in announced'[k] <=> "settled" \in announced[k]
    BY <1>8, StartAnnounces
  <2> QED
    BY <2>1, <2>2 DEF WaitInv, AwaitedIsTrue, waitVars
<1>2. ASSUME NEW j \in Job, Begins(j) \/ EndRegister(j) PROVE WaitInv'
  <2>1. /\ UNCHANGED <<verdict, waitVars>>
        /\ \A k \in Job : "settled" \in announced'[k] <=> "settled" \in announced[k]
    BY <1>2 DEF Begins, EndRegister, Announce, TypeOK
  <2> QED
    BY <2>1 DEF WaitInv, AwaitedIsTrue, waitVars
<1>3. ASSUME NEW j \in Job, Stops(j) PROVE WaitInv'
  BY <1>3 DEF Stops, WaitInv, AwaitedIsTrue, waitVars
<1>4. ASSUME NEW j \in Job, Settles(j) PROVE WaitInv'
  <2>1. PICK outcome \in Terminal, cause \in Cause : Settle(j, outcome, cause)
    BY <1>4 DEF Settles
  <2>2. CASE UNCHANGED <<waitVars, verdict, announced>>
    BY <2>2 DEF WaitInv, AwaitedIsTrue, waitVars
  <2>3. CASE Release(j, cause)
    BY <1>4, <2>3, LiveIsUnsettled, ReleaseTells DEF Settles
  <2> QED
    BY <2>1, <2>2, <2>3 DEF Settle
<1>5. ASSUME NEW j \in Job, EndSettle(j) PROVE WaitInv'
  <2>1. Release(j, settleCause[j]) /\ settleCause[j] \in Cause
    BY <1>5 DEF EndSettle, TypeOK
  <2> QED
    BY <1>5, <2>1, TopSettles, ReleaseTells DEF EndSettle
<1>6. ASSUME NEW w \in Waiter, NEW j \in Job, Wait(w, j) PROVE WaitInv'
  <2>1. /\ UNCHANGED <<verdict, announced>>
        /\ waitJob' = [waitJob EXCEPT ![w] = j]
        /\ waitState[w] = "idle"
    BY <1>6 DEF Wait
  <2>2. CASE /\ status[j] \in Active
             /\ waitState' = [waitState EXCEPT ![w] = "waiting"]
             /\ resolvers' = resolvers \cup {w}
    <3>1. "settled" \notin announced[j]
      BY <2>2, LiveIsUnsettled
    <3> QED
      BY <2>1, <2>2, <3>1 DEF WaitInv, AwaitedIsTrue, TypeOK
  <2>3. CASE waitState' = [waitState EXCEPT ![w] = "returned"] /\ UNCHANGED resolvers
    BY <2>1, <2>3 DEF WaitInv, AwaitedIsTrue, TypeOK
  <2> QED
    BY <1>6, <2>2, <2>3 DEF Wait
<1>7. ASSUME NEW w \in Waiter, NEW state \in {"timedOut", "aborted"}, EndWait(w, state)
      PROVE  WaitInv'
  BY <1>7 DEF EndWait, WaitInv, AwaitedIsTrue, TypeOK, jobVars
<1> QED
  BY <1>1, <1>2, <1>3, <1>4, <1>5, <1>6, <1>7, <1>8, Effects

\* The first outcome stands in every step.
LEMMA StepOutcome ==
  ASSUME TypeOK, StackInv, SettleInv, [Next]_vars
  PROVE  \A j \in Job : /\ status[j] \in Terminal => status'[j] = status[j]
                        /\ "settled" \in announced[j] => verdict'[j] = verdict[j]
<1> USE Disjoint
<1>1. CASE Still
  BY <1>1 DEF Still
<1>2. ASSUME NEW j \in Job, Begins(j) \/ Stops(j) \/ EndRegister(j)
      PROVE  /\ verdict' = verdict
             /\ \A k \in Job : status[k] \in Terminal => status'[k] = status[k]
  BY <1>2 DEF Begins, Stops, EndRegister, jobVars, TypeOK
<1>6. ASSUME NEW j \in Job, EndStart(j)
      PROVE  /\ verdict' = verdict
             /\ \A k \in Job : status[k] \in Terminal => status'[k] = status[k]
  <2>1. /\ status[j] = "starting" /\ verdict' = verdict
        /\ \/ status' = [status EXCEPT ![j] = "running"]
           \/ status' = [status EXCEPT ![j] = "threw"]
    BY <1>6, StartOutcome
  <2> QED
    BY <2>1 DEF TypeOK
<1>3. ASSUME NEW j \in Job, Settles(j)
      PROVE  \A k \in Job : /\ status[k] \in Terminal => status'[k] = status[k]
                            /\ "settled" \in announced[k] => verdict'[k] = verdict[k]
  BY <1>3, LiveIsUnsettled DEF Settles, Settle, Release, TypeOK
<1>4. ASSUME NEW j \in Job, EndSettle(j)
      PROVE  \A k \in Job : /\ status'[k] = status[k]
                            /\ "settled" \in announced[k] => verdict'[k] = verdict[k]
  BY <1>4, TopSettles DEF EndSettle, Release, jobVars, TypeOK
<1>5. CASE \E w \in Waiter : \/ \E j \in Job : Wait(w, j)
                             \/ \E state \in {"timedOut", "aborted"} : EndWait(w, state)
  BY <1>5 DEF Wait, EndWait, jobVars
<1> QED
  BY <1>1, <1>2, <1>3, <1>4, <1>5, <1>6, Effects

\* Nothing is settled or waited for initially.
LEMMA InitSettle == Init => SettleInv /\ WaitInv
  BY DEF Init, SettleInv, WaitInv, AwaitedIsTrue

\* The settlement invariants of every reachable state.
THEOREM SettlementHolds == Spec => [](TypeOK /\ StackInv /\ SettleInv /\ WaitInv)
  BY InitType, InitStack, InitSettle, StepType, StepStack, StepSettle, StepWait, PTL DEF Spec

\* A settlement is announced as awaited exactly when a wait got its result from
\* it, and no wait is left behind (settle, waitJob).
THEOREM AwaitedCorrect == Spec => []AwaitedIsTrue
<1>1. WaitInv => AwaitedIsTrue
  BY DEF WaitInv
<1> QED
  BY <1>1, SettlementHolds, PTL

\* A terminal status and an announced verdict never change (settle).
THEOREM FirstOutcomeCorrect == Spec => FirstOutcomeStands
<1>1. TypeOK /\ StackInv /\ SettleInv /\ [Next]_vars =>
        [\A j \in Job : /\ status[j] \in Terminal => status'[j] = status[j]
                        /\ "settled" \in announced[j] => verdict'[j] = verdict[j]]_vars
  BY StepOutcome
<1> QED
  BY <1>1, SettlementHolds, PTL DEF Spec, FirstOutcomeStands

-----------------------------------------------------------------------------
(* Live jobs and teardowns.                                                  *)

\* A live job is in the store.
StoreInv == \A j \in Job : status[j] \in Active => j \in stored

\* A job that has not been started is not.
StoredInv == \A j \in Job : status[j] = "absent" => j \notin stored

Live(o) == {j \in Job : status[j] \in Active /\ owner[j] = o}

Within(o) == {j \in Job \ overtaken : status[j] \in Active /\ owner[j] = o}

\* An owner has no more live jobs than the limit, but for the overtaken ones, and
\* has room for each job that starts and is not overtaken.
LimitInv ==
  /\ \A o \in Owner \cup {Unowned} :
       IsFiniteSet(Live(o)) /\ Cardinality(Within(o)) <= Limit
  /\ \A j \in Job \ overtaken : status[j] = "starting" => Cardinality(Within(owner[j])) < Limit

\* One teardown at a time loops over jobs.
OneLoop == \A t, u \in Torn :
  life[t] \in {"cancelling", "dropping"} /\ life[u] \in {"cancelling", "dropping"}
    => t = u

\* A teardown knows every job there is of its owner, until it has dropped them,
\* and it drops terminal jobs only.
KnowsItsJobs == \A t \in Torn :
  /\ life[t] \in {"cancelling", "awaiting"} => Found(t) \subseteq snapshot[t]
  /\ life[t] = "dropping" => /\ Found(t) \subseteq todo
                             /\ \A j \in todo : status[j] \in Terminal
  /\ life[t] = "gone" => Found(t) = {}

\* An owner's jobs have a cleanup until its teardown begins, and it takes none after.
CleanupInv == \A o \in Owner :
  /\ life[o] \notin {"live", "unloading"} => o \notin attached
  /\ life[o] \in {"live", "unloading"} /\ o \notin attached => Found(o) = {}

\* The teardown of a job's owner, or of the service, does not begin while the job
\* is starting.
StartingInv == \A j \in Job : status[j] = "starting" =>
  /\ life[Service] \in {"live", "unloading"}
  /\ owner[j] \in Owner => owner[j] \in attached /\ life[owner[j]] \in {"live", "unloading"}

TeardownInv == OneLoop /\ KnowsItsJobs /\ CleanupInv

\* Owners and statuses change when a job starts, and live jobs move on.
LEMMA OwnerStep ==
  ASSUME TypeOK, [Next]_vars
  PROVE  \/ \E j \in Job, o \in Owner \cup {Unowned} : Start(j, o)
         \/ \E j \in Job : EndStart(j)
         \/ /\ owner' = owner /\ overtaken' = overtaken
            /\ \A k \in Job : \/ status'[k] = status[k]
                              \/ status[k] \in Active /\ status'[k] \in Active \cup Terminal
<1>1. CASE UNCHANGED vars
  BY <1>1 DEF vars, jobVars
<1>2. CASE Caller
  BY <1>2 DEF Caller, Kill, Remove, Wait, AbortWait, EndWait, Unload, jobVars,
              TypeOK, Active
<1>3. CASE Resume
  BY <1>3 DEF Resume, EndRegister, EndSettle, jobVars
<1>4. ASSUME NEW j \in Job, ProducerEnds(j)
      PROVE  /\ owner' = owner /\ overtaken' = overtaken
             /\ \A k \in Job : \/ status'[k] = status[k]
                               \/ status[k] \in Active /\ status'[k] \in Terminal
  BY <1>4 DEF ProducerEnds, Settle, TypeOK
<1>5. CASE \E w \in Waiter : TimeOut(w)
  BY <1>5 DEF TimeOut, EndWait, jobVars
<1>6. CASE \E o \in Owner : NothingAttached(o)
  BY <1>6 DEF NothingAttached, jobVars
<1>7. ASSUME NEW t \in Torn, Teardown(t)
      PROVE  /\ owner' = owner /\ overtaken' = overtaken
             /\ \A k \in Job : \/ status'[k] = status[k]
                               \/ status[k] \in Active /\ status'[k] \in Active \cup Terminal
  <2>1. ASSUME NEW j \in Job, CancelNext(t, j)
        PROVE  /\ owner' = owner /\ overtaken' = overtaken
               /\ \A k \in Job : \/ status'[k] = status[k]
                                 \/ status[k] \in Active /\ status'[k] \in Active \cup Terminal
    BY <2>1 DEF CancelNext, Orphan, Settle, TypeOK, Active, Terminal
  <2>2. CASE BeginTeardown(t) \/ AllCancelled(t) \/ AllSettled(t) \/ AllDropped(t)
             \/ \E j \in Job : DropNext(t, j)
    BY <2>2 DEF BeginTeardown, AllCancelled, AllSettled, AllDropped, DropNext, jobVars
  <2> QED
    BY <1>7, <2>1, <2>2 DEF Teardown
<1> QED
  BY <1>1, <1>2, <1>3, <1>4, <1>5, <1>6, <1>7 DEF Next

\* Whatever leaves the store was not live.
LEMMA StoreStep ==
  ASSUME TypeOK, TeardownInv, [Next]_vars
  PROVE  \A j \in Job : j \in stored /\ j \notin stored' => status[j] \in Terminal
<1>1. CASE UNCHANGED vars
  BY <1>1 DEF vars
<1>2. CASE Caller
  BY <1>2 DEF Caller, Start, Kill, Remove, Wait, AbortWait, EndWait, Unload,
              jobVars
<1>3. CASE Resume
  BY <1>3 DEF Resume, EndStart, Register, ProducerThrows, EndRegister, EndSettle
<1>4. CASE \/ \E j \in Job : ProducerEnds(j)
           \/ \E w \in Waiter : TimeOut(w)
           \/ \E o \in Owner : NothingAttached(o)
  BY <1>4 DEF ProducerEnds, TimeOut, EndWait, NothingAttached
<1>5. ASSUME NEW t \in Torn, Teardown(t)
      PROVE  \A j \in Job : j \in stored /\ j \notin stored' => status[j] \in Terminal
  BY <1>5 DEF Teardown, BeginTeardown, CancelNext, AllCancelled, AllSettled, AllDropped,
              DropNext, TeardownInv, KnowsItsJobs
<1> QED
  BY <1>1, <1>2, <1>3, <1>4, <1>5 DEF Next

\* Every step keeps StoreInv.
LEMMA StepStore == TypeOK /\ TeardownInv /\ StoreInv /\ [Next]_vars => StoreInv'
<1> SUFFICES ASSUME TypeOK, TeardownInv, StoreInv, [Next]_vars PROVE StoreInv'
  OBVIOUS
<1> USE Disjoint
<1>1. ASSUME NEW j \in Job, NEW o \in Owner \cup {Unowned}, Start(j, o)
      PROVE  StoreInv'
  BY <1>1 DEF Start, StoreInv, TypeOK, Active
<1>2. ASSUME NEW j \in Job, EndStart(j)
      PROVE  StoreInv'
  BY <1>2 DEF EndStart, Register, ProducerThrows, StoreInv, TypeOK, Active
<1>3. CASE /\ owner' = owner
           /\ \A k \in Job : \/ status'[k] = status[k]
                             \/ status[k] \in Active /\ status'[k] \in Active \cup Terminal
  BY <1>3, StoreStep DEF StoreInv
<1> QED
  BY <1>1, <1>2, <1>3, OwnerStep

\* Fewer live jobs of an owner that are not overtaken are within its limit.
LEMMA LessIsWithin ==
  ASSUME NEW S, NEW R, IsFiniteSet(S), R \subseteq S
  PROVE  /\ IsFiniteSet(R) /\ Cardinality(R) <= Cardinality(S)
         /\ Cardinality(R) \in Nat /\ Cardinality(S) \in Nat
  BY FS_Subset, FS_CardinalityType

\* Every step keeps the limit.
LEMMA StepLimit == TypeOK /\ StackInv /\ StoreInv /\ LimitInv /\ [Next]_vars => LimitInv'
<1> SUFFICES ASSUME TypeOK, StackInv, StoreInv, LimitInv, [Next]_vars
             PROVE  LimitInv'
  OBVIOUS
<1> USE Disjoint, LimitAssumption
<1>1. \A o \in Owner \cup {Unowned} :
        IsFiniteSet(Live(o)) /\ Within(o) \subseteq Live(o) /\ IsFiniteSet(Within(o))
  BY LessIsWithin DEF LimitInv, Live, Within
<1>2. ASSUME \A o \in Owner \cup {Unowned} :
               Live(o)' \subseteq Live(o) /\ Within(o)' \subseteq Within(o),
             \A j \in Job \ overtaken' : status'[j] = "starting" =>
               /\ owner'[j] \in Owner \cup {Unowned}
               /\ Cardinality(Within(owner'[j])) < Limit
      PROVE  LimitInv'
  <2>1. \A o \in Owner \cup {Unowned} :
          /\ IsFiniteSet(Live(o)') /\ Cardinality(Within(o)') <= Cardinality(Within(o))
          /\ Cardinality(Within(o)') \in Nat /\ Cardinality(Within(o)) \in Nat
    BY <1>1, <1>2, LessIsWithin
  <2>2. \A o \in Owner \cup {Unowned} : Cardinality(Within(o)') <= Limit
    BY <2>1 DEF LimitInv
  <2>3. ASSUME NEW j \in Job \ overtaken', status'[j] = "starting"
        PROVE  Cardinality(Within(owner[j])') < Limit
    <3>1. PICK o \in Owner \cup {Unowned} :
            o = owner'[j] /\ Cardinality(Within(o)) < Limit
      BY <1>2, <2>3
    <3>2. Within(owner[j])' = Within(o)'
      BY <3>1 DEF Within
    <3> QED
      BY <2>1, <3>1, <3>2
  <2> QED
    BY <2>1, <2>2, <2>3 DEF LimitInv
<1>3. ASSUME NEW j \in Job, NEW p \in Owner \cup {Unowned}, Start(j, p)
      PROVE  LimitInv'
  <2>1. CASE UNCHANGED <<status, owner, frames>>
    <3>1. UNCHANGED <<status, owner, overtaken>>
      BY <1>3, <2>1 DEF Start
    <3>2. \A o \in Owner \cup {Unowned} : Live(o)' = Live(o) /\ Within(o)' = Within(o)
      BY <3>1 DEF Live, Within
    <3> QED
      BY <1>2, <3>1, <3>2 DEF LimitInv, TypeOK
  <2>2. CASE /\ Cardinality(ActiveJobs(p)) < Limit
             /\ status' = [status EXCEPT ![j] = "starting"]
             /\ owner' = [owner EXCEPT ![j] = p]
    <3>1. status[j] = "absent" /\ UNCHANGED overtaken
      BY <1>3 DEF Start
    <3>2. \A o \in Owner \cup {Unowned} :
            Live(o)' \subseteq Live(o) /\ Within(o)' \subseteq Within(o)
      BY <2>2, <3>1 DEF Live, Within, TypeOK
    <3>3. ActiveJobs(p) = Live(p)
      BY DEF ActiveJobs, Live, StoreInv, TypeOK
    <3>4. Cardinality(Within(p)) < Limit
      <4>1. /\ Cardinality(Within(p)) <= Cardinality(Live(p))
            /\ Cardinality(Within(p)) \in Nat /\ Cardinality(Live(p)) \in Nat
        BY <1>1, LessIsWithin
      <4> QED
        BY <2>2, <3>3, <4>1
    <3>5. ASSUME NEW k \in Job \ overtaken', status'[k] = "starting"
          PROVE  /\ owner'[k] \in Owner \cup {Unowned}
                 /\ Cardinality(Within(owner'[k])) < Limit
      <4>1. CASE k = j
        BY <2>2, <3>4, <4>1 DEF TypeOK
      <4>2. CASE k # j
        BY <2>2, <3>1, <3>5, <4>2 DEF TypeOK, LimitInv
      <4> QED
        BY <4>1, <4>2
    <3> QED
      BY <1>2, <3>2, <3>5
  <2> QED
    BY <1>3, <2>1, <2>2 DEF Start
<1>4. ASSUME NEW j \in Job, EndStart(j)
      PROVE  LimitInv'
  <2>0. status[j] = "starting" /\ owner[j] \in Owner \cup {Unowned}
    BY <1>4, TopStarts DEF EndStart, TypeOK
  <2>1. CASE ProducerThrows(j)
    <3>1. /\ status' = [status EXCEPT ![j] = "threw"] /\ overtaken' = overtaken \ {j}
          /\ owner' = [owner EXCEPT ![j] = Unowned]
      BY <2>1 DEF ProducerThrows
    <3>2. \A o \in Owner \cup {Unowned} :
            Live(o)' \subseteq Live(o) /\ Within(o)' \subseteq Within(o)
      BY <3>1 DEF Live, Within, TypeOK
    <3>3. \A k \in Job \ overtaken' : status'[k] = "starting" =>
            /\ owner'[k] \in Owner \cup {Unowned}
            /\ Cardinality(Within(owner'[k])) < Limit
      BY <3>1 DEF TypeOK, LimitInv
    <3> QED
      BY <1>2, <3>2, <3>3
  <2>2. CASE Register(j)
    <3>0. PICK p \in Owner \cup {Unowned} : p = owner[j]
      BY <2>0
    <3>1. /\ status' = [status EXCEPT ![j] = "running"] /\ owner' = owner
          /\ overtaken' = overtaken \cup Siblings(j)
      BY <2>2 DEF Register
    <3>2. \A o \in Owner \cup {Unowned} :
            o # p => Live(o)' \subseteq Live(o) /\ Within(o)' \subseteq Within(o)
      BY <3>0, <3>1 DEF Live, Within, TypeOK
    <3>3. /\ Live(p)' = Live(p) \cup {j} /\ j \notin Live(p)
          /\ Within(p)' \subseteq Within(p) \cup ({j} \ overtaken) /\ j \notin Within(p)
      BY <2>0, <3>0, <3>1 DEF Live, Within, Siblings, TypeOK
    <3>4. IsFiniteSet(Live(p)')
      BY <1>1, <2>0, <3>3, FS_AddElement
    <3>5. Cardinality(Within(p)') <= Limit
      <4>1. CASE j \in overtaken
        <5>1. /\ Cardinality(Within(p)') <= Cardinality(Within(p))
              /\ Cardinality(Within(p)') \in Nat /\ Cardinality(Within(p)) \in Nat
          BY <1>1, <2>0, <3>3, <4>1, LessIsWithin
        <5> QED
          BY <2>0, <5>1 DEF LimitInv
      <4>2. CASE j \notin overtaken
        <5>1. Cardinality(Within(p)) < Limit
          BY <2>0, <3>0, <4>2 DEF LimitInv
        <5>2. /\ IsFiniteSet(Within(p) \cup {j})
              /\ Cardinality(Within(p) \cup {j}) = Cardinality(Within(p)) + 1
          BY <1>1, <2>0, <3>3, FS_AddElement
        <5>3. /\ Cardinality(Within(p)') <= Cardinality(Within(p) \cup {j})
              /\ Cardinality(Within(p)') \in Nat
          BY <3>3, <5>2, LessIsWithin
        <5>4. Cardinality(Within(p)) \in Nat
          BY <1>1, <2>0, LessIsWithin
        <5> QED
          BY <5>1, <5>2, <5>3, <5>4
      <4> QED
        BY <4>1, <4>2
    <3>6. \A o \in Owner \cup {Unowned} :
            IsFiniteSet(Live(o)') /\ Cardinality(Within(o)') <= Limit
      <4> SUFFICES ASSUME NEW o \in Owner \cup {Unowned}, o # p
                   PROVE  IsFiniteSet(Live(o)') /\ Cardinality(Within(o)') <= Limit
        BY <3>4, <3>5
      <4>1. /\ IsFiniteSet(Live(o)') /\ Cardinality(Within(o)') <= Cardinality(Within(o))
            /\ Cardinality(Within(o)') \in Nat /\ Cardinality(Within(o)) \in Nat
        BY <1>1, <3>2, LessIsWithin
      <4> QED
        BY <4>1 DEF LimitInv
    <3>7. ASSUME NEW k \in Job \ overtaken', status'[k] = "starting"
          PROVE  Cardinality(Within(owner[k])') < Limit
      <4>1. /\ k # j /\ status[k] = "starting" /\ k \notin overtaken /\ owner[k] # p
            /\ owner[k] \in Owner \cup {Unowned} /\ owner'[k] = owner[k]
        BY <3>0, <3>1, <3>7 DEF Siblings, TypeOK
      <4>5. PICK o \in Owner \cup {Unowned} : o = owner[k]
        BY <4>1
      <4>2. /\ Cardinality(Within(o)') <= Cardinality(Within(o))
            /\ Cardinality(Within(o)') \in Nat /\ Cardinality(Within(o)) \in Nat
        BY <1>1, <3>2, <4>1, <4>5, LessIsWithin
      <4>3. Cardinality(Within(o)) < Limit
        BY <4>1, <4>5 DEF LimitInv
      <4>4. Within(owner[k])' = Within(o)'
        BY <4>1, <4>5 DEF Within
      <4> QED
        BY <4>2, <4>3, <4>4
    <3> QED
      BY <3>6, <3>7 DEF LimitInv
  <2> QED
    BY <1>4, <2>1, <2>2 DEF EndStart
<1>5. CASE /\ owner' = owner /\ overtaken' = overtaken
           /\ \A k \in Job : \/ status'[k] = status[k]
                             \/ status[k] \in Active /\ status'[k] \in Active \cup Terminal
  <2>1. \A o \in Owner \cup {Unowned} :
          Live(o)' \subseteq Live(o) /\ Within(o)' \subseteq Within(o)
    BY <1>5 DEF Live, Within
  <2>2. \A k \in Job \ overtaken' : status'[k] = "starting" =>
          /\ owner'[k] \in Owner \cup {Unowned}
          /\ Cardinality(Within(owner'[k])) < Limit
    BY <1>5 DEF TypeOK, LimitInv
  <2> QED
    BY <1>2, <2>1, <2>2
<1> QED
  BY <1>3, <1>4, <1>5, OwnerStep

\* With the same owners and no more stored, a teardown finds no more.
LEMMA FoundShrinks ==
  ASSUME owner' = owner, stored' \subseteq stored, NEW t \in Torn
  PROVE  Found(t)' \subseteq Found(t)
  BY DEF Found

\* Steps that neither register a job nor move a teardown keep TeardownInv.
LEMMA CalmTeardown ==
  ASSUME TypeOK, TeardownInv, UNCHANGED <<life, attached, snapshot, todo, owner>>,
         stored' \subseteq stored,
         \A j \in Job : status[j] \in Terminal => status'[j] \in Terminal
  PROVE  TeardownInv'
<1>1. \A t \in Torn : Found(t)' \subseteq Found(t)
  BY FoundShrinks
<1>2. Owner \subseteq Torn /\ todo \subseteq Job
  BY DEF Torn, TypeOK
<1> QED
  BY <1>1, <1>2 DEF TeardownInv, OneLoop, KnowsItsJobs, CleanupInv

\* A start changes no job that is listed.
LEMMA StartTeardown ==
  ASSUME TypeOK, TeardownInv, StoreInv, StoredInv,
         NEW j \in Job, NEW o \in Owner \cup {Unowned}, Start(j, o)
  PROVE  TeardownInv'
<1> USE OwnerAssumption, Disjoint
<1>1. /\ UNCHANGED <<life, snapshot, todo, stored>> /\ status[j] = "absent"
      /\ attached' = attached \cup ({o} \ {Unowned})
      /\ o \in Owner => o \in attached \/ life[o] = "live"
  BY DEF Start, AttachesCleanup
<1>2. j \notin stored
  BY <1>1 DEF StoredInv
<1>3. /\ \A k \in Job : k # j => status'[k] = status[k] /\ owner'[k] = owner[k]
      /\ status'[j] \in Unlisted
  <2>1. CASE UNCHANGED <<status, owner, frames>>
    BY <1>1, <2>1
  <2>2. CASE /\ status' = [status EXCEPT ![j] = "starting"]
             /\ owner' = [owner EXCEPT ![j] = o]
    BY <2>2 DEF TypeOK
  <2> QED
    BY <2>1, <2>2 DEF Start
<1>4. \A t \in Torn : Found(t)' = Found(t)
  <2>1. stored' = stored /\ \A k \in stored : owner'[k] = owner[k]
    BY <1>1, <1>2, <1>3 DEF TypeOK
  <2> QED
    BY <2>1 DEF Found
<1>5. \A t \in Torn : life[t] = "dropping" => \A k \in todo : status'[k] \in Terminal
  BY <1>1, <1>3 DEF TeardownInv, KnowsItsJobs, TypeOK
<1>6. Owner \subseteq Torn /\ (o \in Owner => life[o] \in {"live", "unloading"})
  BY <1>1 DEF TeardownInv, CleanupInv, Torn
<1>7. OneLoop' /\ KnowsItsJobs'
  BY <1>1, <1>4, <1>5 DEF TeardownInv, OneLoop, KnowsItsJobs
<1>8. CleanupInv'
  BY <1>1, <1>4, <1>6 DEF TeardownInv, CleanupInv
<1> QED
  BY <1>7, <1>8 DEF TeardownInv

\* A job that is registered has an owner whose cleanup is attached, and whose
\* teardown has not begun.
LEMMA RegisterTeardown ==
  ASSUME TypeOK, StackInv, TeardownInv, StartingInv, NEW j \in Job, EndStart(j)
  PROVE  TeardownInv'
<1> USE OwnerAssumption, Disjoint
<1>1. /\ UNCHANGED <<life, snapshot, todo, attached>> /\ status[j] = "starting"
      /\ life[Service] \in {"live", "unloading"}
      /\ owner[j] \in Owner => owner[j] \in attached /\ life[owner[j]] \in {"live", "unloading"}
  BY TopStarts DEF EndStart, lifeVars, StartingInv
<1>2. \A k \in Job : status[k] \in Terminal => status'[k] \in Terminal
  BY <1>1 DEF EndStart, Register, ProducerThrows, TypeOK
<1>3. CASE ProducerThrows(j)
  <2>1. /\ UNCHANGED stored /\ owner' = [owner EXCEPT ![j] = Unowned]
        /\ Owner \cap {Service} = {}
    BY <1>3 DEF ProducerThrows
  <2>2. \A t \in Torn : t # Unowned => Found(t)' \subseteq Found(t)
    BY <2>1 DEF Found, TypeOK
  <2>3. Owner \subseteq Torn /\ Unowned \notin Owner /\ todo \subseteq Job
    BY DEF Torn, TypeOK
  <2>4. \A t \in Torn : Found(t)' \subseteq Found(t)
    BY <2>1, <2>2 DEF Torn, Found
  <2> QED
    BY <1>1, <1>2, <2>3, <2>4 DEF TeardownInv, OneLoop, KnowsItsJobs, CleanupInv
<1>4. CASE Register(j)
  <2>1. owner' = owner /\ stored' = stored \cup {j}
    BY <1>4 DEF Register
  <2>2. \A t \in Torn : t # Service /\ t # owner[j] => Found(t)' \subseteq Found(t)
    BY <2>1 DEF Found
  <2>3. Owner \subseteq Torn /\ todo \subseteq Job /\ Service \notin Owner
    BY DEF Torn, TypeOK
  <2>4. \A t \in Torn : t = Service \/ t = owner[j] => life[t] \in {"live", "unloading"}
    BY <1>1 DEF Torn
  <2>5. OneLoop' /\ KnowsItsJobs'
    BY <1>1, <1>2, <2>2, <2>3, <2>4 DEF TeardownInv, OneLoop, KnowsItsJobs
  <2>6. CleanupInv'
    BY <1>1, <2>2, <2>3 DEF TeardownInv, CleanupInv
  <2> QED
    BY <2>5, <2>6 DEF TeardownInv
<1> QED
  BY <1>3, <1>4 DEF EndStart

\* Every step of a teardown keeps TeardownInv.
LEMMA TeardownSteps ==
  ASSUME TypeOK, TeardownInv,
         NEW t \in Torn, Teardown(t) \/ (t \in Owner /\ NothingAttached(t)) \/ Unload(t),
         \A k \in Job : status[k] \in Terminal => status'[k] \in Terminal
  PROVE  TeardownInv'
<1> USE OwnerAssumption
<1>1. life \in [Torn -> {"live", "unloading", "cancelling", "awaiting", "dropping", "gone"}]
      /\ Owner \subseteq Torn /\ snapshot \in [Torn -> SUBSET Job] /\ todo \subseteq Job
  BY DEF TypeOK, Torn
<1>2. CASE Unload(t)
  <2>1. \A u \in Torn : Found(u)' = Found(u)
    BY <1>2 DEF Unload, Found, jobVars
  <2> QED
    BY <1>1, <1>2, <2>1
       DEF Unload, jobVars, TeardownInv, OneLoop, KnowsItsJobs, CleanupInv
<1>3. CASE t \in Owner /\ NothingAttached(t)
  <2>1. \A u \in Torn : Found(u)' = Found(u)
    BY <1>3 DEF NothingAttached, Found, jobVars
  <2> QED
    BY <1>1, <1>3, <2>1
       DEF NothingAttached, jobVars, TeardownInv, OneLoop, KnowsItsJobs, CleanupInv
<1>4. CASE BeginTeardown(t)
  <2>1. \A u \in Torn : Found(u)' = Found(u)
    BY <1>4 DEF BeginTeardown, Found, jobVars
  <2> QED
    BY <1>1, <1>4, <2>1
       DEF BeginTeardown, Quiet, jobVars, TeardownInv, OneLoop, KnowsItsJobs, CleanupInv
<1>5. ASSUME NEW j \in Job, CancelNext(t, j) PROVE TeardownInv'
  <2>1. /\ UNCHANGED <<owner, stored, life, attached, snapshot>>
        /\ life[t] = "cancelling" /\ todo' = todo \ {j}
    BY <1>5 DEF CancelNext
  <2>2. \A u \in Torn : Found(u)' = Found(u) /\ life[u] # "dropping"
    BY <1>1, <2>1 DEF Found, TeardownInv, OneLoop
  <2> QED
    BY <1>1, <2>1, <2>2 DEF TeardownInv, OneLoop, KnowsItsJobs, CleanupInv
<1>6. CASE AllCancelled(t)
  <2>1. \A u \in Torn : Found(u)' = Found(u)
    BY <1>6 DEF AllCancelled, Found, jobVars
  <2> QED
    BY <1>1, <1>6, <2>1
       DEF AllCancelled, Move, jobVars, TeardownInv, OneLoop, KnowsItsJobs, CleanupInv
<1>7. CASE AllSettled(t)
  <2>1. \A u \in Torn : Found(u)' = Found(u)
    BY <1>7 DEF AllSettled, Found, jobVars
  <2> QED
    BY <1>1, <1>7, <2>1
       DEF AllSettled, Move, Quiet, jobVars, TeardownInv, OneLoop, KnowsItsJobs, CleanupInv
<1>8. ASSUME NEW j \in Job, DropNext(t, j) PROVE TeardownInv'
  <2>1. /\ UNCHANGED <<owner, status, life, attached, snapshot>>
        /\ life[t] = "dropping" /\ todo' = todo \ {j} /\ stored' = stored \ {j}
    BY <1>8 DEF DropNext, jobVars
  <2>2. \A u \in Torn : Found(u)' = Found(u) \ {j}
    BY <2>1 DEF Found
  <2> QED
    BY <1>1, <2>1, <2>2 DEF TeardownInv, OneLoop, KnowsItsJobs, CleanupInv
<1>9. CASE AllDropped(t)
  <2>1. /\ UNCHANGED <<owner, status, stored, todo>> /\ todo = {}
        /\ life[t] = "dropping" /\ life' = [life EXCEPT ![t] = "gone"]
        /\ attached' = IF t = Service THEN {} ELSE attached
        /\ snapshot' = [snapshot EXCEPT ![t] = {}]
    BY <1>9 DEF AllDropped, Move, jobVars
  <2>2. \A u \in Torn : Found(u)' = Found(u)
    BY <2>1 DEF Found
  <2>3. Found(t) = {}
    BY <2>1 DEF TeardownInv, KnowsItsJobs
  <2>4. t = Service => \A u \in Torn : Found(u) = {}
    BY <2>3 DEF Found
  <2> QED
    BY <1>1, <2>1, <2>2, <2>3, <2>4 DEF TeardownInv, OneLoop, KnowsItsJobs, CleanupInv
<1> QED
  BY <1>2, <1>3, <1>4, <1>5, <1>6, <1>7, <1>8, <1>9 DEF Teardown

\* Every step keeps TeardownInv.
LEMMA StepTeardown ==
  ASSUME TypeOK, StackInv, SettleInv, StoreInv, StoredInv, TeardownInv, StartingInv,
         [Next]_vars
  PROVE  TeardownInv'
<1>1. \A k \in Job : status[k] \in Terminal => status'[k] \in Terminal
  BY StepOutcome
<1>2. CASE UNCHANGED vars
  BY <1>1, <1>2, CalmTeardown DEF vars, jobVars, lifeVars
<1>3. CASE \/ \E j \in Job : Kill(j) \/ Remove(j) \/ ProducerEnds(j)
           \/ \E w \in Waiter : TimeOut(w) \/ AbortWait(w) \/ \E j \in Job : Wait(w, j)
           \/ \E j \in Job : EndRegister(j) \/ EndSettle(j)
  BY <1>1, <1>3, CalmTeardown
     DEF Kill, Remove, ProducerEnds, TimeOut, AbortWait, EndWait, Wait,
         EndRegister, EndSettle, jobVars, lifeVars
<1>6. CASE \E j \in Job : EndStart(j)
  BY <1>6, RegisterTeardown
<1>4. CASE \E j \in Job, o \in Owner \cup {Unowned} : Start(j, o)
  BY <1>4, StartTeardown
<1>5. CASE \/ \E t \in Torn : Teardown(t) \/ Unload(t)
           \/ \E o \in Owner : NothingAttached(o)
  BY <1>1, <1>5, TeardownSteps DEF Torn
<1> QED
  BY <1>2, <1>3, <1>4, <1>5, <1>6 DEF Next, Caller, Resume

\* A job that is starting after a step was so before, or starts in it.
LEMMA StartingStep ==
  ASSUME TypeOK, [Next]_vars, ~\E j \in Job, o \in Owner \cup {Unowned} : Start(j, o)
  PROVE  \A k \in Job : status'[k] = "starting" => status[k] = "starting" /\ owner'[k] = owner[k]
<1> USE Disjoint
<1>1. ASSUME NEW j \in Job, EndStart(j)
      PROVE  \A k \in Job : status'[k] = "starting" => status[k] = "starting" /\ owner'[k] = owner[k]
  BY <1>1 DEF EndStart, Register, ProducerThrows, TypeOK
<1> QED
  BY <1>1, OwnerStep

\* Every step keeps StoredInv.
LEMMA StepStored == TypeOK /\ StoredInv /\ [Next]_vars => StoredInv'
<1> SUFFICES ASSUME TypeOK, StoredInv, [Next]_vars PROVE StoredInv'
  OBVIOUS
<1> USE Disjoint
<1>1. CASE UNCHANGED vars
  BY <1>1 DEF vars, jobVars, StoredInv
<1>2. ASSUME NEW j \in Job, EndStart(j) PROVE StoredInv'
  BY <1>2 DEF EndStart, Register, ProducerThrows, StoredInv, TypeOK
<1>3. CASE Next /\ ~\E j \in Job : EndStart(j)
  <2>1. stored' \subseteq stored
    BY <1>3 DEF Next, Caller, Start, Kill, Remove, Wait, AbortWait, EndWait, Unload, Resume,
                EndRegister, EndSettle, ProducerEnds, TimeOut, NothingAttached, Teardown,
                BeginTeardown, CancelNext, AllCancelled, AllSettled, DropNext, AllDropped
  <2>2. \A k \in Job : status'[k] = "absent" => status[k] = "absent"
    BY <1>3, OwnerStep DEF Start, TypeOK
  <2> QED
    BY <2>1, <2>2 DEF StoredInv
<1> QED
  BY <1>1, <1>2, <1>3

\* Every step keeps StartingInv.
LEMMA StepStarting ==
  ASSUME TypeOK, StackInv, TeardownInv, StartingInv, [Next]_vars
  PROVE  StartingInv'
<1> USE OwnerAssumption
<1>0. Owner \subseteq Torn /\ Service \in Torn
  BY DEF Torn
<1>1. ASSUME NEW j \in Job, NEW o \in Owner \cup {Unowned}, Start(j, o)
      PROVE  StartingInv'
  <2>1. /\ life[Service] = "live" /\ life' = life
        /\ attached' = attached \cup ({o} \ {Unowned})
        /\ o \in Owner => life[o] \in {"live", "unloading"}
    BY <1>1 DEF Start, AttachesCleanup, TeardownInv, CleanupInv
  <2>2. \A k \in Job : status'[k] = "starting" =>
          (status[k] = "starting" /\ owner'[k] = owner[k]) \/ owner'[k] = o
    BY <1>1 DEF Start, TypeOK
  <2> QED
    BY <2>1, <2>2 DEF StartingInv
<1>2. ASSUME ~\E j \in Job, o \in Owner \cup {Unowned} : Start(j, o),
             frames # <<>>
      PROVE  StartingInv'
  <2>1. /\ attached' = attached
        /\ \A t \in Torn : life[t] \in {"live", "unloading"} => life'[t] \in {"live", "unloading"}
    BY <1>2 DEF Next, Caller, Kill, Remove, Wait, AbortWait, EndWait, Unload, Resume,
                EndStart, EndRegister, EndSettle, ProducerEnds, TimeOut, NothingAttached,
                Teardown, BeginTeardown, CancelNext, AllCancelled, AllSettled, DropNext,
                AllDropped, Quiet, vars, lifeVars, TypeOK
  <2> QED
    BY <1>0, <1>2, <2>1, StartingStep DEF StartingInv
<1>3. ASSUME ~\E j \in Job, o \in Owner \cup {Unowned} : Start(j, o),
             frames = <<>>
      PROVE  StartingInv'
  <2>1. \A k \in Job : status[k] # "starting"
    BY <1>3 DEF StackInv, InFrame
  <2> QED
    BY <1>3, <2>1, StartingStep DEF StartingInv
<1> QED
  BY <1>1, <1>2, <1>3

\* The registry is empty initially.
LEMMA InitStore == Init => StoreInv /\ StoredInv /\ LimitInv /\ TeardownInv /\ StartingInv
<1> SUFFICES ASSUME Init
             PROVE  StoreInv /\ StoredInv /\ LimitInv /\ TeardownInv /\ StartingInv
  OBVIOUS
<1>1. StoreInv /\ StoredInv /\ TeardownInv /\ StartingInv
  BY OwnerAssumption
     DEF Init, StoreInv, StoredInv, TeardownInv, StartingInv, OneLoop, KnowsItsJobs,
         CleanupInv, Found, Torn, Active
<1>2. \A o \in Owner \cup {Unowned} : Live(o) = {} /\ Within(o) = {}
  BY DEF Init, Live, Within, Active
<1>3. IsFiniteSet({}) /\ Cardinality({}) = 0
  BY FS_EmptySet
<1>4. \A j \in Job : status[j] # "starting"
  BY DEF Init
<1> QED
  BY <1>1, <1>2, <1>3, <1>4, LimitAssumption DEF LimitInv

\* The store and teardown invariants of every reachable state.
THEOREM TeardownHolds ==
  Spec => [](TypeOK /\ StackInv /\ StoreInv /\ LimitInv /\ TeardownInv /\ StartingInv)
<1> DEFINE Inv == /\ TypeOK /\ StackInv /\ SettleInv /\ StoreInv /\ StoredInv /\ LimitInv
                  /\ TeardownInv /\ StartingInv
<1>1. Init => Inv
  BY InitType, InitStack, InitSettle, InitStore
<1>2. Inv /\ [Next]_vars => Inv'
  BY StepType, StepStack, StepSettle, StepStore, StepStored, StepLimit, StepTeardown,
     StepStarting
<1>3. Inv => TypeOK /\ StackInv /\ StoreInv /\ LimitInv /\ TeardownInv /\ StartingInv
  OBVIOUS
<1> QED
  BY <1>1, <1>2, <1>3, PTL DEF Spec

\* A live job is listed, and no owner has more of them than the limit, but for
\* those whose producer had a sibling registered as it started (start, remove,
\* drop, activeJobCount).
THEOREM CountedCorrect == Spec => []LiveJobsAreCounted
<1>1. StoreInv /\ LimitInv => LiveJobsAreCounted
  BY DEF StoreInv, LimitInv, LiveJobsAreCounted, Within
<1> QED
  BY <1>1, TeardownHolds, PTL

\* An owner whose scope is gone has no job that starts, runs or is listed
\* (ensureOwnerCleanup, disposeOwned, disposeAll).
THEOREM OwnerCorrect == Spec => []OwnerLeavesNothing
<1>1. TypeOK /\ StoreInv /\ TeardownInv /\ StartingInv => OwnerLeavesNothing
  <2> SUFFICES ASSUME TypeOK, StoreInv, TeardownInv, StartingInv,
                      NEW j \in Job, owner[j] \in Owner, life[owner[j]] = "gone"
               PROVE  status[j] \notin Active \cup {"starting"} /\ j \notin stored
    BY DEF OwnerLeavesNothing
  <2>1. owner[j] \in Torn /\ owner[j] # Service
    BY OwnerAssumption DEF Torn
  <2>2. Found(owner[j]) = {}
    BY <2>1 DEF TeardownInv, KnowsItsJobs
  <2>3. j \notin stored
    BY <2>1, <2>2 DEF Found
  <2> QED
    BY <2>3 DEF StoreInv, StartingInv
<1> QED
  BY <1>1, TeardownHolds, PTL


-----------------------------------------------------------------------------
(* What is announced, and what a teardown waits for.                         *)

\* Jobs that have been registered are announced, and terminal ones as settled, or
\* the caller that will announce them is interrupted.
EventInv ==
  /\ \A j \in Job : status[j] \in Active \cup Terminal =>
       "registered" \in announced[j] \/ InFrame("register", j)
  /\ \A j \in Job : status[j] \in Terminal =>
       "settled" \in announced[j] \/ InFrame("settle", j)
  /\ \A i \in DOMAIN frames :
       frames[i].step = "settle" => "registered" \in announced[frames[i].job]
  /\ \A j \in Job : "settled" \in announced[j] => "registered" \in announced[j]

SettlesNow(j) ==
  /\ frames = <<>> /\ status[j] \in Active
  /\ \E outcome \in Terminal, cause \in Cause : Settle(j, outcome, cause)

\* Every step starts a job, resumes a caller, settles a job while no caller is
\* interrupted, or announces nothing and settles nothing.
LEMMA Kinds ==
  ASSUME TypeOK, [Next]_vars
  PROVE  \/ \E j \in Job : Begins(j) \/ EndStart(j) \/ EndRegister(j) \/ EndSettle(j)
         \/ \E j \in Job : SettlesNow(j)
         \/ /\ UNCHANGED <<frames, announced>>
            /\ \A k \in Job : \/ status'[k] = status[k]
                              \/ status[k] \in Active /\ status'[k] = "stopping"
<1>1. CASE UNCHANGED vars
  BY <1>1 DEF vars, jobVars
<1>2. CASE Caller
  BY <1>2 DEF Caller, Start, Begins, Kill, Remove, Wait, AbortWait, EndWait, Unload, jobVars,
              TypeOK
<1>3. CASE Resume
  BY <1>3 DEF Resume
<1>4. ASSUME NEW j \in Job, ProducerEnds(j)
      PROVE  SettlesNow(j) \/ UNCHANGED <<frames, announced, status>>
  <2>1. frames = <<>> /\ settleCause[j] \in Cause
    BY <1>4 DEF ProducerEnds, Quiet, TypeOK
  <2> QED
    BY <1>4, <2>1 DEF ProducerEnds, SettlesNow
<1>5. CASE (\E w \in Waiter : TimeOut(w)) \/ (\E o \in Owner : NothingAttached(o))
  BY <1>5 DEF TimeOut, EndWait, NothingAttached, jobVars
<1>6. ASSUME NEW t \in Torn, NEW j \in Job, CancelNext(t, j)
      PROVE  \/ SettlesNow(j)
             \/ /\ UNCHANGED <<frames, announced>>
                /\ \A k \in Job : \/ status'[k] = status[k]
                                  \/ status[k] \in Active /\ status'[k] = "stopping"
  BY <1>6 DEF CancelNext, Orphan, SettlesNow, Terminal, Cause, TypeOK
<1>7. ASSUME NEW t \in Torn, Teardown(t), ~\E j \in Job : CancelNext(t, j)
      PROVE  UNCHANGED <<frames, announced, status>>
  BY <1>7 DEF Teardown, BeginTeardown, AllCancelled, AllSettled, AllDropped, DropNext, jobVars
<1> QED
  BY <1>1, <1>2, <1>3, <1>4, <1>5, <1>6, <1>7 DEF Next

\* Every step keeps EventInv.
LEMMA StepEvents == TypeOK /\ StackInv /\ EventInv /\ [Next]_vars => EventInv'
<1> SUFFICES ASSUME TypeOK, StackInv, EventInv, [Next]_vars PROVE EventInv'
  OBVIOUS
<1>0. /\ frames \in Seq(Call) /\ announced \in [Job -> SUBSET {"registered", "settled"}]
      /\ status \in [Job -> Unlisted \cup Active \cup Terminal]
  BY DEF TypeOK, Call
<1>1. ASSUME NEW j \in Job, Begins(j) PROVE EventInv'
  <2>1. /\ status[j] = "absent" /\ status' = [status EXCEPT ![j] = "starting"]
        /\ UNCHANGED announced
    BY <1>1 DEF Begins
  <2>2. [step |-> "start", job |-> j] \in Call
    BY DEF Call
  <2>3. /\ DOMAIN frames' = DOMAIN frames \cup {Len(frames) + 1}
        /\ frames'[Len(frames) + 1] = [step |-> "start", job |-> j]
        /\ \A i \in DOMAIN frames : frames'[i] = frames[i]
    BY <1>0, <1>1, <2>2, PushCall DEF Begins, Push
  <2> QED
    BY <1>0, <2>1, <2>3 DEF EventInv, InFrame, Active, Terminal
<1>6. ASSUME NEW j \in Job, EndStart(j) PROVE EventInv'
  <2>1. /\ status[j] = "starting" /\ Len(frames) \in DOMAIN frames
        /\ frames[Len(frames)] = [step |-> "start", job |-> j]
    BY <1>6, TopStarts DEF EndStart
  <2>a. /\ DOMAIN frames' \subseteq DOMAIN frames
        /\ DOMAIN frames \ {Len(frames)} \subseteq DOMAIN frames'
        /\ \A i \in DOMAIN frames' : i # Len(frames) => frames'[i] = frames[i]
        /\ Len(frames) \in DOMAIN frames' =>
             frames'[Len(frames)] = [step |-> "register", job |-> j]
    BY <1>6, StartEnds
  <2>2. /\ \A i \in DOMAIN frames : i # Len(frames) => i \in DOMAIN frames' /\ frames'[i] = frames[i]
        /\ \A i \in DOMAIN frames' : frames'[i].step = "settle" =>
             i \in DOMAIN frames /\ frames'[i] = frames[i]
    BY <2>a
  <2>3. \A k \in Job, s \in {"register", "settle"} : InFrame(s, k) => InFrame(s, k)'
    BY <2>1, <2>2 DEF InFrame
  <2>4. \A k \in Job : /\ announced[k] \subseteq announced'[k]
                       /\ "settled" \in announced'[k] <=> "settled" \in announced[k]
    BY <1>6, StartAnnounces
  <2>5. \A k \in Job : k # j => status'[k] = status[k]
    BY <1>0, <1>6 DEF EndStart, Register, ProducerThrows
  <2>6. status'[j] \notin Terminal
    BY <1>0, <1>6 DEF EndStart, Register, ProducerThrows, Terminal
  <2>7. status'[j] \in Active => "registered" \in announced'[j] \/ InFrame("register", j)'
    <3>1. CASE ProducerThrows(j)
      BY <1>0, <3>1 DEF ProducerThrows, Active
    <3>2. CASE Register(j) /\ frames' = [frames EXCEPT ![Len(frames)] = [step |-> "register", job |-> j]]
      BY <1>0, <2>1, <3>2 DEF InFrame
    <3>3. CASE Announce(j, "registered")
      BY <1>0, <3>3 DEF Announce
    <3> QED
      BY <1>6, <3>1, <3>2, <3>3 DEF EndStart, Register
  <2>8. \A i \in DOMAIN frames : frames[i].job \in Job
    BY FramesAreCalls
  <2>9. \A k \in Job : status'[k] \in Active \cup Terminal =>
          "registered" \in announced'[k] \/ InFrame("register", k)'
    BY <2>3, <2>4, <2>5, <2>6, <2>7 DEF EventInv
  <2>10. \A k \in Job : status'[k] \in Terminal =>
           "settled" \in announced'[k] \/ InFrame("settle", k)'
    BY <2>3, <2>4, <2>5, <2>6 DEF EventInv
  <2> QED
    BY <2>2, <2>4, <2>8, <2>9, <2>10 DEF EventInv
<1>2. ASSUME NEW j \in Job, EndRegister(j) PROVE EventInv'
  <2>1. /\ frames # <<>> /\ frames[Len(frames)] = [step |-> "register", job |-> j]
        /\ frames' = SubSeq(frames, 1, Len(frames) - 1)
        /\ announced' = [announced EXCEPT ![j] = @ \cup {"registered"}]
        /\ status' = status
    BY <1>2 DEF EndRegister, Top, Pop, Announce, jobVars
  <2>2. /\ Len(frames) \in DOMAIN frames
        /\ DOMAIN frames' = DOMAIN frames \ {Len(frames)}
        /\ \A i \in DOMAIN frames' : frames'[i] = frames[i]
    BY <1>0, <2>1, PopCall
  <2>3. \A k \in Job : announced[k] \subseteq announced'[k] /\ "registered" \in announced'[j]
    BY <1>0, <2>1
  <2>4. \A k \in Job, s \in {"register", "settle"} :
          InFrame(s, k) => InFrame(s, k)' \/ (s = "register" /\ k = j)
    <3> SUFFICES ASSUME NEW k \in Job, NEW s \in {"register", "settle"}, NEW i \in DOMAIN frames,
                        frames[i] = [step |-> s, job |-> k]
                 PROVE  InFrame(s, k)' \/ (s = "register" /\ k = j)
      BY DEF InFrame
    <3>1. CASE i = Len(frames)
      BY <2>1, <3>1
    <3>2. CASE i # Len(frames)
      BY <2>2, <3>2 DEF InFrame
    <3> QED
      BY <3>1, <3>2
  <2>5. \A i \in DOMAIN frames' :
          frames'[i].step = "settle" => "registered" \in announced'[frames'[i].job]
    <3> SUFFICES ASSUME NEW i \in DOMAIN frames', frames'[i].step = "settle"
                 PROVE  "registered" \in announced'[frames'[i].job]
      OBVIOUS
    <3>1. i \in DOMAIN frames /\ frames'[i] = frames[i]
      BY <2>2
    <3>2. frames[i] \in Call
      BY <1>0, <3>1
    <3>3. frames[i].job \in Job
      BY <3>2 DEF Call
    <3> QED
      BY <2>3, <3>1, <3>3 DEF EventInv
  <2>6. \A k \in Job : "settled" \in announced'[k] => "registered" \in announced'[k]
    BY <1>0, <2>1 DEF EventInv
  <2> QED
    BY <2>1, <2>3, <2>4, <2>5, <2>6 DEF EventInv
<1>3. ASSUME NEW j \in Job, EndSettle(j) PROVE EventInv'
  <2>1. /\ frames # <<>> /\ frames[Len(frames)] = [step |-> "settle", job |-> j]
        /\ frames' = SubSeq(frames, 1, Len(frames) - 1)
        /\ announced' = [announced EXCEPT ![j] = @ \cup {"settled"}]
        /\ status' = status
    BY <1>3 DEF EndSettle, Top, Pop, Release, Announce, jobVars
  <2>2. /\ Len(frames) \in DOMAIN frames
        /\ DOMAIN frames' = DOMAIN frames \ {Len(frames)}
        /\ \A i \in DOMAIN frames' : frames'[i] = frames[i]
    BY <1>0, <2>1, PopCall
  <2>3. \A k \in Job : announced[k] \subseteq announced'[k] /\ "settled" \in announced'[j]
    BY <1>0, <2>1
  <2>4. \A k \in Job, s \in {"register", "settle"} :
          InFrame(s, k) => InFrame(s, k)' \/ (s = "settle" /\ k = j)
    <3> SUFFICES ASSUME NEW k \in Job, NEW s \in {"register", "settle"}, NEW i \in DOMAIN frames,
                        frames[i] = [step |-> s, job |-> k]
                 PROVE  InFrame(s, k)' \/ (s = "settle" /\ k = j)
      BY DEF InFrame
    <3>1. CASE i = Len(frames)
      BY <2>1, <3>1
    <3>2. CASE i # Len(frames)
      BY <2>2, <3>2 DEF InFrame
    <3> QED
      BY <3>1, <3>2
  <2>5. \A i \in DOMAIN frames' :
          frames'[i].step = "settle" => "registered" \in announced'[frames'[i].job]
    <3> SUFFICES ASSUME NEW i \in DOMAIN frames', frames'[i].step = "settle"
                 PROVE  "registered" \in announced'[frames'[i].job]
      OBVIOUS
    <3>1. i \in DOMAIN frames /\ frames'[i] = frames[i]
      BY <2>2
    <3>2. frames[i] \in Call
      BY <1>0, <3>1
    <3>3. frames[i].job \in Job
      BY <3>2 DEF Call
    <3> QED
      BY <2>3, <3>1, <3>3 DEF EventInv
  <2>6. "registered" \in announced[j]
    <3>1. frames[Len(frames)].step = "settle" /\ frames[Len(frames)].job = j
      BY <2>1
    <3> QED
      BY <2>2, <3>1 DEF EventInv
  <2>7. \A k \in Job : "settled" \in announced'[k] => "registered" \in announced'[k]
    BY <1>0, <2>1, <2>6 DEF EventInv
  <2> QED
    BY <2>1, <2>3, <2>4, <2>5, <2>7 DEF EventInv
<1>4. ASSUME NEW j \in Job, SettlesNow(j) PROVE EventInv'
  <2>1. PICK outcome \in Terminal, cause \in Cause : Settle(j, outcome, cause)
    BY <1>4 DEF SettlesNow
  <2>a. frames = <<>> /\ status[j] \in Active /\ status' = [status EXCEPT ![j] = outcome]
    BY <1>4, <2>1, Disjoint DEF SettlesNow, Settle
  <2>b. ~InFrame("register", j)
    BY <2>a DEF InFrame
  <2>2. /\ frames = <<>> /\ status[j] \in Active /\ "registered" \in announced[j]
        /\ status' = [status EXCEPT ![j] = outcome]
    BY <2>a, <2>b DEF EventInv
  <2>3. CASE Push("settle", j) /\ UNCHANGED announced
    <3>1. [step |-> "settle", job |-> j] \in Call
      BY DEF Call
    <3>2. /\ DOMAIN frames' = DOMAIN frames \cup {Len(frames) + 1}
          /\ frames'[Len(frames) + 1] = [step |-> "settle", job |-> j]
          /\ \A i \in DOMAIN frames : frames'[i] = frames[i]
      BY <1>0, <2>3, <3>1, PushCall DEF Push
    <3> QED
      BY <1>0, <2>2, <2>3, <3>2 DEF EventInv, InFrame
  <2>4. CASE Announce(j, "settled") /\ UNCHANGED frames
    BY <1>0, <2>2, <2>4 DEF EventInv, InFrame, Announce
  <2> QED
    BY <2>1, <2>3, <2>4 DEF Settle, Release
<1>5. CASE /\ UNCHANGED <<frames, announced>>
           /\ \A k \in Job : \/ status'[k] = status[k]
                             \/ status[k] \in Active /\ status'[k] = "stopping"
  BY <1>5 DEF EventInv, InFrame, Active, Terminal
<1> QED
  BY <1>1, <1>2, <1>3, <1>4, <1>5, <1>6, Kinds

\* Events are announced in order, and none is lost: a job is announced as settled
\* only after it was as registered, and whenever no caller is interrupted every
\* job that was registered has been announced, and every terminal one as settled,
\* whatever observers and listeners do to the registry meanwhile (index.ts
\* start, settle).
THEOREM EventsInOrder ==
  Spec => [](/\ \A j \in Job : "settled" \in announced[j] => "registered" \in announced[j]
             /\ frames = <<>> => \A j \in Job :
                  /\ status[j] \in Active \cup Terminal => "registered" \in announced[j]
                  /\ status[j] \in Terminal => "settled" \in announced[j])
<1>1. Init => EventInv
  BY DEF Init, EventInv, InFrame, Active, Terminal
<1>2. EventInv =>
        /\ \A j \in Job : "settled" \in announced[j] => "registered" \in announced[j]
        /\ frames = <<>> => \A j \in Job :
             /\ status[j] \in Active \cup Terminal => "registered" \in announced[j]
             /\ status[j] \in Terminal => "settled" \in announced[j]
  BY DEF EventInv, InFrame
<1> QED
  BY SettlementHolds, <1>1, <1>2, StepEvents, PTL DEF Spec

Asked == {"stopping"} \cup Terminal

\* A live job's producer has not reported; and a teardown has asked all that it
\* found to end, but for those that its loop has yet to visit.
AskedInv ==
  /\ \A j \in Job : status[j] \in Active => j \in working
  /\ \A t \in Torn : \A j \in snapshot[t] :
       status[j] \in Asked \/ (life[t] = "cancelling" /\ j \in todo)

\* Once it has been asked to end, a job does not run again.
LEMMA AskedStays ==
  ASSUME TypeOK, StackInv, [Next]_vars
  PROVE  \A k \in Job : status[k] \in Asked => status'[k] \in Asked
<1>1. ASSUME NEW j \in Job, SettlesNow(j)
      PROVE  \A k \in Job : status[k] \in Asked => status'[k] \in Asked
  BY <1>1 DEF SettlesNow, Settle, Asked, TypeOK
<1>2. ASSUME NEW j \in Job, Begins(j)
      PROVE  \A k \in Job : status[k] \in Asked => status'[k] \in Asked
  BY <1>2 DEF Begins, Asked, Terminal, TypeOK
<1>4. ASSUME NEW j \in Job, EndStart(j)
      PROVE  \A k \in Job : status[k] \in Asked => status'[k] \in Asked
  <2>1. /\ status[j] = "starting"
        /\ \/ status' = [status EXCEPT ![j] = "running"]
           \/ status' = [status EXCEPT ![j] = "threw"]
    BY <1>4, StartOutcome
  <2> QED
    BY <2>1 DEF Asked, Terminal, TypeOK
<1>3. ASSUME NEW j \in Job, EndRegister(j) \/ EndSettle(j)
      PROVE  status' = status
  BY <1>3 DEF EndRegister, EndSettle, jobVars
<1> QED
  BY <1>1, <1>2, <1>3, <1>4, Kinds DEF Asked

\* Every step keeps AskedInv.
LEMMA StepAsked == TypeOK /\ StackInv /\ OneLoop /\ AskedInv /\ [Next]_vars => AskedInv'
<1> SUFFICES ASSUME TypeOK, StackInv, OneLoop, AskedInv, [Next]_vars PROVE AskedInv'
  OBVIOUS
<1>0. /\ working \subseteq Job /\ todo \subseteq Job /\ snapshot \in [Torn -> SUBSET Job]
      /\ status \in [Job -> Unlisted \cup Active \cup Terminal]
      /\ life \in [Torn -> {"live", "unloading", "cancelling", "awaiting",
                            "dropping", "gone"}]
  BY DEF TypeOK
<1>a. ASSUME working' = working, status' = status
      PROVE  \A j \in Job : status'[j] \in Active => j \in working'
  BY <1>a DEF AskedInv
<1>b. ASSUME UNCHANGED <<snapshot, todo>>, \A t \in Torn : life[t] = "cancelling" => life'[t] = life[t]
      PROVE  \A t \in Torn : \A j \in snapshot'[t] :
               status'[j] \in Asked \/ (life'[t] = "cancelling" /\ j \in todo')
  BY <1>0, <1>b, AskedStays DEF AskedInv
<1>1. CASE UNCHANGED vars
  BY <1>1, <1>a, <1>b DEF vars, jobVars, lifeVars, AskedInv
<1>2. CASE Caller
  <2>1. \A j \in Job : status'[j] \in Active => j \in working'
    BY <1>0, <1>2 DEF Caller, Start, Kill, Remove, Wait, AbortWait, EndWait, Unload,
                      jobVars, AskedInv, Active
  <2>2. UNCHANGED <<snapshot, todo>> /\ \A t \in Torn : life[t] = "cancelling" => life'[t] = life[t]
    BY <1>0, <1>2 DEF Caller, Start, Kill, Remove, Wait, AbortWait, EndWait, Unload, lifeVars
  <2> QED
    BY <2>1, <2>2, <1>b DEF AskedInv
<1>3. CASE Resume
  <2>1. ASSUME NEW j \in Job, EndStart(j)
        PROVE  \A k \in Job : status'[k] \in Active => k \in working'
    BY <1>0, <2>1 DEF EndStart, Register, ProducerThrows, AskedInv, Active
  <2>2. UNCHANGED <<snapshot, todo, life>>
    BY <1>3 DEF Resume, EndStart, EndRegister, EndSettle, lifeVars
  <2>3. ASSUME NEW j \in Job, EndRegister(j) \/ EndSettle(j)
        PROVE  UNCHANGED <<working, status>>
    BY <2>3 DEF EndRegister, EndSettle, jobVars
  <2> QED
    BY <1>3, <2>1, <2>2, <2>3, <1>a, <1>b DEF Resume, AskedInv
<1>4. ASSUME NEW j \in Job, ProducerEnds(j) PROVE AskedInv'
  <2>1. \A k \in Job : status'[k] \in Active => k \in working'
    BY <1>0, <1>4 DEF ProducerEnds, Settle, AskedInv, Active, Terminal
  <2> QED
    BY <1>4, <2>1, <1>b DEF ProducerEnds, lifeVars, AskedInv
<1>5. CASE \E w \in Waiter : TimeOut(w)
  BY <1>5, <1>a, <1>b DEF TimeOut, EndWait, jobVars, lifeVars, AskedInv
<1>6. ASSUME NEW o \in Owner, NothingAttached(o) PROVE AskedInv'
  <2>1. \A t \in Torn : life[t] = "cancelling" => life'[t] = life[t]
    BY <1>0, <1>6 DEF NothingAttached, Torn
  <2> QED
    BY <1>6, <2>1, <1>a, <1>b DEF NothingAttached, jobVars, AskedInv
<1>7. ASSUME NEW t \in Torn, BeginTeardown(t) PROVE AskedInv'
  <2>1. \A u \in Torn : life[u] # "cancelling"
    BY <1>7 DEF BeginTeardown, Quiet
  <2>2. /\ snapshot' = [snapshot EXCEPT ![t] = Found(t)] /\ todo' = Found(t)
        /\ life' = [life EXCEPT ![t] = "cancelling"] /\ UNCHANGED <<status, working>>
    BY <1>7 DEF BeginTeardown, jobVars
  <2> QED
    BY <1>0, <2>1, <2>2, <1>a DEF AskedInv
<1>8. ASSUME NEW t \in Torn, NEW j \in Job, CancelNext(t, j) PROVE AskedInv'
  <2>1. /\ life[t] = "cancelling" /\ todo' = todo \ {j}
        /\ UNCHANGED <<working, life, snapshot>>
    BY <1>8 DEF CancelNext
  <2>2. \/ status'[j] \in Asked /\ \A k \in Job : k # j => status'[k] = status[k]
    BY <1>0, <1>8 DEF CancelNext, Orphan, Settle, Asked, Terminal
  <2>3. \A k \in Job : status'[k] \in Active => k \in working'
    BY <1>0, <1>8 DEF CancelNext, Orphan, Settle, AskedInv, Active, Terminal
  <2>4. \A u \in Torn : life[u] = "cancelling" => u = t
    BY <2>1 DEF OneLoop
  <2> QED
    BY <1>0, <2>1, <2>2, <2>3, <2>4 DEF AskedInv
<1>9. ASSUME NEW t \in Torn, AllCancelled(t) PROVE AskedInv'
  <2>1. todo = {} /\ UNCHANGED <<status, working, snapshot, todo>>
    BY <1>9 DEF AllCancelled, jobVars
  <2> QED
    BY <1>0, <2>1, <1>a DEF AskedInv
<1>10. ASSUME NEW t \in Torn, AllSettled(t) PROVE AskedInv'
  <2>1. /\ \A u \in Torn : life[u] # "cancelling"
        /\ UNCHANGED <<status, working, snapshot>>
    BY <1>10 DEF AllSettled, Quiet, jobVars
  <2> QED
    BY <1>0, <2>1, <1>a DEF AskedInv
<1>11. ASSUME NEW t \in Torn, NEW j \in Job, DropNext(t, j) PROVE AskedInv'
  <2>1. \A u \in Torn : life[u] # "cancelling"
    BY <1>11 DEF DropNext, OneLoop
  <2>2. UNCHANGED <<status, working, snapshot, life>>
    BY <1>11 DEF DropNext, jobVars
  <2> QED
    BY <1>0, <2>1, <2>2, <1>a DEF AskedInv
<1>12. ASSUME NEW t \in Torn, AllDropped(t) PROVE AskedInv'
  <2>1. /\ \A u \in Torn : u # t => life'[u] = life[u]
        /\ snapshot' = [snapshot EXCEPT ![t] = {}] /\ UNCHANGED <<status, working, todo>>
    BY <1>12 DEF AllDropped, Move, jobVars
  <2> QED
    BY <1>0, <2>1, <1>a DEF AskedInv
<1> QED
  BY <1>1, <1>2, <1>3, <1>4, <1>5, <1>6, <1>7, <1>8, <1>9, <1>10, <1>11, <1>12
  DEF Next, Teardown

\* A teardown waits for nothing but producers that have been asked to end: when it
\* awaits its jobs, each has settled, or is stopping and its producer has not
\* reported, whatever was killed, started or torn down meanwhile (index.ts
\* disposeOwned, disposeAll, cancelForTeardown).
THEOREM TeardownWaitsForAsked ==
  Spec => [](\A t \in Torn : life[t] \in {"awaiting", "dropping"} =>
               \A j \in snapshot[t] :
                 status[j] \in Terminal \/ (status[j] = "stopping" /\ j \in working))
<1>1. Init => AskedInv
  BY DEF Init, AskedInv, Active
<1>2. TypeOK /\ AskedInv =>
        \A t \in Torn : life[t] \in {"awaiting", "dropping"} =>
          \A j \in snapshot[t] :
            status[j] \in Terminal \/ (status[j] = "stopping" /\ j \in working)
  BY DEF AskedInv, Asked, TypeOK, Active
<1>3. TeardownInv => OneLoop
  BY DEF TeardownInv
<1> QED
  BY TeardownHolds, <1>1, <1>2, <1>3, StepAsked, PTL DEF Spec

=============================================================================
