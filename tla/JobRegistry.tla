---------------------------- MODULE JobRegistry ----------------------------
(***************************************************************************)
(* The in-memory registry of background jobs (LocalJobRegistry): admission *)
(* under a limit, kill, waits, settlement, and the teardown of one owner   *)
(* or of the whole service.                                                *)
(*                                                                         *)
(* The host is single threaded.  Starting a job runs its producer, and     *)
(* committing the durable record of an owned job runs its observers,       *)
(* before the caller goes on: both may call the registry again, and the    *)
(* interrupted caller waits in "frames".  The loops of a teardown announce *)
(* an event per job, whose listeners may call the registry too.  Promises  *)
(* and timers advance only when no such caller is left (Quiet).            *)
(*                                                                         *)
(* Ids, access checks, details, results and job output are abstracted.     *)
(***************************************************************************)
EXTENDS Integers, Sequences, FiniteSets

CONSTANTS Job,      \* jobs that may be started
          Owner,    \* agents that may own them
          Waiter,   \* calls of wait
          Unowned,  \* the owner of a job that has none
          NoJob,    \* what a wait that has not begun waits for
          Service,  \* the registry itself, as something that is torn down
          Limit     \* maxConcurrentJobsPerOwner

ASSUME LimitAssumption == Limit \in Nat \ {0}
ASSUME OwnerAssumption == Unowned \notin Owner /\ Service \notin Owner

VARIABLES
  status,       \* of each job, "absent" before it is started
  owner,
  settleCause,  \* who asked for the end, "producer" when nobody did
  working,      \* jobs whose producer has not reported
  overtaken,    \* jobs whose owner had another one registered in their start
  stored,       \* jobs in the store
  announced,    \* registered and settled events emitted for each job
  verdict,      \* the cause and the awaited flag of its settled event
  frames,       \* callers interrupted by other code, the last one on top
  waitJob,      \* what each wait waits for
  waitState,
  resolvers,    \* waits a settlement will release
  life,         \* of each owner's scope, and of the service
  attached,     \* owners whose cleanup is attached
  snapshot,     \* the jobs a teardown found
  todo          \* jobs the running teardown loop has not visited

jobVars  == <<status, owner, settleCause, working, overtaken>>
waitVars == <<waitJob, waitState, resolvers>>
lifeVars == <<life, attached, snapshot, todo>>
vars == <<jobVars, stored, announced, verdict, frames, waitVars, lifeVars>>

Unlisted  == {"absent", "starting", "threw"}
Active    == {"running", "stopping"}
Terminal  == {"completed", "failed"}      \* "killed" behaves as "completed" does
Cause     == {"producer", "kill", "teardown"}
Torn      == Owner \cup {Service}
Unsettled == [cause |-> "producer", awaited |-> FALSE]

TypeOK ==
  /\ status \in [Job -> Unlisted \cup Active \cup Terminal]
  /\ owner \in [Job -> Owner \cup {Unowned}]
  /\ settleCause \in [Job -> Cause]
  /\ working \subseteq Job /\ overtaken \subseteq Job
  /\ stored \subseteq Job /\ todo \subseteq Job
  /\ announced \in [Job -> SUBSET {"registered", "settled"}]
  /\ verdict \in [Job -> [cause : Cause, awaited : BOOLEAN]]
  /\ frames \in Seq([step : {"start", "register", "settle"}, job : Job])
  /\ waitJob \in [Waiter -> Job \cup {NoJob}]
  /\ waitState \in [Waiter -> {"idle", "waiting", "released", "timedOut", "aborted",
                               "returned"}]
  /\ resolvers \subseteq Waiter
  /\ life \in [Torn -> {"live", "unloading", "cancelling", "awaiting",
                        "dropping", "gone"}]
  /\ attached \subseteq Owner
  /\ snapshot \in [Torn -> SUBSET Job]

Init ==
  /\ status = [j \in Job |-> "absent"] /\ owner = [j \in Job |-> Unowned]
  /\ settleCause = [j \in Job |-> "producer"] /\ working = {} /\ overtaken = {}
  /\ stored = {} /\ announced = [j \in Job |-> {}]
  /\ verdict = [j \in Job |-> Unsettled]
  /\ frames = <<>>
  /\ waitJob = [w \in Waiter |-> NoJob] /\ waitState = [w \in Waiter |-> "idle"]
  /\ resolvers = {}
  /\ life = [t \in Torn |-> "live"] /\ attached = {}
  /\ snapshot = [t \in Torn |-> {}] /\ todo = {}

Quiet == frames = <<>> /\ \A t \in Torn : life[t] \notin {"cancelling", "dropping"}

Top(step, j) == frames # <<>> /\ frames[Len(frames)] = [step |-> step, job |-> j]
Push(step, j) == frames' = Append(frames, [step |-> step, job |-> j])
Pop == frames' = SubSeq(frames, 1, Len(frames) - 1)

Announce(j, event) == announced' = [announced EXCEPT ![j] = @ \cup {event}]

\* The job's session publishes its record to observers, unless it is in the
\* middle of publishing another one.
Publishes(o) ==
  o # Unowned
  /\ \A i \in DOMAIN frames : frames[i].step # "start" => owner[frames[i].job] # o

-----------------------------------------------------------------------------
(* Starting and killing.                                                     *)

\* Mutation: a stopping job no longer counts.
ActiveJobs_Running(o) == {j \in stored : owner[j] = o /\ status[j] = "running"}

ActiveJobs(o) == {j \in stored : owner[j] = o /\ status[j] \in Active}

\* A scope that is going away takes no new cleanup.
AttachesCleanup(o) == o \in attached \/ life[o] = "live"

\* The producer is run once the limit is checked.  The controllers detach, and
\* start refuses work, before the service unloads.  The owner's cleanup stays
\* attached when the limit refuses the job or its producer throws.
Start(j, o) ==
  /\ status[j] = "absent" /\ life[Service] = "live"
  /\ o # Unowned => AttachesCleanup(o)
  /\ attached' = attached \cup ({o} \ {Unowned})
  /\ \/ /\ Cardinality(ActiveJobs(o)) < Limit
        /\ status' = [status EXCEPT ![j] = "starting"]
        /\ owner' = [owner EXCEPT ![j] = o]
        /\ Push("start", j)
     \/ /\ Cardinality(ActiveJobs(o)) >= Limit
        /\ UNCHANGED <<status, owner, frames>>
  /\ UNCHANGED <<settleCause, working, overtaken, stored, announced, verdict, waitVars,
                 life, snapshot, todo>>

Siblings(j) == {k \in Job \ {j} : status[k] = "starting" /\ owner[k] = owner[j]}

\* The producer has returned its hooks: the job is stored and recorded.
Register(j) ==
  /\ status' = [status EXCEPT ![j] = "running"]
  /\ stored' = stored \cup {j} /\ working' = working \cup {j}
  /\ overtaken' = overtaken \cup Siblings(j)
  /\ \/ /\ Publishes(owner[j]) /\ UNCHANGED announced
        /\ frames' = [frames EXCEPT ![Len(frames)] = [step |-> "register", job |-> j]]
     \/ Announce(j, "registered") /\ Pop               \* unowned, or not recorded
  /\ UNCHANGED owner

\* It has thrown: nothing is registered, and the id is never used again.
ProducerThrows(j) ==
  /\ status' = [status EXCEPT ![j] = "threw"] /\ owner' = [owner EXCEPT ![j] = Unowned]
  /\ overtaken' = overtaken \ {j} /\ Pop
  /\ UNCHANGED <<stored, working, announced>>

EndStart(j) ==
  /\ Top("start", j)
  /\ Register(j) \/ ProducerThrows(j)
  /\ UNCHANGED <<settleCause, verdict, waitVars, lifeVars>>

EndRegister(j) ==
  /\ Top("register", j) /\ Pop
  /\ Announce(j, "registered")
  /\ UNCHANGED <<jobVars, stored, verdict, waitVars, lifeVars>>

\* Last writer wins.  A cancel that throws changes nothing.
Kill(j) ==
  /\ j \in stored /\ status[j] \in Active
  /\ status' = [status EXCEPT ![j] = "stopping"]
  /\ settleCause' = [settleCause EXCEPT ![j] = "kill"]
  /\ UNCHANGED <<owner, working, overtaken, stored, announced, verdict, frames, waitVars,
                 lifeVars>>

Remove(j) ==
  /\ j \in stored /\ status[j] \in Terminal
  /\ stored' = stored \ {j}
  /\ UNCHANGED <<jobVars, announced, verdict, frames, waitVars, lifeVars>>

-----------------------------------------------------------------------------
(* Waits and settlement.                                                     *)

Wait(w, j) ==
  /\ waitState[w] = "idle" /\ j \in stored
  /\ waitJob' = [waitJob EXCEPT ![w] = j]
  /\ \/ /\ status[j] \in Active
        /\ waitState' = [waitState EXCEPT ![w] = "waiting"]
        /\ resolvers' = resolvers \cup {w}
     \/ /\ status[j] \in Terminal
        /\ waitState' = [waitState EXCEPT ![w] = "returned"]
        /\ UNCHANGED resolvers
  /\ UNCHANGED <<jobVars, stored, announced, verdict, frames, lifeVars>>

\* Mutation: a wait that ends early leaves its resolver behind.
EndWait_KeepsResolver(w, state) ==
  /\ waitState[w] = "waiting"
  /\ waitState' = [waitState EXCEPT ![w] = state]
  /\ UNCHANGED <<jobVars, stored, announced, verdict, frames, waitJob, resolvers, lifeVars>>

\* onAbort: the deadline or the caller ends the wait.
EndWait(w, state) ==
  /\ waitState[w] = "waiting"
  /\ waitState' = [waitState EXCEPT ![w] = state]
  /\ resolvers' = resolvers \ {w}
  /\ UNCHANGED <<jobVars, stored, announced, verdict, frames, waitJob, lifeVars>>

TimeOut(w) == Quiet /\ EndWait(w, "timedOut")

AbortWait(w) == EndWait(w, "aborted")

Owed(j) == {w \in resolvers : waitJob[w] = j}

\* The end of settle: every waiter is released, then the event goes out.
Release(j, cause) ==
  /\ waitState' = [w \in Waiter |-> IF w \in Owed(j) /\ waitState[w] = "waiting"
                                      THEN "released" ELSE waitState[w]]
  /\ resolvers' = resolvers \ Owed(j)
  /\ verdict' = [verdict EXCEPT ![j] = [cause |-> cause, awaited |-> Owed(j) # {}]]
  /\ Announce(j, "settled")
  /\ UNCHANGED waitJob

\* settle, for a job that is not terminal: observers of the durable record of
\* an owned job run before its waiters are released.
Settle(j, outcome, cause) ==
  /\ status' = [status EXCEPT ![j] = outcome]
  /\ \/ /\ Publishes(owner[j]) /\ Push("settle", j)
        /\ UNCHANGED <<waitVars, verdict, announced>>
     \/ Release(j, cause) /\ UNCHANGED frames       \* unowned, or not recorded

EndSettle(j) ==
  /\ Top("settle", j) /\ Pop
  /\ Release(j, settleCause[j])
  /\ UNCHANGED <<jobVars, stored, lifeVars>>

\* The continuation of done, after the pump's last drain.  The producer reports
\* an outcome or fails by breaking its contract; the first outcome wins.
ProducerEnds(j) ==
  /\ Quiet /\ j \in working
  /\ working' = working \ {j}
  /\ \/ /\ status[j] \in Active
        /\ \E outcome \in Terminal : Settle(j, outcome, settleCause[j])
     \/ /\ status[j] \in Terminal
        /\ UNCHANGED <<status, frames, waitVars, verdict, announced>>
  /\ UNCHANGED <<owner, settleCause, overtaken, stored, lifeVars>>

-----------------------------------------------------------------------------
(* Teardown of an owner, by the cleanup its scope runs, and of the service.  *)

Unload(t) ==
  /\ life[t] = "live"
  /\ life' = [life EXCEPT ![t] = "unloading"]
  /\ UNCHANGED <<jobVars, stored, announced, verdict, frames, waitVars, attached,
                 snapshot, todo>>

Found(t) == IF t = Service THEN stored ELSE {j \in stored : owner[j] = t}

\* Mutation: the cleanup stays registered until the owner is gone.
BeginTeardown_KeepsCleanup(t) ==
  /\ Quiet /\ life[t] = "unloading"
  /\ t = Service \/ t \in attached
  /\ UNCHANGED attached
  /\ snapshot' = [snapshot EXCEPT ![t] = Found(t)] /\ todo' = Found(t)
  /\ life' = [life EXCEPT ![t] = "cancelling"]
  /\ UNCHANGED <<jobVars, stored, announced, verdict, frames, waitVars>>

\* disposeOwned and disposeAll: take the jobs there are and cancel them.
BeginTeardown(t) ==
  /\ Quiet /\ life[t] = "unloading"
  /\ t = Service \/ t \in attached
  /\ attached' = attached \ {t}
  /\ snapshot' = [snapshot EXCEPT ![t] = Found(t)] /\ todo' = Found(t)
  /\ life' = [life EXCEPT ![t] = "cancelling"]
  /\ UNCHANGED <<jobVars, stored, announced, verdict, frames, waitVars>>

NothingAttached(o) ==
  /\ Quiet /\ life[o] = "unloading" /\ o \notin attached
  /\ life' = [life EXCEPT ![o] = "gone"]
  /\ UNCHANGED <<jobVars, stored, announced, verdict, frames, waitVars, attached,
                 snapshot, todo>>

\* Mutation: a cancel that throws is only logged.
Orphan_Logs(j) == UNCHANGED <<status, frames, waitVars, verdict, announced>>

\* A cancel that throws force-fails the record.
Orphan(j) == Settle(j, "failed", "teardown")

CancelNext(t, j) ==
  /\ life[t] = "cancelling" /\ frames = <<>> /\ j \in todo
  /\ todo' = todo \ {j}
  /\ \/ /\ status[j] \in Terminal
        /\ UNCHANGED <<status, settleCause, frames, waitVars, verdict, announced>>
     \/ /\ status[j] \in Active
        /\ settleCause' = [settleCause EXCEPT ![j] = "teardown"]
        /\ \/ /\ status' = [status EXCEPT ![j] = "stopping"]
              /\ UNCHANGED <<frames, waitVars, verdict, announced>>
           \/ Orphan(j)
  /\ UNCHANGED <<owner, working, overtaken, stored, life, attached, snapshot>>

Move(t, from, to) == life[t] = from /\ life' = [life EXCEPT ![t] = to]

AllCancelled(t) ==
  /\ Move(t, "cancelling", "awaiting") /\ frames = <<>> /\ todo = {}
  /\ UNCHANGED <<jobVars, stored, announced, verdict, frames, waitVars, attached,
                 snapshot, todo>>

AllSettled(t) ==
  /\ Quiet /\ Move(t, "awaiting", "dropping")
  /\ \A j \in snapshot[t] : status[j] \in Terminal
  /\ todo' = snapshot[t]
  /\ UNCHANGED <<jobVars, stored, announced, verdict, frames, waitVars, attached,
                 snapshot>>

DropNext(t, j) ==
  /\ life[t] = "dropping" /\ frames = <<>> /\ j \in todo
  /\ todo' = todo \ {j} /\ stored' = stored \ {j}
  /\ UNCHANGED <<jobVars, announced, verdict, frames, waitVars, life, attached, snapshot>>

\* The service detaches the cleanups of the owners that live on.
AllDropped(t) ==
  /\ Move(t, "dropping", "gone") /\ frames = <<>> /\ todo = {}
  /\ attached' = IF t = Service THEN {} ELSE attached
  /\ snapshot' = [snapshot EXCEPT ![t] = {}]
  /\ UNCHANGED <<jobVars, stored, announced, verdict, frames, waitVars, todo>>

-----------------------------------------------------------------------------

\* Calls that other code may make at any of its own points.
Caller ==
  \/ \E j \in Job, o \in Owner \cup {Unowned} : Start(j, o)
  \/ \E j \in Job : Kill(j)
  \/ \E j \in Job : Remove(j)
  \/ \E w \in Waiter, j \in Job : Wait(w, j)
  \/ \E w \in Waiter : AbortWait(w)
  \/ \E t \in Torn : Unload(t)

Resume == \E j \in Job : EndStart(j) \/ EndRegister(j) \/ EndSettle(j)

Teardown(t) ==
  \/ BeginTeardown(t)
  \/ \E j \in Job : CancelNext(t, j)
  \/ AllCancelled(t)
  \/ AllSettled(t)
  \/ \E j \in Job : DropNext(t, j)
  \/ AllDropped(t)

Next ==
  \/ Caller
  \/ Resume
  \/ \E j \in Job : ProducerEnds(j)
  \/ \E w \in Waiter : TimeOut(w)
  \/ \E o \in Owner : NothingAttached(o)
  \/ \E t \in Torn : Teardown(t)

Spec == Init /\ [][Next]_vars

\* Synchronous code ends, promise continuations run, and a producer that
\* accepted a cancel ends: JobHooks.cancel "must ... eventually settle" done.
Fairness ==
  /\ WF_vars(Resume)
  /\ \A j \in Job : WF_vars(status[j] = "stopping" /\ ProducerEnds(j))
  /\ \A t \in Torn : WF_vars(Teardown(t))
  /\ \A o \in Owner : WF_vars(NothingAttached(o))

FairSpec == Spec /\ Fairness

-----------------------------------------------------------------------------
(* Properties.                                                               *)

\* A settlement is announced as awaited exactly when a wait got its result
\* from it, and no wait is left behind by a settlement: not the waits that
\* timed out or were aborted earlier, whatever ran in between (index.ts settle,
\* waitJob; a completion reporter skips awaited settlements).
AwaitedIsTrue ==
  \A j \in Job : "settled" \in announced[j] =>
    /\ verdict[j].awaited <=> \E w \in Waiter : waitJob[w] = j /\ waitState[w] = "released"
    /\ \A w \in Waiter : waitJob[w] = j => waitState[w] # "waiting"

\* A live job can be found and is counted: it is listed until it settles, and no
\* owner has more live jobs than the limit, stopping ones included, whatever
\* teardowns drop.  Only a job whose producer, as it started, had another job of
\* the same owner registered may come on top: the limit was checked before it
\* (index.ts remove, drop, activeJobCount, start).
LiveJobsAreCounted ==
  /\ \A j \in Job : status[j] \in Active => j \in stored
  /\ \A o \in Owner \cup {Unowned} :
       Cardinality({j \in Job \ overtaken : status[j] \in Active /\ owner[j] = o}) <= Limit

\* Once an owner's scope is gone, nothing of it starts or runs and nothing is
\* listed, though listeners could start jobs while it was torn down (index.ts
\* ensureOwnerCleanup, disposeOwned).
OwnerLeavesNothing ==
  \A j \in Job : owner[j] \in Owner =>
    (life[owner[j]] = "gone" =>
       status[j] \notin Active \cup {"starting"} /\ j \notin stored)

\* The first outcome stands: a terminal status and an announced verdict never
\* change, not even when a producer that was declared failed reports later
\* (index.ts settle; jobs/src/index.ts "Settlement is first-wins").
FirstOutcomeStands ==
  [][\A j \in Job : /\ status[j] \in Terminal => status'[j] = status[j]
                    /\ "settled" \in announced[j] => verdict'[j] = verdict[j]]_vars

\* Teardown does not wait for ever, neither an owner's nor the service's,
\* whatever cancels throw (index.ts cancelForTeardown).
TeardownEnds == \A t \in Torn : life[t] = "unloading" ~> life[t] = "gone"

=============================================================================
