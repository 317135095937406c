--------------------------- MODULE AgentLifecycle ---------------------------
(***************************************************************************)
(* The agent factory: from an acquired session to a published agent, and   *)
(* back, for several concurrent attempts at one identity.                  *)
(*                                                                         *)
(* An attempt acquires the write handle, mints scope and driver, and       *)
(* initializes the agent inside a maintenance task: it stores the session, *)
(* enters and announces it, runs setup, enters and announces the agent.    *)
(* Its caller's signal, its owner's unload, the factory's unload and a     *)
(* failure of its own race it; all of them meet in one memoized teardown.  *)
(*                                                                         *)
(* Of the driver only the phase, the cause of its abort, its latched wake  *)
(* and at most one queued message are kept; AgentDriver has the rest.      *)
(***************************************************************************)
EXTENDS Naturals, FiniteSets

CONSTANTS Attempt,     \* calls of create, createAgent or resume for one id
          Backed,      \* those made while a persistence backend is mounted
          Met,         \* bound: those whose agent gets messages and user cancels
          MaxSends,    \* bound: messages sent to one agent
          None

ASSUME LifecycleAssumption ==
  Backed \subseteq Attempt /\ Met \subseteq Attempt /\ None \notin Attempt /\ MaxSends \in Nat

VARIABLES
  at,          \* where the attempt's code is
  call,        \* the method it calls
  cancelled,   \* its caller's signal is aborted
  aborted,     \* the fused signal of its initialization is aborted
  ready,       \* initialization succeeded
  settingUp,   \* attempts whose setup callback has not settled, even if given up
  scope,       \* the agent's scope
  handle,      \* the write handle
  claim,       \* the attempt whose handle has the backend's write claim
  sessionIn,   \* the attempt whose session is in the session store
  agentIn,     \* the attempt whose agent is in the agent registry
  teardown,    \* how far the memoized teardown is
  phase, cause, latched, inbox,    \* the driver
  sent, interfered,                \* history: messages sent, agents cancelled by a user
  owner, factory,                  \* the owner's fiber and the factory
  dispatching  \* the attempt whose synchronous callbacks are running

vars == <<at, call, cancelled, aborted, ready, settingUp, scope, handle, claim, sessionIn,
          agentIn, teardown, phase, cause, latched, inbox, sent, interfered, owner,
          factory, dispatching>>

attemptVars == <<call, cancelled, ready, settingUp>>
driverVars == <<phase, cause, latched, inbox, sent, interfered>>
registries == <<sessionIn, agentIn>>
owners == <<owner, factory>>

Stage == {"none", "acquire", "load", "init", "minting", "store", "created", "setup",
          "announce", "failing", "dropping", "disposing", "returned", "rejected"}

\* Every variable has its values; an open handle holds the claim, the driver
\* comes with its scope, and a teardown is seen by the initialization.
TypeOK ==
  /\ \A a \in Attempt : handle[a] = "open" <=> claim = a
  /\ \A a \in Attempt : scope[a] = "none" <=> phase[a] = "none"
  /\ \A a \in Attempt : teardown[a] # "no" => aborted[a]
  /\ \A a \in Attempt : dispatching = a => at[a] \in {"minting", "created"}
  /\ at \in [Attempt -> Stage]
  /\ call \in [Attempt -> {"create", "createAgent", "resume"}]
  /\ cancelled \in [Attempt -> BOOLEAN]
  /\ aborted \in [Attempt -> BOOLEAN] /\ ready \in [Attempt -> BOOLEAN]
  /\ settingUp \subseteq Attempt
  /\ scope \in [Attempt -> {"none", "live", "gone"}]
  /\ handle \in [Attempt -> {"none", "pending", "open", "closed"}]
  /\ claim \in Attempt \cup {None}
  /\ sessionIn \in Attempt \cup {None} /\ agentIn \in Attempt \cup {None}
  /\ teardown \in [Attempt -> {"no", "wait", "idle", "scope", "close", "detach", "done"}]
  /\ phase \in [Attempt -> {"none", "maintenance", "idle", "running"}]
  /\ cause \in [Attempt -> {"none", "user", "disposed"}]
  /\ latched \in [Attempt -> BOOLEAN] /\ inbox \in [Attempt -> 0 .. MaxSends]
  /\ sent \in [Attempt -> 0 .. MaxSends] /\ interfered \in [Attempt -> BOOLEAN]
  /\ owner \in {"active", "unloading", "gone"}
  /\ factory \in {"active", "unloading", "gone"}
  /\ dispatching \in Attempt \cup {None}

Each(v) == [a \in Attempt |-> v]

Init ==
  /\ at = Each("none") /\ call = Each("create") /\ cancelled = Each(FALSE)
  /\ aborted = Each(FALSE) /\ ready = Each(FALSE) /\ settingUp = {}
  /\ scope = Each("none")
  /\ handle = Each("none") /\ claim = None /\ sessionIn = None /\ agentIn = None
  /\ teardown = Each("no") /\ phase = Each("none") /\ cause = Each("none")
  /\ latched = Each(FALSE) /\ inbox = Each(0) /\ sent = Each(0)
  /\ interfered = Each(FALSE) /\ owner = "active" /\ factory = "active"
  /\ dispatching = None

\* Code that continues after an await waits for synchronous callbacks to return.
Free == dispatching = None

Goes(a, stage) == at' = [at EXCEPT ![a] = stage]

\* What goes wrong before the agent's effects exist is undone by closing the handle.
Drops(a) == Goes(a, "dropping")

Closes(a) == /\ handle' = [handle EXCEPT ![a] = IF @ = "open" THEN "closed" ELSE @]
             /\ claim' = IF claim = a THEN None ELSE claim

Settled(a) == at[a] \in {"none", "returned", "rejected"}

\* Mutation: a failed initialization is no longer owned.
Tracked_UntilFailed(a) == /\ at[a] \in {"minting", "store", "created", "setup",
                                        "announce", "returned"}
                          /\ teardown[a] # "done"

\* Tracked by the factory, and owned through an effect of the caller's fiber.
Tracked(a) == /\ at[a] \in {"minting", "store", "created", "setup", "announce",
                            "failing", "disposing", "returned"}
              /\ teardown[a] # "done"

-----------------------------------------------------------------------------
(* Acquiring the session.                                                    *)

\* Only a resume needs a persistence backend; a creation without one keeps no handle.
Begin(a) ==
  /\ Free /\ at[a] = "none" /\ owner = "active" /\ factory = "active"
  /\ \E c \in {"create", "createAgent", "resume"} :
       /\ c = "resume" => a \in Backed
       /\ call' = [call EXCEPT ![a] = c]
  /\ handle' = [handle EXCEPT ![a] = IF a \in Backed THEN "pending" ELSE "none"]
  /\ Goes(a, IF a \in Backed THEN "acquire" ELSE "init")
  /\ UNCHANGED <<cancelled, aborted, ready, settingUp, scope, claim, registries, teardown,
                 driverVars, owners, dispatching>>

\* The backend gives the claim to one writer of an id; the handle may arrive
\* after its attempt was given up.
HandleArrives(a) ==
  /\ Free /\ handle[a] = "pending" /\ claim = None
  /\ handle' = [handle EXCEPT ![a] = "open"] /\ claim' = a
  /\ IF at[a] = "acquire" THEN Goes(a, IF call[a] = "resume" THEN "load" ELSE "init")
     ELSE UNCHANGED at
  /\ UNCHANGED <<attemptVars, aborted, scope, registries, teardown, driverVars,
                 owners, dispatching>>

\* The id is taken, the session missing or damaged, or the backend saw the signal.
HandleRefused(a) ==
  /\ Free /\ handle[a] = "pending"
  /\ handle' = [handle EXCEPT ![a] = "none"]
  /\ Goes(a, "rejected")
  /\ UNCHANGED <<attemptVars, aborted, scope, claim, registries, teardown,
                 driverVars, owners, dispatching>>

\* raceAbortCall: a create is raced by its caller's signal, a resume by its
\* owner's and the factory's unload as well.
GivesUp(a) ==
  /\ Free /\ at[a] = "acquire"
  /\ cancelled[a] \/ (call[a] = "resume" /\ (owner # "active" \/ factory # "active"))
  /\ Goes(a, "rejected")
  /\ UNCHANGED <<attemptVars, aborted, scope, handle, claim, registries, teardown,
                 driverVars, owners, dispatching>>

\* releaseAbandoned.
CloseAbandoned(a) ==
  /\ Free /\ at[a] = "rejected" /\ handle[a] = "open"
  /\ Closes(a)
  /\ UNCHANGED <<at, attemptVars, aborted, scope, registries, teardown,
                 driverVars, owners, dispatching>>

\* resumeWith reads the log and appends closers and the suffix; both may fail.
Load(a) ==
  /\ Free /\ at[a] = "load"
  /\ \/ /\ owner = "active" /\ factory = "active" /\ Goes(a, "init")
     \/ Drops(a)
  /\ UNCHANGED <<attemptVars, aborted, scope, handle, claim, registries, teardown,
                 driverVars, owners, dispatching>>

Dropped(a) ==
  /\ Free /\ at[a] = "dropping"
  /\ Closes(a) /\ Goes(a, "rejected")
  /\ UNCHANGED <<attemptVars, aborted, scope, registries, teardown, driverVars,
                 owners, dispatching>>

-----------------------------------------------------------------------------
(* initializeAgent.                                                          *)

\* The disposer is tracked and the signals are fused before anything exists;
\* minting the scope runs plugin code synchronously.
Initialize(a) ==
  /\ Free /\ at[a] = "init"
  /\ IF owner = "active" /\ factory = "active" /\ ~cancelled[a]
     THEN Goes(a, "minting") /\ dispatching' = a
     ELSE Drops(a) /\ UNCHANGED dispatching
  /\ UNCHANGED <<attemptVars, aborted, scope, handle, claim, registries, teardown,
                 driverVars, owners>>

\* The memoized teardown begins: the first to ask for it starts it.
TearsDown(a) ==
  /\ aborted' = [aborted EXCEPT ![a] = TRUE]
  /\ teardown' = [teardown EXCEPT ![a] = IF @ = "no" THEN "wait" ELSE @]

\* The driver exists and its maintenance task begins, unless the signal is
\* aborted already: then initialization is over before it began.
Mint(a) ==
  /\ dispatching = a /\ at[a] = "minting"
  /\ dispatching' = None
  /\ scope' = [scope EXCEPT ![a] = "live"]
  /\ IF aborted[a]
     THEN Goes(a, "disposing") /\ phase' = [phase EXCEPT ![a] = "idle"] /\ TearsDown(a)
     ELSE /\ Goes(a, "store") /\ phase' = [phase EXCEPT ![a] = "maintenance"]
          /\ UNCHANGED <<aborted, teardown>>
  /\ UNCHANGED <<attemptVars, handle, claim, registries, cause, latched,
                 inbox, sent, interfered, owners>>

\* The scope or the driver cannot be constructed.
MintFails(a) ==
  /\ dispatching = a /\ at[a] = "minting"
  /\ dispatching' = None /\ Drops(a)
  /\ UNCHANGED <<attemptVars, aborted, scope, handle, claim, registries, teardown,
                 driverVars, owners>>

\* Mutation: the serial listeners of agent/created are not awaited.
Publishing_Unawaited(a) == at[a] \in {"store", "created", "setup"}

\* The publication promise: creation has begun and not settled.
Publishing(a) == at[a] \in {"store", "created", "setup", "announce"}

\* Mutation: a failed initialization leaves the maintenance task uncancelled.
Abandons_Uncancelled(a) == UNCHANGED cause

\* cancel({disposed}, {keepInbox}): the first cause of an activity stands.
Abandons(a) == cause' = [cause EXCEPT ![a] = IF @ = "none" THEN "disposed" ELSE @]

\* The initialization fails here; its maintenance task is about to end.
Fails(a) == Goes(a, "failing") /\ Abandons(a)

\* The constructor seed is stored, and the session is entered and announced.
\* Another session of this id, or a failed append, ends the initialization.
EnterSession(a) ==
  /\ Free /\ at[a] = "store"
  /\ \/ /\ ~aborted[a] /\ sessionIn = None
        /\ sessionIn' = a /\ Goes(a, "created") /\ dispatching' = a
        /\ UNCHANGED cause
     \/ Fails(a) /\ UNCHANGED <<sessionIn, dispatching>>
  /\ UNCHANGED <<attemptVars, aborted, scope, handle, claim, agentIn, teardown,
                 phase, latched, inbox, sent, interfered, owners>>

\* The listeners of session/created return, and one of them may veto; setup is
\* called.
SessionAnnounced(a) ==
  /\ dispatching = a /\ at[a] = "created" /\ dispatching' = None
  /\ \/ ~aborted[a] /\ Goes(a, "setup") /\ settingUp' = settingUp \cup {a} /\ UNCHANGED cause
     \/ Fails(a) /\ UNCHANGED settingUp
  /\ UNCHANGED <<call, cancelled, ready, aborted, scope, handle, claim, registries, teardown,
                 phase, latched, inbox, sent, interfered, owners>>

\* Setup returns or throws.  Nobody may be waiting for it any more.
SetupEnds(a) ==
  /\ Free /\ a \in settingUp
  /\ settingUp' = settingUp \ {a}
  /\ UNCHANGED <<at, call, cancelled, ready, aborted, scope, handle, claim, registries,
                 teardown, driverVars, owners, dispatching>>

\* After setup the agent is entered, unless setup threw or the id is taken; or the
\* signal wins the race (raceAbort), and setup is given up while it runs.
EnterAgent(a) ==
  /\ Free /\ at[a] = "setup"
  /\ a \in settingUp => aborted[a]
  /\ \/ /\ ~aborted[a] /\ agentIn = None
        /\ agentIn' = a /\ Goes(a, "announce") /\ UNCHANGED cause
     \/ Fails(a) /\ UNCHANGED agentIn
  /\ UNCHANGED <<attemptVars, aborted, scope, handle, claim, sessionIn, teardown,
                 phase, latched, inbox, sent, interfered, owners, dispatching>>

\* The serial listeners of agent/created have settled.
AgentAnnounced(a) ==
  /\ Free /\ at[a] = "announce"
  /\ \/ /\ ~aborted[a] /\ ready' = [ready EXCEPT ![a] = TRUE] /\ Goes(a, "returned")
        /\ UNCHANGED cause
     \/ Fails(a) /\ UNCHANGED ready
  /\ UNCHANGED <<call, cancelled, settingUp, aborted, scope, handle, claim, registries,
                 teardown, phase, latched, inbox, sent, interfered, owners, dispatching>>

\* An activity that ends replays the wake latched behind it, if the queue still
\* holds something and no disposal ended it.
Converges(a) ==
  LET replay == latched[a] /\ cause[a] # "disposed" /\ inbox[a] > 0
  IN /\ phase' = [phase EXCEPT ![a] = IF replay THEN "running" ELSE "idle"]
     /\ inbox' = [inbox EXCEPT ![a] = IF replay THEN 0 ELSE @]
     /\ cause' = [cause EXCEPT ![a] = "none"]
     /\ latched' = [latched EXCEPT ![a] = FALSE]

\* runMaintenance's finally; a failed initialization goes on to dispose.
EndMaintenance(a) ==
  /\ Free /\ phase[a] = "maintenance" /\ ~Publishing(a)
  /\ Converges(a)
  /\ IF at[a] = "failing"
     THEN Goes(a, "disposing") /\ TearsDown(a)
     ELSE UNCHANGED <<at, aborted, teardown>>
  /\ UNCHANGED <<attemptVars, scope, handle, claim, registries, sent, interfered,
                 owners, dispatching>>

Rejected(a) ==
  /\ Free /\ at[a] = "disposing" /\ teardown[a] = "done"
  /\ Goes(a, "rejected")
  /\ UNCHANGED <<attemptVars, aborted, scope, handle, claim, registries, teardown,
                 driverVars, owners, dispatching>>

-----------------------------------------------------------------------------
(* The agent at work.                                                        *)

\* Setup is given the agent, even one that was given up, and the registry gives
\* it to anybody else.  Bound: nobody sends once the driver of a teardown has
\* become idle.
Known(a) == /\ a \in Met
            /\ at[a] = "setup" \/ a \in settingUp \/ agentIn = a
            /\ teardown[a] \in {"no", "wait", "idle"}

\* A waking message: it starts a driver, joins a live one, or is latched.
Send(a) ==
  /\ Known(a) /\ sent[a] < MaxSends
  /\ sent' = [sent EXCEPT ![a] = @ + 1]
  /\ \/ /\ phase[a] = "idle" /\ phase' = [phase EXCEPT ![a] = "running"]
        /\ inbox' = [inbox EXCEPT ![a] = 0]
        /\ UNCHANGED latched
     \/ /\ phase[a] = "running" /\ cause[a] = "none"
        /\ UNCHANGED <<phase, latched, inbox>>
     \/ /\ phase[a] = "maintenance" \/ (phase[a] = "running" /\ cause[a] # "none")
        /\ inbox' = [inbox EXCEPT ![a] = @ + 1]
        /\ latched' = [latched EXCEPT ![a] = @ \/ cause[a] # "disposed"]
        /\ UNCHANGED phase
  /\ UNCHANGED <<at, attemptVars, aborted, scope, handle, claim, registries,
                 teardown, cause, interfered, owners, dispatching>>

\* A user's cancel clears the queue and the latch before it aborts.
UserCancels(a) ==
  /\ Known(a) /\ phase[a] \in {"maintenance", "running"} /\ ~interfered[a]
  /\ interfered' = [interfered EXCEPT ![a] = TRUE]
  /\ inbox' = [inbox EXCEPT ![a] = 0] /\ latched' = [latched EXCEPT ![a] = FALSE]
  /\ cause' = [cause EXCEPT ![a] = IF @ = "none" THEN "user" ELSE @]
  /\ UNCHANGED <<at, attemptVars, aborted, scope, handle, claim, registries,
                 teardown, phase, sent, owners, dispatching>>

RunEnds(a) ==
  /\ Free /\ phase[a] = "running"
  /\ Converges(a)
  /\ UNCHANGED <<at, attemptVars, aborted, scope, handle, claim, registries,
                 teardown, sent, interfered, owners, dispatching>>

-----------------------------------------------------------------------------
(* Who ends an attempt.                                                      *)

\* The caller's signal, which is listened to until the teardown.
CallerAborts(a) ==
  /\ ~Settled(a) /\ call[a] # "create" /\ ~cancelled[a]
  /\ cancelled' = [cancelled EXCEPT ![a] = TRUE]
  /\ aborted' = [aborted EXCEPT ![a] = @ \/ Tracked(a)]
  /\ UNCHANGED <<at, call, ready, settingUp, scope, handle, claim, registries, teardown,
                 driverVars, owners, dispatching>>

Dispose(a) ==
  /\ at[a] = "returned" /\ teardown[a] = "no"
  /\ TearsDown(a)
  /\ UNCHANGED <<at, attemptVars, scope, handle, claim, registries, driverVars,
                 owners, dispatching>>

\* The fibers of the owner and of the factory begin to unload.
OwnerUnloads ==
  /\ owner = "active" /\ owner' = "unloading"
  /\ UNCHANGED <<at, attemptVars, aborted, scope, handle, claim, registries,
                 teardown, driverVars, factory, dispatching>>

FactoryUnloads ==
  /\ factory = "active" /\ factory' = "unloading"
  /\ UNCHANGED <<at, attemptVars, aborted, scope, handle, claim, registries,
                 teardown, driverVars, owner, dispatching>>

\* Their disposers reach the agent, in any order; the owner's effect waits until
\* its synchronous setup has returned.
Unwinds(a) ==
  /\ Tracked(a) /\ teardown[a] = "no"
  /\ \/ owner = "unloading" /\ at[a] # "minting"
     \/ factory = "unloading"
  /\ TearsDown(a)
  /\ UNCHANGED <<at, attemptVars, scope, handle, claim, registries, driverVars,
                 owners, dispatching>>

\* A fiber is gone when its effects are.
OwnerGone ==
  /\ Free /\ owner = "unloading" /\ \A a \in Attempt : ~Tracked(a)
  /\ owner' = "gone"
  /\ UNCHANGED <<at, attemptVars, aborted, scope, handle, claim, registries,
                 teardown, driverVars, factory, dispatching>>

\* FactoryOwnership.dispose joins every tracked teardown and the continuations of
\* createAgent and resume, not those of create.
FactoryGone ==
  /\ Free /\ factory = "unloading"
  /\ \A a \in Attempt : ~Tracked(a) /\ (call[a] = "create" \/ Settled(a))
  /\ factory' = "gone"
  /\ UNCHANGED <<at, attemptVars, aborted, scope, handle, claim, registries,
                 teardown, driverVars, owner, dispatching>>

-----------------------------------------------------------------------------
(* The teardown.                                                             *)

\* Mutation: a failed construction is not reported to the teardown.
MayStop_NeedsDriver(a) == phase[a] # "none" /\ ~Publishing(a)

\* The driver has been constructed or never will be, and creation listeners keep
\* session and scope through their awaits.
MayStop(a) == at[a] # "minting" /\ ~Publishing(a)

KeepsInbox(a) == ~ready[a]

\* A disposed-cause cancel.
StopDriver(a) ==
  /\ Free /\ teardown[a] = "wait" /\ MayStop(a)
  /\ teardown' = [teardown EXCEPT ![a] = "idle"]
  /\ inbox' = [inbox EXCEPT ![a] = IF KeepsInbox(a) THEN @ ELSE 0]
  /\ latched' = [latched EXCEPT ![a] = @ /\ (KeepsInbox(a) \/ phase[a] = "idle")]
  /\ cause' = [cause EXCEPT ![a] =
       IF @ = "none" /\ phase[a] \notin {"none", "idle"} THEN "disposed" ELSE @]
  /\ UNCHANGED <<at, attemptVars, aborted, scope, handle, claim, registries, phase,
                 sent, interfered, owners, dispatching>>

Silent(a) == phase[a] \in {"none", "idle"}

\* whenIdle.
Quiet(a) ==
  /\ Free /\ teardown[a] = "idle" /\ Silent(a)
  /\ teardown' = [teardown EXCEPT ![a] = "scope"]
  /\ UNCHANGED <<at, attemptVars, aborted, scope, handle, claim, registries,
                 driverVars, owners, dispatching>>

\* The scope unwinds; a failure is collected.
DisposeScope(a) ==
  /\ Free /\ teardown[a] = "scope"
  /\ scope' = [scope EXCEPT ![a] = IF @ = "live" THEN "gone" ELSE @]
  /\ teardown' = [teardown EXCEPT ![a] = "close"]
  /\ UNCHANGED <<at, attemptVars, aborted, handle, claim, registries, driverVars,
                 owners, dispatching>>

Leave(a, registry) == IF registry = a THEN None ELSE registry

\* The handle is closed, even if its last drain fails.
CloseHandle(a) ==
  /\ Free /\ teardown[a] = "close"
  /\ Closes(a)
  /\ teardown' = [teardown EXCEPT ![a] = "detach"]
  /\ UNCHANGED <<at, attemptVars, aborted, scope, registries, driverVars, owners,
                 dispatching>>

Detach(a) ==
  /\ Free /\ teardown[a] = "detach"
  /\ agentIn' = Leave(a, agentIn) /\ sessionIn' = Leave(a, sessionIn)
  /\ teardown' = [teardown EXCEPT ![a] = "done"]
  /\ UNCHANGED <<at, attemptVars, aborted, scope, handle, claim, driverVars, owners,
                 dispatching>>

-----------------------------------------------------------------------------
(* Properties.                                                               *)

\* Once a teardown is done, its attempt is in no registry, its scope is gone and
\* its handle closed, and nothing of it comes back: no step of a creation that
\* was racing the teardown enters anything afterwards.
NothingOutlivesTeardown == \A a \in Attempt : teardown[a] = "done" =>
  /\ sessionIn # a /\ agentIn # a
  /\ scope[a] # "live" /\ handle[a] # "open" /\ phase[a] # "running"

\* As long as creation listeners run, whoever unloads, what they were given is
\* there: the session, the agent, its scope and its write handle.  So it is for
\* setup until the attempt is aborted; then setup is not waited for, and may go on
\* when it is gone (index.ts initializeAgent, teardown, raceAbort).
CreationKeepsItsWorld == \A a \in Attempt :
  at[a] \in {"created", "announce"} \/ (a \in settingUp /\ ~aborted[a]) =>
    /\ scope[a] = "live" /\ sessionIn = a
    /\ at[a] = "announce" => agentIn = a
    /\ handle[a] # "closed"

\* An owner or a factory that has unloaded leaves no agent behind, whatever stage
\* a creation was in when it began to unload.
OwnersLeaveNothing ==
  owner = "gone" \/ factory = "gone" =>
    /\ sessionIn = None /\ agentIn = None
    /\ \A a \in Attempt : scope[a] # "live" /\ phase[a] # "running"

\* Input that is queued while an agent is initialized is never lost: neither the
\* end of a failed initialization opens a turn that takes it, nor does a teardown
\* clear it, unless a user has cancelled the agent.  (A later message may take it.)
FailedInitKeepsInput == [][\A a \in Attempt :
  ~ready[a] /\ inbox'[a] < inbox[a] => interfered'[a] \/ sent'[a] > sent[a]]_vars

\* Whoever ends an attempt, the caller's signal, the owner, the factory or a
\* disposer, and whatever stage it has reached: it settles, and its teardown and
\* its scope come to an end.
TeardownEnds == \A a \in Attempt :
  aborted[a] ~> Settled(a) /\ teardown[a] \in {"no", "done"} /\ scope[a] # "live"

-----------------------------------------------------------------------------

Proceeds(a) ==
  \/ Load(a) \/ Dropped(a) \/ MintFails(a) \/ CloseAbandoned(a) \/ GivesUp(a) \/ Initialize(a)
  \/ Mint(a) \/ EnterSession(a) \/ SessionAnnounced(a) \/ AgentAnnounced(a)
  \/ EndMaintenance(a) \/ Rejected(a) \/ RunEnds(a)
  \/ Unwinds(a) \/ StopDriver(a) \/ Quiet(a) \/ DisposeScope(a) \/ CloseHandle(a) \/ Detach(a)

Next ==
  \/ \E a \in Attempt :
       \/ Begin(a) \/ HandleArrives(a) \/ HandleRefused(a) \/ SetupEnds(a) \/ EnterAgent(a)
       \/ Send(a) \/ UserCancels(a) \/ CallerAborts(a) \/ Dispose(a)
       \/ Proceeds(a)
  \/ OwnerUnloads \/ OwnerGone \/ FactoryUnloads \/ FactoryGone

Spec == Init /\ [][Next]_vars

\* Storage and listeners settle, and a driver that is told to stop converges.  A
\* backend may never answer and setup never settle, but an abort ends the wait for it.
FairSpec ==
  Spec /\ \A a \in Attempt : WF_vars(Proceeds(a)) /\ WF_vars(aborted[a] /\ EnterAgent(a))

=============================================================================
