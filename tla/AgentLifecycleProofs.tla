------------------------ MODULE AgentLifecycleProofs ------------------------
(***************************************************************************)
(* Theorems about AgentLifecycle for any number of attempts at one         *)
(* identity: types, and what the memoized teardown promises to everybody   *)
(* who races it.                                                           *)
(***************************************************************************)
EXTENDS AgentLifecycle, TLAPS

Publication == {"store", "created", "setup", "announce"}

Stopped == {"idle", "scope", "close", "detach", "done"}

\* Every message that waits was sent.
InboxInv == \A a \in Attempt : inbox[a] <= sent[a]

\* Before its effects exist an attempt has neither scope nor teardown; once its
\* driver exists it goes through initialization, and a teardown goes past its
\* first wait only when nothing of that is left.
StageInv == \A a \in Attempt :
  /\ at[a] \in {"none", "acquire", "load", "init"} => teardown[a] = "no"
  /\ at[a] \in {"none", "acquire", "load", "init", "minting", "dropping"} => scope[a] = "none"
  /\ at[a] \in Publication => scope[a] = "live"
  /\ teardown[a] \in Stopped => at[a] \notin Publication \cup {"minting"}
  /\ at[a] = "rejected" /\ scope[a] = "live" => teardown[a] = "done"
  /\ scope[a] = "gone" => teardown[a] \in {"close", "detach", "done"}

\* A handle is asked for once, and closed only behind the initialization.
HandleInv == \A a \in Attempt :
  /\ at[a] = "none" => handle[a] = "none"
  /\ at[a] = "acquire" => handle[a] = "pending"
  /\ handle[a] = "pending" => at[a] \in {"acquire", "rejected"} /\ teardown[a] = "no"
  /\ handle[a] = "closed" => at[a] = "rejected" \/ teardown[a] \in {"detach", "done"}

\* The teardown has done what lies behind it.
TeardownInv == \A a \in Attempt :
  /\ teardown[a] \in Stopped \ {"idle"} => phase[a] \in {"none", "idle"}
  /\ teardown[a] \in {"close", "detach", "done"} => scope[a] # "live"
  /\ teardown[a] \in {"detach", "done"} => handle[a] # "open"
  /\ teardown[a] = "done" => sessionIn # a /\ agentIn # a

\* What is in a registry belongs to an attempt that has announced it, and to no
\* other while its listeners run; only an abort goes on without setup.
RegistryInv == \A a \in Attempt :
  /\ at[a] \in {"created", "setup", "announce"} => sessionIn = a
  /\ at[a] = "announce" => agentIn = a
  /\ a \in settingUp /\ ~aborted[a] => at[a] = "setup"
  /\ at[a] = "minting" => sessionIn # a /\ agentIn # a
  /\ sessionIn = a \/ agentIn = a \/ scope[a] = "live" => Tracked(a)

\* Whoever has unloaded waited for every teardown, and no attempt begins again.
OwnerInv == owner = "gone" \/ factory = "gone" => \A a \in Attempt : ~Tracked(a)

IInv == /\ TypeOK /\ InboxInv /\ StageInv /\ HandleInv /\ TeardownInv
        /\ RegistryInv /\ OwnerInv

-----------------------------------------------------------------------------
(* Every step keeps every part of the invariant.                             *)

\* Whoever begins a teardown has aborted the initialization.
LEMMA TearsDownTypes ==
  ASSUME TypeOK, NEW a \in Attempt, TearsDown(a) \/ UNCHANGED <<aborted, teardown>>
  PROVE  /\ teardown' \in [Attempt -> {"no", "wait", "idle", "scope", "close", "detach", "done"}]
         /\ aborted' \in [Attempt -> BOOLEAN]
         /\ \A b \in Attempt : teardown'[b] # "no" => aborted'[b]
<1>1. CASE TearsDown(a)
  <2>1. aborted' = [aborted EXCEPT ![a] = TRUE]
    BY <1>1 DEF TearsDown
  <2>2. aborted' \in [Attempt -> BOOLEAN] /\ aborted'[a]
    BY <2>1 DEF TypeOK
  <2>3. \A b \in Attempt : aborted[b] => aborted'[b]
    BY <2>1 DEF TypeOK
  <2>4. /\ teardown' \in [Attempt -> {"no", "wait", "idle", "scope", "close", "detach", "done"}]
        /\ \A b \in Attempt \ {a} : teardown'[b] = teardown[b]
    BY <1>1 DEF TearsDown, TypeOK
  <2> QED
    BY <2>2, <2>3, <2>4 DEF TypeOK
<1>2. CASE UNCHANGED <<aborted, teardown>>
  BY <1>2 DEF TypeOK
<1> QED
  BY <1>1, <1>2

\* A message latches a wake or none.
LEMMA SendLatches ==
  ASSUME latched \in [Attempt -> BOOLEAN], NEW a \in Attempt, Send(a)
  PROVE  latched' \in [Attempt -> BOOLEAN]
  BY DEF Send

\* Every step keeps the types; a handle becomes open with the claim of its session.
LEMMA TypeStep ==
  ASSUME LifecycleAssumption, TypeOK, InboxInv, HandleInv, [Next]_vars
  PROVE  TypeOK'
<1> USE DEF TypeOK, InboxInv, HandleInv,
            LifecycleAssumption, Stage, Publication, Stopped, Tracked, attemptVars,
            driverVars, registries, owners
<1>1. ASSUME NEW a \in Attempt, Begin(a) PROVE TypeOK'
  <2>1. PICK c \in {"create", "createAgent", "resume"} : call' = [call EXCEPT ![a] = c]
    BY <1>1 DEF Begin
  <2>2. handle' \in [Attempt -> {"none", "pending", "open", "closed"}]
    BY <1>1 DEF Begin
  <2>3. at' \in [Attempt -> Stage] /\ call' \in [Attempt -> {"create", "createAgent", "resume"}]
    BY <1>1, <2>1 DEF Begin, Goes
  <2>4. \A b \in Attempt : handle'[b] = "open" <=> claim = b
    BY <1>1 DEF Begin
  <2>5. dispatching = None
    BY <1>1 DEF Begin, Free
  <2>9. UNCHANGED <<cancelled, aborted, ready, settingUp, scope, claim, sessionIn,
                   agentIn, teardown, phase, cause, latched, inbox, sent, interfered, owner,
                   factory, dispatching>>
    BY <1>1 DEF Begin
  <2> QED
    BY <1>1, <2>2, <2>3, <2>4, <2>5, <2>9
<1>2. ASSUME NEW a \in Attempt, HandleArrives(a) PROVE TypeOK'
  BY <1>2 DEF HandleArrives, Free, Goes
<1>3. ASSUME NEW a \in Attempt, HandleRefused(a) PROVE TypeOK'
  BY <1>3 DEF HandleRefused, Free, Goes
<1>4. ASSUME NEW a \in Attempt, GivesUp(a) PROVE TypeOK' BY <1>4 DEF GivesUp, Free, Goes
<1>5. ASSUME NEW a \in Attempt, CloseAbandoned(a) PROVE TypeOK'
  BY <1>5 DEF CloseAbandoned, Closes, Free
<1>6. ASSUME NEW a \in Attempt, Load(a) PROVE TypeOK'
  BY <1>6 DEF Load, Drops, Free, Goes
<1>7. ASSUME NEW a \in Attempt, Dropped(a) PROVE TypeOK'
  BY <1>7 DEF Dropped, Closes, Free, Goes
<1>8. ASSUME NEW a \in Attempt, Initialize(a) PROVE TypeOK'
  BY <1>8 DEF Initialize, Drops, Free, Goes
<1>9. ASSUME NEW a \in Attempt, Mint(a) PROVE TypeOK'
  <2>1. at' \in [Attempt -> Stage]
    BY <1>9 DEF Mint, Goes
  <2>2. /\ scope' = [scope EXCEPT ![a] = "live"]
        /\ \/ phase' = [phase EXCEPT ![a] = "idle"]
           \/ phase' = [phase EXCEPT ![a] = "maintenance"]
    BY <1>9 DEF Mint
  <2>3. TearsDown(a) \/ UNCHANGED <<aborted, teardown>>
    BY <1>9 DEF Mint
  <2>5. dispatching' = None
    BY <1>9 DEF Mint
  <2>4. /\ phase' \in [Attempt -> {"none", "maintenance", "idle", "running"}]
        /\ scope' \in [Attempt -> {"none", "live", "gone"}]
        /\ \A b \in Attempt : scope'[b] = "none" <=> phase'[b] = "none"
    BY <2>2
  <2>9. UNCHANGED <<call, cancelled, ready, settingUp, handle, claim, sessionIn,
                   agentIn, cause, latched, inbox, sent, interfered, owner, factory>>
    BY <1>9 DEF Mint
  <2> QED
    BY <1>9, <2>1, <2>3, TearsDownTypes, <2>4, <2>5, <2>9
<1>10. ASSUME NEW a \in Attempt, MintFails(a) PROVE TypeOK'
  BY <1>10 DEF MintFails, Drops, Goes
<1>11. ASSUME NEW a \in Attempt, EnterSession(a) PROVE TypeOK'
  BY <1>11 DEF EnterSession, Abandons, Fails, Free, Goes
<1>12. ASSUME NEW a \in Attempt, SessionAnnounced(a) PROVE TypeOK'
  BY <1>12 DEF SessionAnnounced, Abandons, Fails, Goes
<1>13. ASSUME NEW a \in Attempt, EnterAgent(a) PROVE TypeOK'
  BY <1>13 DEF EnterAgent, Abandons, Fails, Free, Goes
<1>14. ASSUME NEW a \in Attempt, AgentAnnounced(a) PROVE TypeOK'
  <2>1. /\ at' \in [Attempt -> Stage]
        /\ \A b \in Attempt : dispatching = b => at'[b] \in {"minting", "created"}
    BY <1>14 DEF AgentAnnounced, Fails, Goes, Free
  <2>2. cause' \in [Attempt -> {"none", "user", "disposed"}]
    BY <1>14 DEF AgentAnnounced, Fails, Abandons
  <2>3. ready' = [ready EXCEPT ![a] = TRUE] \/ ready' = ready
    BY <1>14 DEF AgentAnnounced
  <2>4. ready' \in [Attempt -> BOOLEAN]
    <3>1. ready \in [Attempt -> BOOLEAN]
      OBVIOUS
    <3> HIDE DEF TypeOK
    <3> QED
      BY <1>14, <2>3, <3>1
  <2>9. UNCHANGED <<call, cancelled, settingUp, aborted, scope, handle, claim, sessionIn,
                   agentIn, teardown, phase, latched, inbox, sent, interfered, owner,
                   factory, dispatching>>
    BY <1>14 DEF AgentAnnounced
  <2> QED
    BY <1>14, <2>1, <2>2, <2>4, <2>9
<1>15. ASSUME NEW a \in Attempt, EndMaintenance(a) PROVE TypeOK'
  <2>1. /\ phase' \in [Attempt -> {"none", "maintenance", "idle", "running"}]
        /\ \A b \in Attempt : phase'[b] = "none" <=> phase[b] = "none"
        /\ cause' \in [Attempt -> {"none", "user", "disposed"}]
        /\ latched' \in [Attempt -> BOOLEAN] /\ inbox' \in [Attempt -> 0 .. MaxSends]
    BY <1>15 DEF EndMaintenance, Converges
  <2>2. /\ at' \in [Attempt -> Stage]
        /\ \A b \in Attempt : dispatching = b => at'[b] \in {"minting", "created"}
    BY <1>15 DEF EndMaintenance, Goes, Free
  <2>3. TearsDown(a) \/ UNCHANGED <<aborted, teardown>>
    BY <1>15 DEF EndMaintenance
  <2>9. UNCHANGED <<call, cancelled, ready, settingUp, scope, handle, claim, sessionIn,
                   agentIn, sent, interfered, owner, factory, dispatching>>
    BY <1>15 DEF EndMaintenance
  <2> QED
    BY <1>15, <2>1, <2>2, <2>3, TearsDownTypes, <2>9
<1>16. ASSUME NEW a \in Attempt, Rejected(a) PROVE TypeOK'
  BY <1>16 DEF Rejected, Free, Goes
<1>17. ASSUME NEW a \in Attempt, Send(a) PROVE TypeOK'
  <2>1. sent[a] + 1 \in 0 .. MaxSends /\ inbox[a] + 1 \in 0 .. MaxSends /\ 0 \in 0 .. MaxSends
    BY <1>17 DEF Send
  <2>2. sent' \in [Attempt -> 0 .. MaxSends] /\ inbox' \in [Attempt -> 0 .. MaxSends]
    BY <1>17, <2>1 DEF Send
  <2>3. /\ phase' \in [Attempt -> {"none", "maintenance", "idle", "running"}]
        /\ \A b \in Attempt : phase'[b] = "none" <=> phase[b] = "none"
    BY <1>17 DEF Send
  <2>5. latched' \in [Attempt -> BOOLEAN]
    BY <1>17, SendLatches
  <2>7. UNCHANGED <<at, call, scope, handle, claim, sessionIn, agentIn>>
    BY <1>17 DEF Send
  <2>8. UNCHANGED <<cancelled, aborted, ready, settingUp>>
    BY <1>17 DEF Send
  <2>9. UNCHANGED <<teardown, cause, interfered, owner, factory, dispatching>>
    BY <1>17 DEF Send
  <2> QED
    BY <1>17, <2>2, <2>3, <2>5, <2>7, <2>8, <2>9
<1>18. ASSUME NEW a \in Attempt, UserCancels(a) PROVE TypeOK'
  BY <1>18 DEF UserCancels, Known
<1>19. ASSUME NEW a \in Attempt, RunEnds(a) PROVE TypeOK'
  BY <1>19 DEF RunEnds, Converges, Free
<1>20. ASSUME NEW a \in Attempt, CallerAborts(a) PROVE TypeOK'
  BY <1>20 DEF CallerAborts, Settled
<1>21. ASSUME NEW a \in Attempt, Dispose(a) PROVE TypeOK'
  BY <1>21 DEF Dispose, TearsDown
<1>22. ASSUME NEW a \in Attempt, Unwinds(a) PROVE TypeOK'
  BY <1>22 DEF Unwinds, TearsDown
<1>23. ASSUME NEW a \in Attempt, StopDriver(a) PROVE TypeOK'
  BY <1>23 DEF StopDriver, Free, KeepsInbox, MayStop, Publishing
<1>24. ASSUME NEW a \in Attempt, Quiet(a) PROVE TypeOK' BY <1>24 DEF Quiet, Free, Silent
<1>25. ASSUME NEW a \in Attempt, DisposeScope(a) PROVE TypeOK'
  BY <1>25 DEF DisposeScope, Free
<1>26. ASSUME NEW a \in Attempt, CloseHandle(a) PROVE TypeOK'
  BY <1>26 DEF CloseHandle, Closes, Free
<1>27. ASSUME NEW a \in Attempt, Detach(a) PROVE TypeOK'
  BY <1>27 DEF Detach, Free, Leave
<1>28. CASE OwnerUnloads \/ OwnerGone \/ FactoryUnloads \/ FactoryGone
  BY <1>28 DEF OwnerUnloads, OwnerGone, FactoryUnloads, FactoryGone
<1>29. CASE UNCHANGED vars
  BY <1>29 DEF vars
<1>30. ASSUME NEW a \in Attempt, SetupEnds(a) PROVE TypeOK' BY <1>30 DEF SetupEnds, Free
<1> QED
  BY <1>1, <1>2, <1>3, <1>4, <1>5, <1>6, <1>7, <1>8, <1>9, <1>10, <1>11, <1>12, <1>13,
       <1>14, <1>15, <1>16, <1>17, <1>18, <1>19, <1>20, <1>21, <1>22, <1>23, <1>24,
       <1>25, <1>26, <1>27, <1>28, <1>29, <1>30 DEF Next, Proceeds

\* Messages come into the inbox by being sent.
LEMMA InboxStep ==
  ASSUME LifecycleAssumption, TypeOK, InboxInv, [Next]_vars
  PROVE  InboxInv'
<1> USE DEF TypeOK, InboxInv,
            LifecycleAssumption, Stage, Publication, Stopped, Tracked, attemptVars,
            driverVars, registries, owners
<1>1. ASSUME NEW a \in Attempt, Begin(a) PROVE InboxInv' BY <1>1 DEF Begin, Free, Goes
<1>2. ASSUME NEW a \in Attempt, HandleArrives(a) PROVE InboxInv'
  BY <1>2 DEF HandleArrives, Free, Goes
<1>3. ASSUME NEW a \in Attempt, HandleRefused(a) PROVE InboxInv'
  BY <1>3 DEF HandleRefused, Free, Goes
<1>4. ASSUME NEW a \in Attempt, GivesUp(a) PROVE InboxInv'
  BY <1>4 DEF GivesUp, Free, Goes
<1>5. ASSUME NEW a \in Attempt, CloseAbandoned(a) PROVE InboxInv'
  BY <1>5 DEF CloseAbandoned, Closes, Free
<1>6. ASSUME NEW a \in Attempt, Load(a) PROVE InboxInv'
  BY <1>6 DEF Load, Drops, Free, Goes
<1>7. ASSUME NEW a \in Attempt, Dropped(a) PROVE InboxInv'
  BY <1>7 DEF Dropped, Closes, Free, Goes
<1>8. ASSUME NEW a \in Attempt, Initialize(a) PROVE InboxInv'
  BY <1>8 DEF Initialize, Drops, Free, Goes
<1>9. ASSUME NEW a \in Attempt, Mint(a) PROVE InboxInv'
  BY <1>9 DEF Mint, Goes, TearsDown
<1>10. ASSUME NEW a \in Attempt, MintFails(a) PROVE InboxInv'
  BY <1>10 DEF MintFails, Drops, Goes
<1>11. ASSUME NEW a \in Attempt, EnterSession(a) PROVE InboxInv'
  BY <1>11 DEF EnterSession, Abandons, Fails, Free, Goes
<1>12. ASSUME NEW a \in Attempt, SessionAnnounced(a) PROVE InboxInv'
  BY <1>12 DEF SessionAnnounced, Abandons, Fails, Goes
<1>13. ASSUME NEW a \in Attempt, EnterAgent(a) PROVE InboxInv'
  BY <1>13 DEF EnterAgent, Abandons, Fails, Free, Goes
<1>14. ASSUME NEW a \in Attempt, AgentAnnounced(a) PROVE InboxInv'
  BY <1>14 DEF AgentAnnounced, Abandons, Fails, Free, Goes
<1>15. ASSUME NEW a \in Attempt, EndMaintenance(a) PROVE InboxInv'
  BY <1>15 DEF EndMaintenance, Converges, Free, Goes, Publishing, TearsDown
<1>16. ASSUME NEW a \in Attempt, Rejected(a) PROVE InboxInv'
  BY <1>16 DEF Rejected, Free, Goes
<1>17. ASSUME NEW a \in Attempt, Send(a) PROVE InboxInv' BY <1>17 DEF Send, Known
<1>18. ASSUME NEW a \in Attempt, UserCancels(a) PROVE InboxInv'
  BY <1>18 DEF UserCancels, Known
<1>19. ASSUME NEW a \in Attempt, RunEnds(a) PROVE InboxInv'
  BY <1>19 DEF RunEnds, Converges, Free
<1>20. ASSUME NEW a \in Attempt, CallerAborts(a) PROVE InboxInv'
  BY <1>20 DEF CallerAborts, Settled
<1>21. ASSUME NEW a \in Attempt, Dispose(a) PROVE InboxInv'
  BY <1>21 DEF Dispose, TearsDown
<1>22. ASSUME NEW a \in Attempt, Unwinds(a) PROVE InboxInv'
  BY <1>22 DEF Unwinds, TearsDown
<1>23. ASSUME NEW a \in Attempt, StopDriver(a) PROVE InboxInv'
  BY <1>23 DEF StopDriver, Free, KeepsInbox, MayStop, Publishing
<1>24. ASSUME NEW a \in Attempt, Quiet(a) PROVE InboxInv'
  BY <1>24 DEF Quiet, Free, Silent
<1>25. ASSUME NEW a \in Attempt, DisposeScope(a) PROVE InboxInv'
  BY <1>25 DEF DisposeScope, Free
<1>26. ASSUME NEW a \in Attempt, CloseHandle(a) PROVE InboxInv'
  BY <1>26 DEF CloseHandle, Closes, Free
<1>27. ASSUME NEW a \in Attempt, Detach(a) PROVE InboxInv'
  BY <1>27 DEF Detach, Free, Leave
<1>28. CASE OwnerUnloads \/ OwnerGone \/ FactoryUnloads \/ FactoryGone
  BY <1>28 DEF OwnerUnloads, OwnerGone, FactoryUnloads, FactoryGone
<1>29. CASE UNCHANGED vars
  BY <1>29 DEF vars
<1>30. ASSUME NEW a \in Attempt, SetupEnds(a) PROVE InboxInv' BY <1>30 DEF SetupEnds, Free
<1> QED
  BY <1>1, <1>2, <1>3, <1>4, <1>5, <1>6, <1>7, <1>8, <1>9, <1>10, <1>11, <1>12, <1>13,
       <1>14, <1>15, <1>16, <1>17, <1>18, <1>19, <1>20, <1>21, <1>22, <1>23, <1>24,
       <1>25, <1>26, <1>27, <1>28, <1>29, <1>30 DEF Next, Proceeds

\* An attempt goes forward: the teardown waits where something is being built.
LEMMA StageStep ==
  ASSUME LifecycleAssumption, TypeOK, StageInv, HandleInv, RegistryInv, [Next]_vars
  PROVE  StageInv'
<1> USE DEF TypeOK, StageInv, HandleInv, RegistryInv,
            LifecycleAssumption, Stage, Publication, Stopped, Tracked, attemptVars,
            driverVars, registries, owners
<1>1. ASSUME NEW a \in Attempt, Begin(a) PROVE StageInv' BY <1>1 DEF Begin, Free, Goes
<1>2. ASSUME NEW a \in Attempt, HandleArrives(a) PROVE StageInv'
  BY <1>2 DEF HandleArrives, Free, Goes
<1>3. ASSUME NEW a \in Attempt, HandleRefused(a) PROVE StageInv'
  BY <1>3 DEF HandleRefused, Free, Goes
<1>4. ASSUME NEW a \in Attempt, GivesUp(a) PROVE StageInv'
  BY <1>4 DEF GivesUp, Free, Goes
<1>5. ASSUME NEW a \in Attempt, CloseAbandoned(a) PROVE StageInv'
  BY <1>5 DEF CloseAbandoned, Closes, Free
<1>6. ASSUME NEW a \in Attempt, Load(a) PROVE StageInv'
  BY <1>6 DEF Load, Drops, Free, Goes
<1>7. ASSUME NEW a \in Attempt, Dropped(a) PROVE StageInv'
  BY <1>7 DEF Dropped, Closes, Free, Goes
<1>8. ASSUME NEW a \in Attempt, Initialize(a) PROVE StageInv'
  BY <1>8 DEF Initialize, Drops, Free, Goes
<1>9. ASSUME NEW a \in Attempt, Mint(a) PROVE StageInv'
  BY <1>9 DEF Mint, Goes, TearsDown
<1>10. ASSUME NEW a \in Attempt, MintFails(a) PROVE StageInv'
  BY <1>10 DEF MintFails, Drops, Goes
<1>11. ASSUME NEW a \in Attempt, EnterSession(a) PROVE StageInv'
  BY <1>11 DEF EnterSession, Abandons, Fails, Free, Goes
<1>12. ASSUME NEW a \in Attempt, SessionAnnounced(a) PROVE StageInv'
  BY <1>12 DEF SessionAnnounced, Abandons, Fails, Goes
<1>13. ASSUME NEW a \in Attempt, EnterAgent(a) PROVE StageInv'
  BY <1>13 DEF EnterAgent, Abandons, Fails, Free, Goes
<1>14. ASSUME NEW a \in Attempt, AgentAnnounced(a) PROVE StageInv'
  BY <1>14 DEF AgentAnnounced, Abandons, Fails, Free, Goes
<1>15. ASSUME NEW a \in Attempt, EndMaintenance(a) PROVE StageInv'
  BY <1>15 DEF EndMaintenance, Converges, Free, Goes, Publishing, TearsDown
<1>16. ASSUME NEW a \in Attempt, Rejected(a) PROVE StageInv'
  BY <1>16 DEF Rejected, Free, Goes
<1>17. ASSUME NEW a \in Attempt, Send(a) PROVE StageInv' BY <1>17 DEF Send, Known
<1>18. ASSUME NEW a \in Attempt, UserCancels(a) PROVE StageInv'
  BY <1>18 DEF UserCancels, Known
<1>19. ASSUME NEW a \in Attempt, RunEnds(a) PROVE StageInv'
  BY <1>19 DEF RunEnds, Converges, Free
<1>20. ASSUME NEW a \in Attempt, CallerAborts(a) PROVE StageInv'
  BY <1>20 DEF CallerAborts, Settled
<1>21. ASSUME NEW a \in Attempt, Dispose(a) PROVE StageInv'
  BY <1>21 DEF Dispose, TearsDown
<1>22. ASSUME NEW a \in Attempt, Unwinds(a) PROVE StageInv'
  BY <1>22 DEF Unwinds, TearsDown
<1>23. ASSUME NEW a \in Attempt, StopDriver(a) PROVE StageInv'
  BY <1>23 DEF StopDriver, Free, KeepsInbox, MayStop, Publishing
<1>24. ASSUME NEW a \in Attempt, Quiet(a) PROVE StageInv'
  BY <1>24 DEF Quiet, Free, Silent
<1>25. ASSUME NEW a \in Attempt, DisposeScope(a) PROVE StageInv'
  BY <1>25 DEF DisposeScope, Free
<1>26. ASSUME NEW a \in Attempt, CloseHandle(a) PROVE StageInv'
  BY <1>26 DEF CloseHandle, Closes, Free
<1>27. ASSUME NEW a \in Attempt, Detach(a) PROVE StageInv'
  BY <1>27 DEF Detach, Free, Leave
<1>28. CASE OwnerUnloads \/ OwnerGone \/ FactoryUnloads \/ FactoryGone
  BY <1>28 DEF OwnerUnloads, OwnerGone, FactoryUnloads, FactoryGone
<1>29. CASE UNCHANGED vars
  BY <1>29 DEF vars
<1>30. ASSUME NEW a \in Attempt, SetupEnds(a) PROVE StageInv' BY <1>30 DEF SetupEnds, Free
<1> QED
  BY <1>1, <1>2, <1>3, <1>4, <1>5, <1>6, <1>7, <1>8, <1>9, <1>10, <1>11, <1>12, <1>13,
       <1>14, <1>15, <1>16, <1>17, <1>18, <1>19, <1>20, <1>21, <1>22, <1>23, <1>24,
       <1>25, <1>26, <1>27, <1>28, <1>29, <1>30 DEF Next, Proceeds

\* A handle is closed behind the initialization, or by the teardown.
LEMMA HandleStep ==
  ASSUME LifecycleAssumption, TypeOK, StageInv, HandleInv, [Next]_vars
  PROVE  HandleInv'
<1> USE DEF TypeOK, StageInv, HandleInv,
            LifecycleAssumption, Stage, Publication, Stopped, Tracked, attemptVars,
            driverVars, registries, owners
<1>1. ASSUME NEW a \in Attempt, Begin(a) PROVE HandleInv' BY <1>1 DEF Begin, Free, Goes
<1>2. ASSUME NEW a \in Attempt, HandleArrives(a) PROVE HandleInv'
  BY <1>2 DEF HandleArrives, Free, Goes
<1>3. ASSUME NEW a \in Attempt, HandleRefused(a) PROVE HandleInv'
  BY <1>3 DEF HandleRefused, Free, Goes
<1>4. ASSUME NEW a \in Attempt, GivesUp(a) PROVE HandleInv'
  BY <1>4 DEF GivesUp, Free, Goes
<1>5. ASSUME NEW a \in Attempt, CloseAbandoned(a) PROVE HandleInv'
  BY <1>5 DEF CloseAbandoned, Closes, Free
<1>6. ASSUME NEW a \in Attempt, Load(a) PROVE HandleInv'
  BY <1>6 DEF Load, Drops, Free, Goes
<1>7. ASSUME NEW a \in Attempt, Dropped(a) PROVE HandleInv'
  BY <1>7 DEF Dropped, Closes, Free, Goes
<1>8. ASSUME NEW a \in Attempt, Initialize(a) PROVE HandleInv'
  BY <1>8 DEF Initialize, Drops, Free, Goes
<1>9. ASSUME NEW a \in Attempt, Mint(a) PROVE HandleInv'
  BY <1>9 DEF Mint, Goes, TearsDown
<1>10. ASSUME NEW a \in Attempt, MintFails(a) PROVE HandleInv'
  BY <1>10 DEF MintFails, Drops, Goes
<1>11. ASSUME NEW a \in Attempt, EnterSession(a) PROVE HandleInv'
  BY <1>11 DEF EnterSession, Abandons, Fails, Free, Goes
<1>12. ASSUME NEW a \in Attempt, SessionAnnounced(a) PROVE HandleInv'
  BY <1>12 DEF SessionAnnounced, Abandons, Fails, Goes
<1>13. ASSUME NEW a \in Attempt, EnterAgent(a) PROVE HandleInv'
  BY <1>13 DEF EnterAgent, Abandons, Fails, Free, Goes
<1>14. ASSUME NEW a \in Attempt, AgentAnnounced(a) PROVE HandleInv'
  BY <1>14 DEF AgentAnnounced, Abandons, Fails, Free, Goes
<1>15. ASSUME NEW a \in Attempt, EndMaintenance(a) PROVE HandleInv'
  BY <1>15 DEF EndMaintenance, Converges, Free, Goes, Publishing, TearsDown
<1>16. ASSUME NEW a \in Attempt, Rejected(a) PROVE HandleInv'
  BY <1>16 DEF Rejected, Free, Goes
<1>17. ASSUME NEW a \in Attempt, Send(a) PROVE HandleInv' BY <1>17 DEF Send, Known
<1>18. ASSUME NEW a \in Attempt, UserCancels(a) PROVE HandleInv'
  BY <1>18 DEF UserCancels, Known
<1>19. ASSUME NEW a \in Attempt, RunEnds(a) PROVE HandleInv'
  BY <1>19 DEF RunEnds, Converges, Free
<1>20. ASSUME NEW a \in Attempt, CallerAborts(a) PROVE HandleInv'
  BY <1>20 DEF CallerAborts, Settled
<1>21. ASSUME NEW a \in Attempt, Dispose(a) PROVE HandleInv'
  BY <1>21 DEF Dispose, TearsDown
<1>22. ASSUME NEW a \in Attempt, Unwinds(a) PROVE HandleInv'
  BY <1>22 DEF Unwinds, TearsDown
<1>23. ASSUME NEW a \in Attempt, StopDriver(a) PROVE HandleInv'
  BY <1>23 DEF StopDriver, Free, KeepsInbox, MayStop, Publishing
<1>24. ASSUME NEW a \in Attempt, Quiet(a) PROVE HandleInv'
  BY <1>24 DEF Quiet, Free, Silent
<1>25. ASSUME NEW a \in Attempt, DisposeScope(a) PROVE HandleInv'
  BY <1>25 DEF DisposeScope, Free
<1>26. ASSUME NEW a \in Attempt, CloseHandle(a) PROVE HandleInv'
  BY <1>26 DEF CloseHandle, Closes, Free
<1>27. ASSUME NEW a \in Attempt, Detach(a) PROVE HandleInv'
  BY <1>27 DEF Detach, Free, Leave
<1>28. CASE OwnerUnloads \/ OwnerGone \/ FactoryUnloads \/ FactoryGone
  BY <1>28 DEF OwnerUnloads, OwnerGone, FactoryUnloads, FactoryGone
<1>29. CASE UNCHANGED vars
  BY <1>29 DEF vars
<1>30. ASSUME NEW a \in Attempt, SetupEnds(a) PROVE HandleInv' BY <1>30 DEF SetupEnds, Free
<1> QED
  BY <1>1, <1>2, <1>3, <1>4, <1>5, <1>6, <1>7, <1>8, <1>9, <1>10, <1>11, <1>12, <1>13,
       <1>14, <1>15, <1>16, <1>17, <1>18, <1>19, <1>20, <1>21, <1>22, <1>23, <1>24,
       <1>25, <1>26, <1>27, <1>28, <1>29, <1>30 DEF Next, Proceeds

\* Nothing comes back behind a teardown.
LEMMA TeardownStep ==
  ASSUME LifecycleAssumption, TypeOK, StageInv, HandleInv, TeardownInv, [Next]_vars
  PROVE  TeardownInv'
<1> USE DEF TypeOK, StageInv, HandleInv, TeardownInv,
            LifecycleAssumption, Stage, Publication, Stopped, Tracked, attemptVars,
            driverVars, registries, owners
<1>1. ASSUME NEW a \in Attempt, Begin(a) PROVE TeardownInv'
  BY <1>1 DEF Begin, Free, Goes
<1>2. ASSUME NEW a \in Attempt, HandleArrives(a) PROVE TeardownInv'
  BY <1>2 DEF HandleArrives, Free, Goes
<1>3. ASSUME NEW a \in Attempt, HandleRefused(a) PROVE TeardownInv'
  BY <1>3 DEF HandleRefused, Free, Goes
<1>4. ASSUME NEW a \in Attempt, GivesUp(a) PROVE TeardownInv'
  BY <1>4 DEF GivesUp, Free, Goes
<1>5. ASSUME NEW a \in Attempt, CloseAbandoned(a) PROVE TeardownInv'
  BY <1>5 DEF CloseAbandoned, Closes, Free
<1>6. ASSUME NEW a \in Attempt, Load(a) PROVE TeardownInv'
  BY <1>6 DEF Load, Drops, Free, Goes
<1>7. ASSUME NEW a \in Attempt, Dropped(a) PROVE TeardownInv'
  BY <1>7 DEF Dropped, Closes, Free, Goes
<1>8. ASSUME NEW a \in Attempt, Initialize(a) PROVE TeardownInv'
  BY <1>8 DEF Initialize, Drops, Free, Goes
<1>9. ASSUME NEW a \in Attempt, Mint(a) PROVE TeardownInv'
  BY <1>9 DEF Mint, Goes, TearsDown
<1>10. ASSUME NEW a \in Attempt, MintFails(a) PROVE TeardownInv'
  BY <1>10 DEF MintFails, Drops, Goes
<1>11. ASSUME NEW a \in Attempt, EnterSession(a) PROVE TeardownInv'
  BY <1>11 DEF EnterSession, Abandons, Fails, Free, Goes
<1>12. ASSUME NEW a \in Attempt, SessionAnnounced(a) PROVE TeardownInv'
  BY <1>12 DEF SessionAnnounced, Abandons, Fails, Goes
<1>13. ASSUME NEW a \in Attempt, EnterAgent(a) PROVE TeardownInv'
  BY <1>13 DEF EnterAgent, Abandons, Fails, Free, Goes
<1>14. ASSUME NEW a \in Attempt, AgentAnnounced(a) PROVE TeardownInv'
  BY <1>14 DEF AgentAnnounced, Abandons, Fails, Free, Goes
<1>15. ASSUME NEW a \in Attempt, EndMaintenance(a) PROVE TeardownInv'
  BY <1>15 DEF EndMaintenance, Converges, Free, Goes, Publishing, TearsDown
<1>16. ASSUME NEW a \in Attempt, Rejected(a) PROVE TeardownInv'
  BY <1>16 DEF Rejected, Free, Goes
<1>17. ASSUME NEW a \in Attempt, Send(a) PROVE TeardownInv' BY <1>17 DEF Send, Known
<1>18. ASSUME NEW a \in Attempt, UserCancels(a) PROVE TeardownInv'
  BY <1>18 DEF UserCancels, Known
<1>19. ASSUME NEW a \in Attempt, RunEnds(a) PROVE TeardownInv'
  BY <1>19 DEF RunEnds, Converges, Free
<1>20. ASSUME NEW a \in Attempt, CallerAborts(a) PROVE TeardownInv'
  BY <1>20 DEF CallerAborts, Settled
<1>21. ASSUME NEW a \in Attempt, Dispose(a) PROVE TeardownInv'
  BY <1>21 DEF Dispose, TearsDown
<1>22. ASSUME NEW a \in Attempt, Unwinds(a) PROVE TeardownInv'
  BY <1>22 DEF Unwinds, TearsDown
<1>23. ASSUME NEW a \in Attempt, StopDriver(a) PROVE TeardownInv'
  BY <1>23 DEF StopDriver, Free, KeepsInbox, MayStop, Publishing
<1>24. ASSUME NEW a \in Attempt, Quiet(a) PROVE TeardownInv'
  BY <1>24 DEF Quiet, Free, Silent
<1>25. ASSUME NEW a \in Attempt, DisposeScope(a) PROVE TeardownInv'
  BY <1>25 DEF DisposeScope, Free
<1>26. ASSUME NEW a \in Attempt, CloseHandle(a) PROVE TeardownInv'
  BY <1>26 DEF CloseHandle, Closes, Free
<1>27. ASSUME NEW a \in Attempt, Detach(a) PROVE TeardownInv'
  BY <1>27 DEF Detach, Free, Leave
<1>28. CASE OwnerUnloads \/ OwnerGone \/ FactoryUnloads \/ FactoryGone
  BY <1>28 DEF OwnerUnloads, OwnerGone, FactoryUnloads, FactoryGone
<1>29. CASE UNCHANGED vars
  BY <1>29 DEF vars
<1>30. ASSUME NEW a \in Attempt, SetupEnds(a) PROVE TeardownInv' BY <1>30 DEF SetupEnds, Free
<1> QED
  BY <1>1, <1>2, <1>3, <1>4, <1>5, <1>6, <1>7, <1>8, <1>9, <1>10, <1>11, <1>12, <1>13,
       <1>14, <1>15, <1>16, <1>17, <1>18, <1>19, <1>20, <1>21, <1>22, <1>23, <1>24,
       <1>25, <1>26, <1>27, <1>28, <1>29, <1>30 DEF Next, Proceeds

\* A registry holds what a tracked attempt announced.
LEMMA RegistryStep ==
  ASSUME LifecycleAssumption, TypeOK, StageInv, HandleInv, TeardownInv, RegistryInv, [Next]_vars
  PROVE  RegistryInv'
<1> USE DEF TypeOK, StageInv, HandleInv, TeardownInv, RegistryInv,
            LifecycleAssumption, Stage, Publication, Stopped, Tracked, attemptVars,
            driverVars, registries, owners
<1>1. ASSUME NEW a \in Attempt, Begin(a) PROVE RegistryInv'
  BY <1>1 DEF Begin, Free, Goes
<1>2. ASSUME NEW a \in Attempt, HandleArrives(a) PROVE RegistryInv'
  BY <1>2 DEF HandleArrives, Free, Goes
<1>3. ASSUME NEW a \in Attempt, HandleRefused(a) PROVE RegistryInv'
  BY <1>3 DEF HandleRefused, Free, Goes
<1>4. ASSUME NEW a \in Attempt, GivesUp(a) PROVE RegistryInv'
  BY <1>4 DEF GivesUp, Free, Goes
<1>5. ASSUME NEW a \in Attempt, CloseAbandoned(a) PROVE RegistryInv'
  BY <1>5 DEF CloseAbandoned, Closes, Free
<1>6. ASSUME NEW a \in Attempt, Load(a) PROVE RegistryInv'
  BY <1>6 DEF Load, Drops, Free, Goes
<1>7. ASSUME NEW a \in Attempt, Dropped(a) PROVE RegistryInv'
  BY <1>7 DEF Dropped, Closes, Free, Goes
<1>8. ASSUME NEW a \in Attempt, Initialize(a) PROVE RegistryInv'
  BY <1>8 DEF Initialize, Drops, Free, Goes
<1>9. ASSUME NEW a \in Attempt, Mint(a) PROVE RegistryInv'
  BY <1>9 DEF Mint, Goes, TearsDown
<1>10. ASSUME NEW a \in Attempt, MintFails(a) PROVE RegistryInv'
  BY <1>10 DEF MintFails, Drops, Goes
<1>11. ASSUME NEW a \in Attempt, EnterSession(a) PROVE RegistryInv'
  BY <1>11 DEF EnterSession, Abandons, Fails, Free, Goes
<1>12. ASSUME NEW a \in Attempt, SessionAnnounced(a) PROVE RegistryInv'
  BY <1>12 DEF SessionAnnounced, Abandons, Fails, Goes
<1>13. ASSUME NEW a \in Attempt, EnterAgent(a) PROVE RegistryInv'
  BY <1>13 DEF EnterAgent, Abandons, Fails, Free, Goes
<1>14. ASSUME NEW a \in Attempt, AgentAnnounced(a) PROVE RegistryInv'
  BY <1>14 DEF AgentAnnounced, Abandons, Fails, Free, Goes
<1>15. ASSUME NEW a \in Attempt, EndMaintenance(a) PROVE RegistryInv'
  BY <1>15 DEF EndMaintenance, Converges, Free, Goes, Publishing, TearsDown
<1>16. ASSUME NEW a \in Attempt, Rejected(a) PROVE RegistryInv'
  BY <1>16 DEF Rejected, Free, Goes
<1>17. ASSUME NEW a \in Attempt, Send(a) PROVE RegistryInv' BY <1>17 DEF Send, Known
<1>18. ASSUME NEW a \in Attempt, UserCancels(a) PROVE RegistryInv'
  BY <1>18 DEF UserCancels, Known
<1>19. ASSUME NEW a \in Attempt, RunEnds(a) PROVE RegistryInv'
  BY <1>19 DEF RunEnds, Converges, Free
<1>20. ASSUME NEW a \in Attempt, CallerAborts(a) PROVE RegistryInv'
  BY <1>20 DEF CallerAborts, Settled
<1>21. ASSUME NEW a \in Attempt, Dispose(a) PROVE RegistryInv'
  BY <1>21 DEF Dispose, TearsDown
<1>22. ASSUME NEW a \in Attempt, Unwinds(a) PROVE RegistryInv'
  BY <1>22 DEF Unwinds, TearsDown
<1>23. ASSUME NEW a \in Attempt, StopDriver(a) PROVE RegistryInv'
  BY <1>23 DEF StopDriver, Free, KeepsInbox, MayStop, Publishing
<1>24. ASSUME NEW a \in Attempt, Quiet(a) PROVE RegistryInv'
  BY <1>24 DEF Quiet, Free, Silent
<1>25. ASSUME NEW a \in Attempt, DisposeScope(a) PROVE RegistryInv'
  BY <1>25 DEF DisposeScope, Free
<1>26. ASSUME NEW a \in Attempt, CloseHandle(a) PROVE RegistryInv'
  BY <1>26 DEF CloseHandle, Closes, Free
<1>27. ASSUME NEW a \in Attempt, Detach(a) PROVE RegistryInv'
  BY <1>27 DEF Detach, Free, Leave
<1>28. CASE OwnerUnloads \/ OwnerGone \/ FactoryUnloads \/ FactoryGone
  BY <1>28 DEF OwnerUnloads, OwnerGone, FactoryUnloads, FactoryGone
<1>29. CASE UNCHANGED vars
  BY <1>29 DEF vars
<1>30. ASSUME NEW a \in Attempt, SetupEnds(a) PROVE RegistryInv' BY <1>30 DEF SetupEnds, Free
<1> QED
  BY <1>1, <1>2, <1>3, <1>4, <1>5, <1>6, <1>7, <1>8, <1>9, <1>10, <1>11, <1>12, <1>13,
       <1>14, <1>15, <1>16, <1>17, <1>18, <1>19, <1>20, <1>21, <1>22, <1>23, <1>24,
       <1>25, <1>26, <1>27, <1>28, <1>29, <1>30 DEF Next, Proceeds

\* What an unloaded owner left untracked stays so.
LEMMA OwnerStep ==
  ASSUME LifecycleAssumption, TypeOK, StageInv, OwnerInv, [Next]_vars
  PROVE  OwnerInv'
<1> USE DEF TypeOK, StageInv, OwnerInv,
            LifecycleAssumption, Stage, Publication, Stopped, Tracked, attemptVars,
            driverVars, registries, owners
<1>1. ASSUME NEW a \in Attempt, Begin(a) PROVE OwnerInv' BY <1>1 DEF Begin, Free, Goes
<1>2. ASSUME NEW a \in Attempt, HandleArrives(a) PROVE OwnerInv'
  BY <1>2 DEF HandleArrives, Free, Goes
<1>3. ASSUME NEW a \in Attempt, HandleRefused(a) PROVE OwnerInv'
  BY <1>3 DEF HandleRefused, Free, Goes
<1>4. ASSUME NEW a \in Attempt, GivesUp(a) PROVE OwnerInv'
  BY <1>4 DEF GivesUp, Free, Goes
<1>5. ASSUME NEW a \in Attempt, CloseAbandoned(a) PROVE OwnerInv'
  BY <1>5 DEF CloseAbandoned, Closes, Free
<1>6. ASSUME NEW a \in Attempt, Load(a) PROVE OwnerInv'
  BY <1>6 DEF Load, Drops, Free, Goes
<1>7. ASSUME NEW a \in Attempt, Dropped(a) PROVE OwnerInv'
  BY <1>7 DEF Dropped, Closes, Free, Goes
<1>8. ASSUME NEW a \in Attempt, Initialize(a) PROVE OwnerInv'
  BY <1>8 DEF Initialize, Drops, Free, Goes
<1>9. ASSUME NEW a \in Attempt, Mint(a) PROVE OwnerInv'
  BY <1>9 DEF Mint, Goes, TearsDown
<1>10. ASSUME NEW a \in Attempt, MintFails(a) PROVE OwnerInv'
  BY <1>10 DEF MintFails, Drops, Goes
<1>11. ASSUME NEW a \in Attempt, EnterSession(a) PROVE OwnerInv'
  BY <1>11 DEF EnterSession, Abandons, Fails, Free, Goes
<1>12. ASSUME NEW a \in Attempt, SessionAnnounced(a) PROVE OwnerInv'
  BY <1>12 DEF SessionAnnounced, Abandons, Fails, Goes
<1>13. ASSUME NEW a \in Attempt, EnterAgent(a) PROVE OwnerInv'
  BY <1>13 DEF EnterAgent, Abandons, Fails, Free, Goes
<1>14. ASSUME NEW a \in Attempt, AgentAnnounced(a) PROVE OwnerInv'
  BY <1>14 DEF AgentAnnounced, Abandons, Fails, Free, Goes
<1>15. ASSUME NEW a \in Attempt, EndMaintenance(a) PROVE OwnerInv'
  BY <1>15 DEF EndMaintenance, Converges, Free, Goes, Publishing, TearsDown
<1>16. ASSUME NEW a \in Attempt, Rejected(a) PROVE OwnerInv'
  BY <1>16 DEF Rejected, Free, Goes
<1>17. ASSUME NEW a \in Attempt, Send(a) PROVE OwnerInv' BY <1>17 DEF Send, Known
<1>18. ASSUME NEW a \in Attempt, UserCancels(a) PROVE OwnerInv'
  BY <1>18 DEF UserCancels, Known
<1>19. ASSUME NEW a \in Attempt, RunEnds(a) PROVE OwnerInv'
  BY <1>19 DEF RunEnds, Converges, Free
<1>20. ASSUME NEW a \in Attempt, CallerAborts(a) PROVE OwnerInv'
  BY <1>20 DEF CallerAborts, Settled
<1>21. ASSUME NEW a \in Attempt, Dispose(a) PROVE OwnerInv'
  BY <1>21 DEF Dispose, TearsDown
<1>22. ASSUME NEW a \in Attempt, Unwinds(a) PROVE OwnerInv'
  BY <1>22 DEF Unwinds, TearsDown
<1>23. ASSUME NEW a \in Attempt, StopDriver(a) PROVE OwnerInv'
  BY <1>23 DEF StopDriver, Free, KeepsInbox, MayStop, Publishing
<1>24. ASSUME NEW a \in Attempt, Quiet(a) PROVE OwnerInv'
  BY <1>24 DEF Quiet, Free, Silent
<1>25. ASSUME NEW a \in Attempt, DisposeScope(a) PROVE OwnerInv'
  BY <1>25 DEF DisposeScope, Free
<1>26. ASSUME NEW a \in Attempt, CloseHandle(a) PROVE OwnerInv'
  BY <1>26 DEF CloseHandle, Closes, Free
<1>27. ASSUME NEW a \in Attempt, Detach(a) PROVE OwnerInv'
  BY <1>27 DEF Detach, Free, Leave
<1>28. CASE OwnerUnloads \/ OwnerGone \/ FactoryUnloads \/ FactoryGone
  BY <1>28 DEF OwnerUnloads, OwnerGone, FactoryUnloads, FactoryGone
<1>29. CASE UNCHANGED vars
  BY <1>29 DEF vars
<1>30. ASSUME NEW a \in Attempt, SetupEnds(a) PROVE OwnerInv' BY <1>30 DEF SetupEnds, Free
<1> QED
  BY <1>1, <1>2, <1>3, <1>4, <1>5, <1>6, <1>7, <1>8, <1>9, <1>10, <1>11, <1>12, <1>13,
       <1>14, <1>15, <1>16, <1>17, <1>18, <1>19, <1>20, <1>21, <1>22, <1>23, <1>24,
       <1>25, <1>26, <1>27, <1>28, <1>29, <1>30 DEF Next, Proceeds

-----------------------------------------------------------------------------
(* The invariant holds, and what follows from it.                            *)

\* The initial state satisfies the invariant.
LEMMA InitInv == LifecycleAssumption /\ Init => IInv
  BY DEF LifecycleAssumption, Init, Each, IInv, TypeOK, InboxInv, StageInv, HandleInv,
         TeardownInv, RegistryInv, OwnerInv, Stage, Publication, Stopped, Tracked

\* The strengthening, always.
THEOREM Inductive == Spec => []IInv
<1>1. IInv /\ [Next]_vars => IInv'
  BY LifecycleAssumption, TypeStep, InboxStep, StageStep, HandleStep, TeardownStep,
     RegistryStep, OwnerStep DEF IInv
<1> QED
  BY InitInv, <1>1, LifecycleAssumption, PTL DEF Spec

\* Every variable has its values, and an open handle holds its session's claim.
THEOREM TypeCorrect == Spec => []TypeOK
<1>1. IInv => TypeOK
  BY DEF IInv
<1> QED
  BY <1>1, Inductive, PTL

\* Behind a teardown that is done nothing of the attempt is left, and nothing of
\* it comes back, for any number of attempts.
THEOREM NothingOutlivesCorrect == Spec => []NothingOutlivesTeardown
<1>1. IInv => NothingOutlivesTeardown
  BY DEF IInv, TypeOK, TeardownInv, Stopped, NothingOutlivesTeardown
<1> QED
  BY <1>1, Inductive, PTL

\* Whoever unloads, creation listeners keep what they were given, and setup does
\* until its attempt is aborted.
THEOREM CreationCorrect == Spec => []CreationKeepsItsWorld
<1>1. IInv => CreationKeepsItsWorld
  BY DEF IInv, TypeOK, StageInv, HandleInv, RegistryInv, Publication, Stopped,
         CreationKeepsItsWorld
<1> QED
  BY <1>1, Inductive, PTL

\* Once an owner or the factory has unloaded, no agent is left behind.
THEOREM OwnersCorrect == Spec => []OwnersLeaveNothing
<1>1. IInv => OwnersLeaveNothing
  <2> SUFFICES ASSUME IInv, owner = "gone" \/ factory = "gone", NEW a \in Attempt
               PROVE  /\ sessionIn # a /\ agentIn # a
                      /\ scope[a] # "live" /\ phase[a] # "running"
    BY DEF OwnersLeaveNothing, IInv, TypeOK
  <2>1. ~Tracked(a) /\ sessionIn # a /\ agentIn # a /\ scope[a] # "live"
    BY DEF IInv, OwnerInv, RegistryInv
  <2>2. phase[a] # "running"
    BY <2>1 DEF IInv, TypeOK, StageInv, TeardownInv, Tracked, Stopped
  <2> QED
    BY <2>1, <2>2
<1> QED
  BY <1>1, Inductive, PTL
-----------------------------------------------------------------------------
(* What is queued while an agent is initialized stays queued.                *)

\* An initialization runs inside its maintenance task and has succeeded when the
\* attempt has returned; one that failed has a cause.
MaintenanceInv(a) ==
  /\ at[a] \in Publication \cup {"failing"} => phase[a] = "maintenance"
  /\ phase[a] = "maintenance" => at[a] \in Publication \cup {"failing", "returned"}
  /\ at[a] = "failing" => cause[a] # "none"
  /\ at[a] = "returned" => ready[a]

\* Only a user's cancel leaves a cause behind which a wake is latched, once
\* maintenance is over.
CauseInv(a) ==
  /\ cause[a] = "user" => interfered[a]
  /\ latched[a] => phase[a] = "maintenance" \/ interfered[a]

InputInv == \A a \in Attempt : MaintenanceInv(a) /\ CauseInv(a)

\* Every step keeps it.
LEMMA InputStep ==
  ASSUME TypeOK, HandleInv, StageInv, InputInv, [Next]_vars
  PROVE  InputInv'
<1> USE DEF TypeOK, HandleInv, StageInv, InputInv, MaintenanceInv, CauseInv, Publication,
            Stopped, attemptVars, driverVars, registries, owners
<1>1. ASSUME NEW a \in Attempt, Begin(a) PROVE InputInv'
  BY <1>1 DEF Begin, Free, Goes
<1>2. ASSUME NEW a \in Attempt, HandleArrives(a) PROVE InputInv'
  BY <1>2 DEF HandleArrives, Free, Goes
<1>3. ASSUME NEW a \in Attempt, HandleRefused(a) PROVE InputInv'
  BY <1>3 DEF HandleRefused, Free, Goes
<1>4. ASSUME NEW a \in Attempt, GivesUp(a) PROVE InputInv'
  BY <1>4 DEF GivesUp, Free, Goes
<1>5. ASSUME NEW a \in Attempt, CloseAbandoned(a) PROVE InputInv'
  BY <1>5 DEF CloseAbandoned, Closes, Free
<1>6. ASSUME NEW a \in Attempt, Load(a) PROVE InputInv'
  BY <1>6 DEF Load, Drops, Free, Goes
<1>7. ASSUME NEW a \in Attempt, Dropped(a) PROVE InputInv'
  BY <1>7 DEF Dropped, Closes, Free, Goes
<1>8. ASSUME NEW a \in Attempt, Initialize(a) PROVE InputInv'
  BY <1>8 DEF Initialize, Drops, Free, Goes
<1>9. ASSUME NEW a \in Attempt, Mint(a) PROVE InputInv'
  BY <1>9 DEF Mint, Goes, TearsDown
<1>10. ASSUME NEW a \in Attempt, MintFails(a) PROVE InputInv'
  BY <1>10 DEF MintFails, Drops, Goes
<1>11. ASSUME NEW a \in Attempt, EnterSession(a) PROVE InputInv'
  BY <1>11 DEF EnterSession, Abandons, Fails, Free, Goes
<1>12. ASSUME NEW a \in Attempt, SessionAnnounced(a) PROVE InputInv'
  BY <1>12 DEF SessionAnnounced, Abandons, Fails, Goes
<1>13. ASSUME NEW a \in Attempt, EnterAgent(a) PROVE InputInv'
  BY <1>13 DEF EnterAgent, Abandons, Fails, Free, Goes
<1>14. ASSUME NEW a \in Attempt, AgentAnnounced(a) PROVE InputInv'
  BY <1>14 DEF AgentAnnounced, Abandons, Fails, Free, Goes
<1>15. ASSUME NEW a \in Attempt, EndMaintenance(a) PROVE InputInv'
  BY <1>15 DEF EndMaintenance, Converges, Free, Goes, Publishing, TearsDown
<1>16. ASSUME NEW a \in Attempt, Rejected(a) PROVE InputInv'
  BY <1>16 DEF Rejected, Free, Goes
<1>17. ASSUME NEW a \in Attempt, Send(a) PROVE InputInv'
  BY <1>17 DEF Send, Known
<1>18. ASSUME NEW a \in Attempt, UserCancels(a) PROVE InputInv'
  BY <1>18 DEF UserCancels, Known
<1>19. ASSUME NEW a \in Attempt, RunEnds(a) PROVE InputInv'
  BY <1>19 DEF RunEnds, Converges, Free
<1>20. ASSUME NEW a \in Attempt, CallerAborts(a) PROVE InputInv'
  BY <1>20 DEF CallerAborts, Settled
<1>21. ASSUME NEW a \in Attempt, Dispose(a) PROVE InputInv'
  BY <1>21 DEF Dispose, TearsDown
<1>22. ASSUME NEW a \in Attempt, Unwinds(a) PROVE InputInv'
  BY <1>22 DEF Unwinds, TearsDown
<1>23. ASSUME NEW a \in Attempt, StopDriver(a) PROVE InputInv'
  BY <1>23 DEF StopDriver, Free, KeepsInbox, MayStop, Publishing
<1>24. ASSUME NEW a \in Attempt, Quiet(a) PROVE InputInv'
  BY <1>24 DEF Quiet, Free, Silent
<1>25. ASSUME NEW a \in Attempt, DisposeScope(a) PROVE InputInv'
  BY <1>25 DEF DisposeScope, Free
<1>26. ASSUME NEW a \in Attempt, CloseHandle(a) PROVE InputInv'
  BY <1>26 DEF CloseHandle, Closes, Free
<1>27. ASSUME NEW a \in Attempt, Detach(a) PROVE InputInv'
  BY <1>27 DEF Detach, Free, Leave
<1>28. CASE OwnerUnloads \/ OwnerGone \/ FactoryUnloads \/ FactoryGone
  BY <1>28 DEF OwnerUnloads, OwnerGone, FactoryUnloads, FactoryGone
<1>29. CASE UNCHANGED vars
  BY <1>29 DEF vars
<1>30. ASSUME NEW a \in Attempt, SetupEnds(a) PROVE InputInv' BY <1>30 DEF SetupEnds, Free
<1> QED
  BY <1>1, <1>2, <1>3, <1>4, <1>5, <1>6, <1>7, <1>8, <1>9, <1>10, <1>11, <1>12, <1>13,
     <1>14, <1>15, <1>16, <1>17, <1>18, <1>19, <1>20, <1>21, <1>22, <1>23, <1>24,
     <1>25, <1>26, <1>27, <1>28, <1>29, <1>30 DEF Next, Proceeds

\* What FailedInitKeepsInput says of one step.
InputKept == [\A a \in Attempt :
  ~ready[a] /\ inbox'[a] < inbox[a] => interfered'[a] \/ sent'[a] > sent[a]]_vars

\* A queue gets shorter only when a message starts a driver, when a user cancels,
\* when the agent is ready, or when a wake that was latched is replayed.
LEMMA KeptStep ==
  ASSUME TypeOK, InputInv, [Next]_vars
  PROVE  InputKept
<1> USE DEF TypeOK, InputInv, MaintenanceInv, CauseInv, Publication, InputKept,
            attemptVars, driverVars, registries, owners
<1>1. ASSUME NEW a \in Attempt, Begin(a) PROVE InputKept
  BY <1>1 DEF Begin, Free, Goes
<1>2. ASSUME NEW a \in Attempt, HandleArrives(a) PROVE InputKept
  BY <1>2 DEF HandleArrives, Free, Goes
<1>3. ASSUME NEW a \in Attempt, HandleRefused(a) PROVE InputKept
  BY <1>3 DEF HandleRefused, Free, Goes
<1>4. ASSUME NEW a \in Attempt, GivesUp(a) PROVE InputKept
  BY <1>4 DEF GivesUp, Free, Goes
<1>5. ASSUME NEW a \in Attempt, CloseAbandoned(a) PROVE InputKept
  BY <1>5 DEF CloseAbandoned, Closes, Free
<1>6. ASSUME NEW a \in Attempt, Load(a) PROVE InputKept
  BY <1>6 DEF Load, Drops, Free, Goes
<1>7. ASSUME NEW a \in Attempt, Dropped(a) PROVE InputKept
  BY <1>7 DEF Dropped, Closes, Free, Goes
<1>8. ASSUME NEW a \in Attempt, Initialize(a) PROVE InputKept
  BY <1>8 DEF Initialize, Drops, Free, Goes
<1>9. ASSUME NEW a \in Attempt, Mint(a) PROVE InputKept
  BY <1>9 DEF Mint, Goes, TearsDown
<1>10. ASSUME NEW a \in Attempt, MintFails(a) PROVE InputKept
  BY <1>10 DEF MintFails, Drops, Goes
<1>11. ASSUME NEW a \in Attempt, EnterSession(a) PROVE InputKept
  BY <1>11 DEF EnterSession, Abandons, Fails, Free, Goes
<1>12. ASSUME NEW a \in Attempt, SessionAnnounced(a) PROVE InputKept
  BY <1>12 DEF SessionAnnounced, Abandons, Fails, Goes
<1>13. ASSUME NEW a \in Attempt, EnterAgent(a) PROVE InputKept
  BY <1>13 DEF EnterAgent, Abandons, Fails, Free, Goes
<1>14. ASSUME NEW a \in Attempt, AgentAnnounced(a) PROVE InputKept
  BY <1>14 DEF AgentAnnounced, Abandons, Fails, Free, Goes
<1>15. ASSUME NEW a \in Attempt, EndMaintenance(a) PROVE InputKept
  BY <1>15 DEF EndMaintenance, Converges, Free, Goes, Publishing, TearsDown
<1>16. ASSUME NEW a \in Attempt, Rejected(a) PROVE InputKept
  BY <1>16 DEF Rejected, Free, Goes
<1>17. ASSUME NEW a \in Attempt, Send(a) PROVE InputKept
  BY <1>17 DEF Send, Known
<1>18. ASSUME NEW a \in Attempt, UserCancels(a) PROVE InputKept
  BY <1>18 DEF UserCancels, Known
<1>19. ASSUME NEW a \in Attempt, RunEnds(a) PROVE InputKept
  BY <1>19 DEF RunEnds, Converges, Free
<1>20. ASSUME NEW a \in Attempt, CallerAborts(a) PROVE InputKept
  BY <1>20 DEF CallerAborts, Settled
<1>21. ASSUME NEW a \in Attempt, Dispose(a) PROVE InputKept
  BY <1>21 DEF Dispose, TearsDown
<1>22. ASSUME NEW a \in Attempt, Unwinds(a) PROVE InputKept
  BY <1>22 DEF Unwinds, TearsDown
<1>23. ASSUME NEW a \in Attempt, StopDriver(a) PROVE InputKept
  BY <1>23 DEF StopDriver, Free, KeepsInbox, MayStop, Publishing
<1>24. ASSUME NEW a \in Attempt, Quiet(a) PROVE InputKept
  BY <1>24 DEF Quiet, Free, Silent
<1>25. ASSUME NEW a \in Attempt, DisposeScope(a) PROVE InputKept
  BY <1>25 DEF DisposeScope, Free
<1>26. ASSUME NEW a \in Attempt, CloseHandle(a) PROVE InputKept
  BY <1>26 DEF CloseHandle, Closes, Free
<1>27. ASSUME NEW a \in Attempt, Detach(a) PROVE InputKept
  BY <1>27 DEF Detach, Free, Leave
<1>28. CASE OwnerUnloads \/ OwnerGone \/ FactoryUnloads \/ FactoryGone
  BY <1>28 DEF OwnerUnloads, OwnerGone, FactoryUnloads, FactoryGone
<1>29. CASE UNCHANGED vars
  BY <1>29 DEF vars
<1>30. ASSUME NEW a \in Attempt, SetupEnds(a) PROVE InputKept BY <1>30 DEF SetupEnds, Free
<1> QED
  BY <1>1, <1>2, <1>3, <1>4, <1>5, <1>6, <1>7, <1>8, <1>9, <1>10, <1>11, <1>12, <1>13,
     <1>14, <1>15, <1>16, <1>17, <1>18, <1>19, <1>20, <1>21, <1>22, <1>23, <1>24,
     <1>25, <1>26, <1>27, <1>28, <1>29, <1>30 DEF Next, Proceeds

\* Input that is queued while an agent is initialized is never lost, unless a
\* user has cancelled the agent; a later message may take it.
THEOREM FailedInitCorrect == Spec => FailedInitKeepsInput
<1>1. Init => InputInv
  BY DEF Init, Each, InputInv, MaintenanceInv, CauseInv, Publication
<1>2. IInv /\ InputInv /\ [Next]_vars => InputInv'
  BY InputStep DEF IInv
<1>3. IInv /\ InputInv /\ [Next]_vars => InputKept
  BY KeptStep DEF IInv
<1> QED
  BY <1>1, <1>2, <1>3, Inductive, PTL DEF Spec, FailedInitKeepsInput, InputKept

-----------------------------------------------------------------------------
(* A teardown always has somebody who is due.                                *)

\* Whose synchronous callbacks run, and who has been told of an abort.
DueInv == \A a \in Attempt :
  /\ at[a] \in {"minting", "created"} => dispatching = a
  /\ at[a] = "disposing" => teardown[a] # "no"
  /\ at[a] = "returned" /\ aborted[a] => teardown[a] # "no"
  /\ aborted[a] => at[a] \notin {"none", "acquire", "load", "init"}

\* Every step keeps it.
LEMMA DueStep ==
  ASSUME TypeOK, DueInv, [Next]_vars
  PROVE  DueInv'
<1> USE DEF TypeOK, DueInv, attemptVars, driverVars, registries, owners
<1>1. ASSUME NEW a \in Attempt, Begin(a) PROVE DueInv'
  BY <1>1 DEF Begin, Free, Goes
<1>2. ASSUME NEW a \in Attempt, HandleArrives(a) PROVE DueInv'
  BY <1>2 DEF HandleArrives, Free, Goes
<1>3. ASSUME NEW a \in Attempt, HandleRefused(a) PROVE DueInv'
  BY <1>3 DEF HandleRefused, Free, Goes
<1>4. ASSUME NEW a \in Attempt, GivesUp(a) PROVE DueInv'
  BY <1>4 DEF GivesUp, Free, Goes
<1>5. ASSUME NEW a \in Attempt, CloseAbandoned(a) PROVE DueInv'
  BY <1>5 DEF CloseAbandoned, Closes, Free
<1>6. ASSUME NEW a \in Attempt, Load(a) PROVE DueInv'
  BY <1>6 DEF Load, Drops, Free, Goes
<1>7. ASSUME NEW a \in Attempt, Dropped(a) PROVE DueInv'
  BY <1>7 DEF Dropped, Closes, Free, Goes
<1>8. ASSUME NEW a \in Attempt, Initialize(a) PROVE DueInv'
  BY <1>8, LifecycleAssumption DEF Initialize, Drops, Free, Goes
<1>9. ASSUME NEW a \in Attempt, Mint(a) PROVE DueInv'
  BY <1>9 DEF Mint, Goes, TearsDown
<1>10. ASSUME NEW a \in Attempt, MintFails(a) PROVE DueInv'
  BY <1>10 DEF MintFails, Drops, Goes
<1>11. ASSUME NEW a \in Attempt, EnterSession(a) PROVE DueInv'
  BY <1>11, LifecycleAssumption DEF EnterSession, Abandons, Fails, Free, Goes
<1>12. ASSUME NEW a \in Attempt, SessionAnnounced(a) PROVE DueInv'
  BY <1>12 DEF SessionAnnounced, Abandons, Fails, Goes
<1>13. ASSUME NEW a \in Attempt, EnterAgent(a) PROVE DueInv'
  BY <1>13 DEF EnterAgent, Abandons, Fails, Free, Goes
<1>14. ASSUME NEW a \in Attempt, AgentAnnounced(a) PROVE DueInv'
  BY <1>14 DEF AgentAnnounced, Abandons, Fails, Free, Goes
<1>15. ASSUME NEW a \in Attempt, EndMaintenance(a) PROVE DueInv'
  BY <1>15 DEF EndMaintenance, Converges, Free, Goes, Publishing, TearsDown
<1>16. ASSUME NEW a \in Attempt, Rejected(a) PROVE DueInv'
  BY <1>16 DEF Rejected, Free, Goes
<1>17. ASSUME NEW a \in Attempt, Send(a) PROVE DueInv'
  BY <1>17 DEF Send, Known
<1>18. ASSUME NEW a \in Attempt, UserCancels(a) PROVE DueInv'
  BY <1>18 DEF UserCancels, Known
<1>19. ASSUME NEW a \in Attempt, RunEnds(a) PROVE DueInv'
  BY <1>19 DEF RunEnds, Converges, Free
<1>20. ASSUME NEW a \in Attempt, CallerAborts(a) PROVE DueInv'
  BY <1>20 DEF CallerAborts, Settled, Tracked
<1>21. ASSUME NEW a \in Attempt, Dispose(a) PROVE DueInv'
  BY <1>21 DEF Dispose, TearsDown
<1>22. ASSUME NEW a \in Attempt, Unwinds(a) PROVE DueInv'
  BY <1>22 DEF Unwinds, TearsDown, Tracked
<1>23. ASSUME NEW a \in Attempt, StopDriver(a) PROVE DueInv'
  BY <1>23 DEF StopDriver, Free, KeepsInbox, MayStop, Publishing
<1>24. ASSUME NEW a \in Attempt, Quiet(a) PROVE DueInv'
  BY <1>24 DEF Quiet, Free, Silent
<1>25. ASSUME NEW a \in Attempt, DisposeScope(a) PROVE DueInv'
  BY <1>25 DEF DisposeScope, Free
<1>26. ASSUME NEW a \in Attempt, CloseHandle(a) PROVE DueInv'
  BY <1>26 DEF CloseHandle, Closes, Free
<1>27. ASSUME NEW a \in Attempt, Detach(a) PROVE DueInv'
  BY <1>27 DEF Detach, Free, Leave
<1>28. CASE OwnerUnloads \/ OwnerGone \/ FactoryUnloads \/ FactoryGone
  BY <1>28 DEF OwnerUnloads, OwnerGone, FactoryUnloads, FactoryGone
<1>29. CASE UNCHANGED vars
  BY <1>29 DEF vars
<1>30. ASSUME NEW a \in Attempt, SetupEnds(a) PROVE DueInv' BY <1>30 DEF SetupEnds, Free
<1> QED
  BY <1>1, <1>2, <1>3, <1>4, <1>5, <1>6, <1>7, <1>8, <1>9, <1>10, <1>11, <1>12, <1>13,
     <1>14, <1>15, <1>16, <1>17, <1>18, <1>19, <1>20, <1>21, <1>22, <1>23, <1>24,
     <1>25, <1>26, <1>27, <1>28, <1>29, <1>30 DEF Next, Proceeds

\* Nothing is left of an attempt, or it has never been torn down and holds no scope.
Ended(a) == Settled(a) /\ teardown[a] \in {"no", "done"} /\ scope[a] # "live"

\* The guards of what an aborted attempt may do next, when no callbacks run.
Due(a) ==
  \/ at[a] \in {"dropping", "store", "setup", "announce"}
  \/ at[a] = "disposing" /\ teardown[a] = "done"
  \/ phase[a] = "maintenance" /\ ~Publishing(a)
  \/ phase[a] = "running"
  \/ teardown[a] = "wait" /\ MayStop(a)
  \/ teardown[a] = "idle" /\ Silent(a)
  \/ teardown[a] \in {"scope", "close", "detach"}

\* Synchronous callbacks run, and will return.
Returns(a) == dispatching = a /\ at[a] \in {"minting", "created"}

\* An aborted attempt is never stuck, for any number of attempts: until nothing is
\* left of it, it may go on by itself, whatever the others, its owner or the
\* factory wait for, or synchronous callbacks run and will return.  So no
\* teardown waits for itself, for its own initialization or for another
\* (agent-loop/src/index.ts, initializeAgent's dispose).
THEOREM AbortedIsNeverStuck ==
  Spec => [](\A a \in Attempt : aborted[a] /\ ~Ended(a) =>
               IF Free THEN Due(a) ELSE \E b \in Attempt : Returns(b))
<1>1. Init => DueInv
  BY DEF Init, Each, DueInv
<1>2. Init => InputInv
  BY DEF Init, Each, InputInv, MaintenanceInv, CauseInv, Publication
<1>3. IInv /\ InputInv /\ [Next]_vars => InputInv'
  BY InputStep DEF IInv
<1>4. IInv /\ DueInv /\ [Next]_vars => DueInv'
  BY DueStep DEF IInv
<1>5. IInv /\ InputInv /\ DueInv =>
        \A a \in Attempt : aborted[a] /\ ~Ended(a) =>
          IF Free THEN Due(a) ELSE \E b \in Attempt : Returns(b)
  <2> SUFFICES ASSUME IInv, InputInv, DueInv, NEW a \in Attempt, aborted[a], ~Ended(a)
               PROVE  IF Free THEN Due(a) ELSE \E b \in Attempt : Returns(b)
    OBVIOUS
  <2>1. CASE ~Free
    BY <2>1 DEF Free, IInv, TypeOK, Returns
  <2>2. CASE Free
    <3> USE DEF IInv, TypeOK
    <3>1. dispatching \notin Attempt
      BY <2>2, LifecycleAssumption DEF Free
    <3>2. at[a] \notin {"minting", "created", "none", "acquire", "load", "init"}
      BY <3>1 DEF DueInv
    <3>3. /\ at[a] \in {"store", "setup", "announce", "failing"} => phase[a] = "maintenance"
          /\ phase[a] = "maintenance" => at[a] \in Publication \cup {"failing", "returned"}
      BY DEF InputInv, MaintenanceInv, Publication
    <3>4. CASE at[a] \in {"dropping", "store", "setup", "announce"}
      BY <2>2, <3>4 DEF Due
    <3>5. CASE at[a] = "failing"
      BY <2>2, <3>3, <3>5 DEF Due, Publishing
    <3>6. CASE at[a] \in {"disposing", "returned", "rejected"}
      <4>1. ~Publishing(a) /\ MayStop(a)
        BY <3>6 DEF Publishing, MayStop
      <4>2. teardown[a] = "no" => FALSE
        BY <3>6 DEF DueInv, StageInv, Ended, Settled
      <4>3. teardown[a] = "done" => Due(a)
        BY <3>6 DEF TeardownInv, Ended, Settled, Due
      <4>4. teardown[a] = "idle" => Due(a)
        BY <3>6, <4>1 DEF Due, Silent
      <4>5. teardown[a] \in {"wait", "scope", "close", "detach"} => Due(a)
        BY <4>1 DEF Due
      <4> QED
        BY <2>2, <4>2, <4>3, <4>4, <4>5
    <3> QED
      BY <2>2, <3>2, <3>4, <3>5, <3>6 DEF Stage
  <2> QED
    BY <2>1, <2>2
<1> QED
  BY Inductive, <1>1, <1>2, <1>3, <1>4, <1>5, PTL DEF Spec

=============================================================================
