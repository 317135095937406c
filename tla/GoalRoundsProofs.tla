-------------------------- MODULE GoalRoundsProofs --------------------------
(***************************************************************************)
(* Theorems about GoalRounds for any messages, caps, and bounds.           *)
(***************************************************************************)
EXTENDS GoalRounds, SequenceTheorems, TLAPS

-----------------------------------------------------------------------------
(* The queue.                                                                *)

Distinct(s) == \A j, k \in DOMAIN s : s[j] = s[k] => j = k

\* A queue is the set of what it holds, each once.
LEMMA AppendQueue ==
  ASSUME NEW S, NEW s \in Seq(S), NEW e \in S
  PROVE  /\ Append(s, e) \in Seq(S) /\ Range(Append(s, e)) = Range(s) \cup {e}
         /\ Distinct(s) /\ e \notin Range(s) => Distinct(Append(s, e))
<1>1. /\ Append(s, e) \in Seq(S) /\ Len(Append(s, e)) = Len(s) + 1
      /\ \A i \in 1 .. Len(s) : Append(s, e)[i] = s[i]
      /\ Append(s, e)[Len(s) + 1] = e
  BY AppendProperties
<1>2. /\ Len(s) \in Nat /\ DOMAIN s = 1 .. Len(s)
      /\ DOMAIN Append(s, e) = 1 .. Len(s) + 1
  BY <1>1, LenProperties
<1>3. Range(Append(s, e)) = Range(s) \cup {e}
  <2>1. \A i \in 1 .. Len(s) + 1 : i \in 1 .. Len(s) \/ i = Len(s) + 1
    BY <1>2
  <2>2. \A i \in 1 .. Len(s) : i \in 1 .. Len(s) + 1
    BY <1>2
  <2>3. Len(s) + 1 \in 1 .. Len(s) + 1
    BY <1>2
  <2> QED
    BY <1>1, <1>2, <2>1, <2>2, <2>3 DEF Range
<1>4. ASSUME Distinct(s), e \notin Range(s) PROVE Distinct(Append(s, e))
  <2>1. \A i \in 1 .. Len(s) : s[i] # e
    BY <1>2, <1>4 DEF Range
  <2>2. \A i \in 1 .. Len(s) + 1 : i \in 1 .. Len(s) \/ i = Len(s) + 1
    BY <1>2
  <2> QED
    BY <1>1, <1>2, <1>4, <2>1, <2>2 DEF Distinct
<1> QED
  BY <1>1, <1>3, <1>4

\* What is left of a queue when its first entry is claimed.
LEMMA TailQueue ==
  ASSUME NEW S, NEW s \in Seq(S), s # <<>>
  PROVE  /\ Tail(s) \in Seq(S) /\ Head(s) \in S /\ Head(s) \in Range(s)
         /\ Range(Tail(s)) \subseteq Range(s)
         /\ Distinct(s) => Distinct(Tail(s)) /\ Range(Tail(s)) = Range(s) \ {Head(s)}
<1>1. /\ Tail(s) \in Seq(S) /\ Head(s) \in S /\ Len(Tail(s)) = Len(s) - 1
      /\ \A i \in 1 .. Len(Tail(s)) : Tail(s)[i] = s[i + 1]
      /\ Head(s) = s[1]
  BY HeadTailProperties
<1>2. /\ Len(s) \in Nat \ {0} /\ DOMAIN s = 1 .. Len(s)
      /\ DOMAIN Tail(s) = 1 .. Len(s) - 1
  BY <1>1, LenProperties, EmptySeq
<1>3. /\ \A i \in 1 .. Len(s) - 1 : i + 1 \in 1 .. Len(s) /\ i + 1 # 1
      /\ \A i \in 1 .. Len(s) : i = 1 \/ (i - 1 \in 1 .. Len(s) - 1 /\ (i - 1) + 1 = i)
      /\ 1 \in 1 .. Len(s)
  BY <1>2
<1>4. Head(s) \in Range(s)
  BY <1>1, <1>2, <1>3 DEF Range
<1>5. Range(Tail(s)) \subseteq Range(s)
  BY <1>1, <1>2, <1>3 DEF Range
<1>6. Range(s) \subseteq Range(Tail(s)) \cup {Head(s)}
  <2> SUFFICES ASSUME NEW i \in 1 .. Len(s)
               PROVE  s[i] \in Range(Tail(s)) \cup {Head(s)}
    BY <1>2 DEF Range
  <2>1. CASE i = 1
    BY <1>1, <2>1
  <2>2. CASE i # 1
    <3>1. i - 1 \in 1 .. Len(s) - 1 /\ (i - 1) + 1 = i
      BY <1>3, <2>2
    <3>2. Tail(s)[i - 1] = s[i]
      BY <1>1, <3>1
    <3> QED
      BY <1>2, <3>1, <3>2 DEF Range
  <2> QED
    BY <2>1, <2>2
<1>7. ASSUME Distinct(s) PROVE Distinct(Tail(s)) /\ Head(s) \notin Range(Tail(s))
  <2>1. \A j, k \in 1 .. Len(s) - 1 : j + 1 = k + 1 => j = k
    BY <1>2
  <2>2. Distinct(Tail(s))
    BY <1>1, <1>2, <1>3, <1>7, <2>1 DEF Distinct
  <2> QED
    BY <1>1, <1>2, <1>3, <1>7, <2>2 DEF Distinct, Range
<1> QED
  BY <1>1, <1>4, <1>5, <1>6, <1>7

\* What is left of a queue when one entry is taken out.
LEMMA RemoveQueue ==
  ASSUME NEW S, NEW s \in Seq(S), NEW k \in DOMAIN s
  PROVE  /\ RemoveAt(s, k) \in Seq(S)
         /\ Range(RemoveAt(s, k)) \subseteq Range(s)
         /\ Distinct(s) => /\ Distinct(RemoveAt(s, k))
                           /\ Range(RemoveAt(s, k)) = Range(s) \ {s[k]}
<1> DEFINE a == SubSeq(s, 1, k - 1)
           b == SubSeq(s, k + 1, Len(s))
           r == RemoveAt(s, k)
<1>1. Len(s) \in Nat /\ DOMAIN s = 1 .. Len(s) /\ k \in 1 .. Len(s)
  BY LenProperties
<1>2. \A i \in 1 .. Len(s) : s[i] \in S
  BY <1>1, ElementOfSeq
<1>3. /\ a \in Seq(S) /\ Len(a) = k - 1 /\ \A i \in 1 .. k - 1 : a[i] = s[i]
  BY <1>1, <1>2, SubSeqProperties
<1>4. /\ b \in Seq(S) /\ Len(b) = Len(s) - k /\ \A i \in 1 .. Len(s) - k : b[i] = s[k + i]
  <2>1. \A i \in k + 1 .. Len(s) : s[i] \in S
    BY <1>1, <1>2
  <2>2. b \in Seq(S) /\ Len(b) = (IF k + 1 <= Len(s) THEN Len(s) - (k + 1) + 1 ELSE 0)
    BY <1>1, <2>1, SubSeqProperties
  <2>3. \A i \in 1 .. Len(b) : b[i] = s[(k + 1) + i - 1]
    BY <1>1, <2>1, SubSeqProperties
  <2>4. Len(b) = Len(s) - k
    BY <1>1, <2>2
  <2>5. \A i \in 1 .. Len(s) - k : (k + 1) + i - 1 = k + i
    BY <1>1
  <2> QED
    BY <2>2, <2>3, <2>4, <2>5
<1>5. /\ r \in Seq(S) /\ Len(r) = Len(s) - 1
      /\ \A i \in 1 .. Len(s) - 1 : r[i] = IF i < k THEN s[i] ELSE s[i + 1]
  <2>1. r = a \o b
    BY DEF RemoveAt
  <2>2. /\ a \o b \in Seq(S) /\ Len(a \o b) = Len(a) + Len(b)
        /\ \A i \in 1 .. Len(a) + Len(b) :
             (a \o b)[i] = IF i <= Len(a) THEN a[i] ELSE b[i - Len(a)]
    BY <1>3, <1>4, ConcatProperties
  <2>3. Len(a) + Len(b) = Len(s) - 1
    BY <1>1, <1>3, <1>4
  <2>4. \A i \in 1 .. Len(s) - 1 :
          /\ i < k => i <= Len(a) /\ a[i] = s[i]
          /\ ~(i < k) => ~(i <= Len(a)) /\ b[i - Len(a)] = s[i + 1]
    <3> SUFFICES ASSUME NEW i \in 1 .. Len(s) - 1
                 PROVE  /\ i < k => i <= Len(a) /\ a[i] = s[i]
                        /\ ~(i < k) => ~(i <= Len(a)) /\ b[i - Len(a)] = s[i + 1]
      OBVIOUS
    <3>1. CASE i < k
      BY <1>1, <1>3, <3>1
    <3>2. CASE ~(i < k)
      <4>1. i - Len(a) = i - k + 1 /\ i - k + 1 \in 1 .. Len(s) - k /\ k + (i - k + 1) = i + 1
        BY <1>1, <1>3, <3>2
      <4>2. ~(i <= Len(a))
        BY <1>1, <1>3, <3>2
      <4>3. b[i - k + 1] = s[k + (i - k + 1)]
        BY <1>4, <4>1
      <4> QED
        BY <3>2, <4>1, <4>2, <4>3
    <3> QED
      BY <3>1, <3>2
  <2> HIDE DEF a, b, r
  <2> QED
    BY <2>1, <2>2, <2>3, <2>4
<1> HIDE DEF a, b, r
<1>6. DOMAIN r = 1 .. Len(s) - 1
  BY <1>5, LenProperties
<1>7. /\ \A i \in 1 .. Len(s) - 1 : i \in 1 .. Len(s) /\ i + 1 \in 1 .. Len(s)
      /\ \A i \in 1 .. Len(s) : i < k \/ i = k \/ (i - 1 \in 1 .. Len(s) - 1 /\ ~(i - 1 < k)
                                                  /\ (i - 1) + 1 = i)
      /\ \A i \in 1 .. Len(s) : i < k => i \in 1 .. Len(s) - 1
      /\ \A i \in 1 .. Len(s) - 1 : ~(i < k) => i + 1 # k
      /\ \A i \in 1 .. Len(s) - 1 : i < k => i # k
  BY <1>1
<1>8. Range(r) \subseteq Range(s)
  <2> SUFFICES ASSUME NEW i \in 1 .. Len(s) - 1
               PROVE  \E j \in 1 .. Len(s) : r[i] = s[j]
    BY <1>1, <1>6 DEF Range
  <2> QED
    BY <1>5, <1>7
<1>9. Range(s) \subseteq Range(r) \cup {s[k]}
  <2> SUFFICES ASSUME NEW i \in 1 .. Len(s), i # k
               PROVE  \E j \in 1 .. Len(s) - 1 : r[j] = s[i]
    BY <1>1, <1>6 DEF Range
  <2>1. CASE i < k
    BY <1>5, <1>7, <2>1
  <2>2. CASE ~(i < k)
    BY <1>5, <1>7, <2>2
  <2> QED
    BY <2>1, <2>2
<1>10. ASSUME Distinct(s) PROVE Distinct(r) /\ s[k] \notin Range(r)
  <2>1. \A i, j \in 1 .. Len(s) - 1 : r[i] = r[j] => i = j
    <3> SUFFICES ASSUME NEW i \in 1 .. Len(s) - 1, NEW j \in 1 .. Len(s) - 1, r[i] = r[j]
                 PROVE  i = j
      OBVIOUS
    <3> DEFINE p == IF i < k THEN i ELSE i + 1
               q == IF j < k THEN j ELSE j + 1
    <3>1. p \in 1 .. Len(s) /\ q \in 1 .. Len(s) /\ (p = q => i = j)
      BY <1>1
    <3>2. r[i] = s[p] /\ r[j] = s[q]
      BY <1>5
    <3> HIDE DEF p, q
    <3> QED
      BY <1>1, <1>10, <3>1, <3>2 DEF Distinct
  <2>2. \A i \in 1 .. Len(s) - 1 : r[i] # s[k]
    BY <1>1, <1>5, <1>7, <1>10 DEF Distinct
  <2> QED
    BY <1>6, <2>1, <2>2 DEF Distinct, Range
<1> QED
  BY <1>5, <1>8, <1>9, <1>10 DEF r

-----------------------------------------------------------------------------
(* Type correctness, in four parts.                                          *)

GoalType == goal \in Goal /\ view \in Goal

FlagType ==
  /\ failed \in BOOLEAN /\ armed \in BOOLEAN /\ aborted \in BOOLEAN /\ wake \in BOOLEAN
  /\ competing \in BOOLEAN /\ checkpoint \in BOOLEAN /\ requested \in BOOLEAN
  /\ joining \in BOOLEAN /\ halted \in BOOLEAN

WayType == way \in {"fenced", "late", "unfenced"}

PlaceType ==
  /\ phase \in {"idle", "maintenance", "running"}
  /\ pc \in {"off", "waking", "begin", "claim", "prepare", "inner", "admit",
             "rejected", "step", "ended", "settling", "replay"}
  /\ run \in {"none", "drive", "flush", "children", "again", "retire"}
  /\ plugin \in {"active", "closing", "gone"}

QueueType ==
  /\ nextTurn \in Seq(Human \cup Round)
  /\ nextStep \subseteq Human /\ batch \subseteq Human \cup Round
  /\ unsent \subseteq Human /\ settled \subseteq Human
  /\ loose \subseteq 1 .. MaxRounds

AttemptType == attempt \in Attempt \cup {None}

\* The next revision of a goal is a goal.
LEMMA NextFacts ==
  ASSUME NEW g \in Goal
  PROVE  /\ NextRef(g) \in Goal
         /\ NextRef(g).ref = g.ref + 1 /\ NextRef(g).phase = g.phase
         /\ g.ref \in Nat /\ g.rounds \in Nat
  BY DEF Goal, NextRef

\* Goals in another phase, or with another cap.
LEMMA GoalFacts ==
  ASSUME NEW g \in Goal
  PROVE  /\ NoGoal \in Goal
         /\ [NoGoal EXCEPT !.ref = g.ref] \in Goal /\ [NoGoal EXCEPT !.ref = g.ref].ref = g.ref
         /\ \A c \in Cap : [phase |-> "active", ref |-> g.ref, rounds |-> 0, cap |-> c] \in Goal
         /\ g.phase # "none" =>
              /\ \A p \in {"active", "paused", "blocked", "complete"} :
                   /\ [g EXCEPT !.phase = p] \in Goal
                   /\ [g EXCEPT !.phase = p].ref = g.ref /\ [g EXCEPT !.phase = p].phase = p
              /\ \A c \in Cap : /\ [g EXCEPT !.cap = c] \in Goal
                               /\ [g EXCEPT !.cap = c].ref = g.ref
              /\ \A r \in Nat : [g EXCEPT !.rounds = r] \in Goal
  BY DEF Goal, NoGoal

\* What is left of an attempt when one of its fields changes.
LEMMA AttemptFacts ==
  ASSUME NEW a \in Attempt
  PROVE  /\ a.of \in Round /\ a # None
         /\ \A p \in {"queued", "claimed", "admitted"} :
              /\ [a EXCEPT !.at = p] \in Attempt /\ [a EXCEPT !.at = p] # None
              /\ [a EXCEPT !.at = p].of = a.of /\ [a EXCEPT !.at = p].at = p
              /\ [a EXCEPT !.at = p].cancelled = a.cancelled
         /\ [a EXCEPT !.stale = TRUE] \in Attempt /\ [a EXCEPT !.stale = TRUE] # None
         /\ [a EXCEPT !.stale = TRUE].of = a.of /\ [a EXCEPT !.stale = TRUE].at = a.at
         /\ [a EXCEPT !.stale = TRUE].cancelled = a.cancelled
         /\ [a EXCEPT !.cancelled = TRUE] \in Attempt /\ [a EXCEPT !.cancelled = TRUE] # None
         /\ [a EXCEPT !.cancelled = TRUE].of = a.of /\ [a EXCEPT !.cancelled = TRUE].at = a.at
         /\ [a EXCEPT !.cancelled = TRUE].cancelled
<1> USE NoneAssumption DEF Attempt
<1>1. \A p \in {"queued", "claimed", "admitted"} :
              /\ [a EXCEPT !.at = p] \in Attempt
              /\ [a EXCEPT !.at = p].of = a.of /\ [a EXCEPT !.at = p].at = p
              /\ [a EXCEPT !.at = p].cancelled = a.cancelled
  OBVIOUS
<1>2. /\ [a EXCEPT !.stale = TRUE] \in Attempt
      /\ [a EXCEPT !.stale = TRUE].of = a.of /\ [a EXCEPT !.stale = TRUE].at = a.at
      /\ [a EXCEPT !.stale = TRUE].cancelled = a.cancelled
  OBVIOUS
<1>3. /\ [a EXCEPT !.cancelled = TRUE] \in Attempt
      /\ [a EXCEPT !.cancelled = TRUE].of = a.of /\ [a EXCEPT !.cancelled = TRUE].at = a.at
      /\ [a EXCEPT !.cancelled = TRUE].cancelled
  OBVIOUS
<1>4. a.of \in Round
  OBVIOUS
<1> HIDE DEF Attempt
<1> QED
  BY <1>1, <1>2, <1>3, <1>4

-----------------------------------------------------------------------------
(* The strengthening.                                                        *)

Rounds == QueuedRounds \cup claimedRounds

\* A turn holds a batch only between its claim and the step.
BatchInv == batch # {} => phase = "running" /\ pc \in {"prepare", "inner", "admit"}

\* The driver runs exactly while the phase says so; a queued prompt is published
\* from within a pass.
PhaseInv ==
  /\ phase = "running" <=> pc \notin {"off", "waking", "replay"}
  /\ phase = "maintenance" => pc = "off"
  /\ pc = "waking" => run = "again"

\* A message of a person is in one place, and everything is queued once.
PlacesInv ==
  /\ \A h \in Human : h \in unsent \cup Queued \cup nextStep \cup batch \cup settled
  /\ unsent \cap (Queued \cup nextStep \cup batch \cup settled) = {}
  /\ Queued \cap (nextStep \cup batch \cup settled) = {}
  /\ nextStep \cap (batch \cup settled) = {}
  /\ batch \cap settled = {}
  /\ Distinct(nextTurn)

\* Rounds are known by their ids, and a turn claims one at a time.
IdsInv ==
  /\ \A i, j \in Rounds : i.id = j.id => i = j
  /\ \A i, j \in claimedRounds : i = j

\* Without the plugin nothing is reserved, and every round is on its own.
GoneInv == plugin = "gone" =>
  attempt = None /\ run = "none" /\ \A i \in Rounds : i.id \in loose

\* The reservation is no twin of another round, is claimed once, and waits in the
\* queue of an idle agent only until its wake.
AttemptInv == attempt # None =>
  /\ \A i \in Rounds : i # attempt.of /\ Same(i, attempt.of) => attempt.of.id \in loose
  /\ attempt.of \in QueuedRounds /\ attempt.of.id \notin loose =>
       /\ attempt.at = "queued"
       /\ phase = "idle" => pc = "waking"
       /\ phase = "maintenance" => wake

\* Between the two fences the attempt is for the claimed round.
InnerInv == pc = "inner" =>
  \E i \in claimedRounds : attempt # None => Same(i, attempt.of)

\* Behind a fence the claimed round is no reservation any more; nothing is being
\* reserved while a round is claimed, or after a failure of the replay.
ReservedInv ==
  /\ run = "children" => attempt = None
  /\ failed \/ (pc \in {"inner", "admit"} /\ claimedRounds # {}) =>
       run # "children" /\ (attempt = None \/ attempt.at # "queued")

\* Rounds are for the goal or an earlier revision of it, within its cap.
CapInv ==
  /\ \A i \in Rounds : /\ i.ref <= goal.ref
                       /\ i.ref = goal.ref => i.round <= goal.cap
  /\ run = "children" => /\ view.phase = "active" /\ view.ref <= goal.ref
                         /\ view.ref = goal.ref => view.cap = goal.cap

\* A round that has passed the fences in time is the goal's next.
AdmitInv == pc = "admit" /\ way = "fenced" => \A i \in claimedRounds :
  goal.phase = "active" /\ i.ref = goal.ref /\ i.round = goal.rounds + 1 /\ i.round <= goal.cap

\* A round behind a fence has an attempt, and an unload has aborted its turn.
FenceInv == \A i \in claimedRounds : pc \in {"inner", "admit"} /\ i.id \notin loose =>
  /\ ~halted /\ attempt # None
  /\ plugin = "closing" => aborted

\* After a cancelled turn the goal is not armed, or is about to be paused.
HaltInv == halted =>
  \/ failed \/ ~drivable(goal)
  \/ /\ pc = "settling" /\ plugin = "active"
     /\ attempt # None /\ attempt.cancelled /\ attempt.of.ref = goal.ref

IInv ==
  /\ TypeOK
  /\ BatchInv /\ PhaseInv /\ PlacesInv /\ IdsInv /\ GoneInv /\ RoundsAreWatched
  /\ AttemptInv /\ InnerInv /\ ReservedInv /\ CapInv /\ AdmitInv
  /\ FenceInv /\ HaltInv

-----------------------------------------------------------------------------
(* What steps do to the queue.                                               *)

\* The queue keeps its type; it holds S instead, each once if that was so.
Holds(S) ==
  /\ nextTurn' \in Seq(Human \cup Round)
  /\ Distinct(nextTurn) => Queued' = S /\ Distinct(nextTurn')

\* An unchanged queue holds what it held.
LEMMA SameQueue ==
  ASSUME QueueType, nextTurn' = nextTurn
  PROVE  Holds(Queued) /\ Queued' = Queued
  BY DEF Holds, Queued, QueueType

\* An emptied queue holds nothing.
LEMMA EmptyQueue ==
  ASSUME nextTurn' = <<>>
  PROVE  Holds({}) /\ Queued' = {}
<1>1. DOMAIN <<>> = {}
  BY EmptySeq
<1> QED
  BY <1>1, EmptySeq DEF Holds, Queued, Distinct, Range

\* A message that is sent goes to the end of the queue, or to the next step.
LEMMA SendQueue ==
  ASSUME QueueType, NEW h \in Human, NEW list, Send(h, list)
  PROVE  \/ Queued' = Queued \cup {h} /\ nextStep' = nextStep
            /\ (h \notin Queued => Holds(Queued \cup {h}))
            /\ nextTurn' \in Seq(Human \cup Round)
         \/ Holds(Queued) /\ Queued' = Queued /\ nextStep' = nextStep \cup {h}
<1>1. CASE nextTurn' = Append(nextTurn, h) /\ nextStep' = nextStep
  BY <1>1, AppendQueue DEF QueueType, Holds, Queued
<1>2. CASE nextTurn' = nextTurn /\ nextStep' = nextStep \cup {h}
  BY <1>2, SameQueue
<1> QED
  BY <1>1, <1>2 DEF Send

\* A turn claims the head of the queue, or finds it empty.
LEMMA ClaimQueue ==
  ASSUME QueueType, Claim, ~aborted
  PROVE  \/ Holds(Queued) /\ Queued' = Queued /\ batch' = nextStep /\ attempt' = attempt
         \/ \E m \in Queued : /\ m \in Human \cup Round
                              /\ Holds(Queued \ {m}) /\ Queued' \subseteq Queued
                              /\ batch' = nextStep \cup {m} /\ Claims(m)
<1>1. CASE nextTurn = <<>>
  BY <1>1, SameQueue DEF Claim
<1>2. CASE nextTurn # <<>>
  <2>1. /\ nextTurn' = Tail(nextTurn)
        /\ batch' = nextStep \cup {Head(nextTurn)} /\ Claims(Head(nextTurn))
    BY <1>2 DEF Claim
  <2>2. /\ Head(nextTurn) \in Queued /\ Head(nextTurn) \in Human \cup Round
        /\ Holds(Queued \ {Head(nextTurn)}) /\ Queued' \subseteq Queued
    BY <1>2, <2>1, TailQueue DEF QueueType, Holds, Queued
  <2> QED
    BY <2>1, <2>2
<1> QED
  BY <1>1, <1>2

\* Settling takes the reservation out of the queue, or nothing.
LEMMA WithdrawQueue ==
  ASSUME QueueType, NEW queued \in BOOLEAN, Withdraws(queued)
  PROVE  /\ Queued' \subseteq Queued
         /\ Holds(IF queued THEN Queued \ {attempt.of} ELSE Queued)
<1>1. CASE queued /\ attempt.of \in Queued
  <2>1. PICK k \in DOMAIN nextTurn : nextTurn[k] = attempt.of /\ nextTurn' = RemoveAt(nextTurn, k)
    BY <1>1 DEF Withdraws
  <2> QED
    BY <1>1, <2>1, RemoveQueue DEF QueueType, Holds, Queued
<1>2. CASE ~(queued /\ attempt.of \in Queued)
  <2>1. nextTurn' = nextTurn
    BY <1>2 DEF Withdraws
  <2> QED
    BY <1>2, <2>1, SameQueue
<1> QED
  BY <1>1, <1>2

-----------------------------------------------------------------------------
(* What a pass of drive() does to the rounds: nothing, a change of the goal  *)
(* included; it drops the attempt of the last round; or it reserves one.     *)

\* A change of the goal is late for a step that the fences let pass.
LateNow == way' = IF pc = "admit" /\ way = "fenced" THEN "late" ELSE way

\* The plugin changes the goal itself.
OwnChange(p) ==
  /\ goal' \in Goal /\ goal'.ref = goal.ref + 1 /\ goal'.phase = p
  /\ armed' = FALSE /\ LateNow

PassRests ==
  /\ UNCHANGED <<attempt, nextTurn, pc, wake, loose>>
  /\ \/ UNCHANGED <<goal, way>> /\ (armed' = armed \/ Disarms)
     \/ OwnChange("blocked")
  /\ run' = "children" =>
       /\ view' = goal /\ goal' = goal /\ attempt = None /\ ~failed /\ drivable(goal)
       /\ phase # "running"

PassDrops ==
  /\ attempt # None /\ attempt' = None
  /\ phase # "running" /\ plugin = "active" /\ run' # "children"
  /\ loose' = IF phase = "maintenance" THEN loose \cup {attempt.of.id} ELSE loose
  /\ UNCHANGED <<goalVars, way, nextTurn, pc, wake>>

PassReserves(r) ==
  /\ attempt = None /\ ~failed /\ phase # "running" /\ plugin = "active" /\ run' = "again"
  /\ attempt' \in Attempt /\ attempt' # None /\ attempt'.of = r /\ attempt'.at = "queued"
  /\ \A i \in Rounds : i.id # r.id
  /\ r.ref <= goal.ref /\ (r.ref = goal.ref => r.round <= goal.cap)
  /\ nextTurn' = Append(nextTurn, r)
  /\ IF phase = "idle" THEN pc' = "waking" /\ wake' = wake ELSE wake' = TRUE /\ pc' = pc
  /\ loose' \subseteq loose \cup {r.id} /\ loose \subseteq loose' \cup {r.id}
  /\ (\E i \in Rounds : i.id \in loose /\ Same(i, r)) => r.id \in loose'
  /\ UNCHANGED <<goalVars, way>>

PassKeeps ==
  /\ run \in {"drive", "flush", "children"} /\ run' \in {"flush", "children", "again"}
  /\ run = "drive" \/ pc \notin {"waking", "begin", "claim", "ended", "replay"}
  /\ UNCHANGED <<failed, halted, phase, aborted, nextStep, batch, competing, plugin,
                 joining, unsent, settled>>
  /\ view' \in Goal /\ requested' \in BOOLEAN /\ checkpoint' \in BOOLEAN

\* What the calls of the goal service do.
CallerMoves ==
  /\ goal' \in Goal /\ goal'.ref = goal.ref + 1
  /\ LateNow
  /\ ~failed /\ halted' = FALSE /\ Free
  /\ UNCHANGED <<failed, inboxVars, attempt, competing, view, pluginVars, unsent,
                 settled, loose, phase, wake, pc>>
  /\ run' = run \/ (run = "none" /\ run' = "drive" /\ plugin = "active")
  /\ aborted => aborted'

\* A round that is queued for v is new, and within v's cap.
LEMMA QueuesCase ==
  ASSUME NEW v \in Goal, Queues(v), v.rounds < v.cap,
         attempt = None, ~failed, phase # "running", plugin = "active", run' = "again",
         v.ref <= goal.ref, v.ref = goal.ref => v.cap = goal.cap
  PROVE  \E r \in Round : PassReserves(r)
<1>1. v.ref \in Nat /\ v.rounds \in Nat
  BY DEF Goal
<1>2. v.cap \in Nat
  <2>1. v.cap \in Cap \/ v.cap = 0
    BY DEF Goal
  <2>2. CASE v.cap = 0
    BY <2>2
  <2>3. CASE v.cap \in Cap
    BY <2>3, CapAssumption
  <2> QED
    BY <2>1, <2>2, <2>3
<1> DEFINE used == QueuedRounds \cup claimedRounds
           r(id) == [id |-> id, ref |-> v.ref, round |-> v.rounds + 1]
<1>3. PICK id \in 1 .. MaxRounds :
        /\ id \notin Ids(used)
        /\ attempt' = [of |-> r(id), at |-> "queued", cancelled |-> FALSE, stale |-> FALSE]
        /\ nextTurn' = Append(nextTurn, r(id))
        /\ IF phase = "idle" THEN pc' = "waking" /\ UNCHANGED wake
           ELSE wake' = TRUE /\ UNCHANGED pc
        /\ loose' = IF \E i \in used : i.id \in loose /\ Same(i, r(id))
                      THEN loose \cup {id} ELSE loose \ {id}
        /\ NoChange
  BY DEF Queues
<1>4. r(id) \in Round /\ r(id).id = id /\ r(id).ref = v.ref /\ r(id).round = v.rounds + 1
  BY <1>1 DEF Round
<1>5. \A i \in Rounds : i.id # id
  BY <1>3 DEF Rounds, Ids
<1>6. v.rounds + 1 <= v.cap
  BY <1>1, <1>2
<1> HIDE DEF r
<1>7. /\ loose' \subseteq loose \cup {id} /\ loose \subseteq loose' \cup {id}
      /\ (\E i \in Rounds : i.id \in loose /\ Same(i, r(id))) => id \in loose'
  BY <1>3 DEF Rounds
<1>8. UNCHANGED <<goalVars, way>>
  BY <1>3 DEF NoChange, goalVars
<1>9. attempt = None /\ ~failed /\ phase # "running" /\ plugin = "active" /\ run' = "again"
  OBVIOUS
<1>10. r(id).ref <= goal.ref /\ (r(id).ref = goal.ref => r(id).round <= goal.cap)
  BY <1>4, <1>6
<1>11. IF phase = "idle" THEN pc' = "waking" /\ wake' = wake ELSE wake' = TRUE /\ pc' = pc
  BY <1>3
<1>12. /\ attempt' \in Attempt /\ attempt' # None
       /\ attempt'.of = r(id) /\ attempt'.at = "queued"
  <2>1. attempt' \in Attempt /\ attempt'.of = r(id) /\ attempt'.at = "queued"
    BY <1>3, <1>4 DEF Attempt
  <2> QED
    BY <2>1, NoneAssumption
<1>13. PassReserves(r(id))
  BY <1>12, <1>3, <1>4, <1>5, <1>7, <1>8, <1>9, <1>10, <1>11 DEF PassReserves
<1> QED
  BY <1>4, <1>13

\* What the plugin makes of an active goal.
LEMMA OwnChanges ==
  ASSUME goal \in Goal, goal.phase = "active", NEW p \in {"blocked", "paused"},
         Changed(NextRef([goal EXCEPT !.phase = p]), FALSE)
  PROVE  OwnChange(p)
<1> DEFINE g == [goal EXCEPT !.phase = p]
<1>1. g \in Goal /\ g.ref = goal.ref /\ g.phase = p
  <2>1. p \in {"active", "paused", "blocked", "complete"} /\ goal.phase # "none"
    OBVIOUS
  <2> QED
    BY <2>1, GoalFacts
<1>2. NextRef(g) \in Goal /\ NextRef(g).ref = g.ref + 1 /\ NextRef(g).phase = g.phase
  BY <1>1, NextFacts
<1>3. goal' = NextRef(g) /\ armed' = FALSE /\ LateNow
  BY DEF Changed, LateNow
<1> QED
  BY <1>1, <1>2, <1>3 DEF OwnChange

\* A reservation is made, or nothing but the goal changes.
LEMMA ReservesCase ==
  ASSUME GoalType, NEW v \in Goal, Reserves(v),
         attempt = None, ~failed, phase # "running", plugin = "active",
         v.ref <= goal.ref, v.ref = goal.ref => v.cap = goal.cap, v.phase = "active"
  PROVE  PassRests \/ \E r \in Round : PassReserves(r)
<1>1. run' = "again" /\ run' # "children"
  BY DEF Reserves, Passes
<1>2. CASE v.rounds < v.cap /\ Queues(v)
  BY <1>1, <1>2, QueuesCase
<1>3. CASE Exhausts(v)
  <2>1. UNCHANGED <<attempt, nextTurn, pc, wake, loose>>
    BY <1>3 DEF Exhausts, QueueRest
  <2>2. \/ UNCHANGED <<goal, way>> /\ Disarms
        \/ goal.phase = "active" /\ Changed(NextRef([goal EXCEPT !.phase = "blocked"]), FALSE)
    BY <1>3 DEF Exhausts, Blocks, DriverChange
  <2>3. (UNCHANGED <<goal, way>> /\ Disarms) \/ OwnChange("blocked")
    BY <2>2, OwnChanges DEF GoalType
  <2> QED
    BY <1>1, <2>1, <2>3 DEF PassRests
<1>4. CASE QueueFails(v)
  <2>1. UNCHANGED <<attempt, nextTurn, pc, wake, loose>>
    BY <1>4 DEF QueueFails, QueueRest
  <2>2. \/ UNCHANGED <<goal, way>> /\ armed' = armed
        \/ goal.phase = "active" /\ Changed(NextRef([goal EXCEPT !.phase = "blocked"]), FALSE)
    BY <1>4 DEF QueueFails, Blocks, DriverChange, NoChange, goalVars, drivable
  <2>3. (UNCHANGED <<goal, way>> /\ armed' = armed) \/ OwnChange("blocked")
    BY <2>2, OwnChanges DEF GoalType
  <2> QED
    BY <1>1, <2>1, <2>3 DEF PassRests
<1> QED
  BY <1>2, <1>3, <1>4 DEF Reserves

\* Nothing is reserved.
LEMMA SkipsCase ==
  ASSUME Skips, run' # "children"
  PROVE  PassRests
  BY DEF Skips, NoChange, QueueRest, PassRests, goalVars

\* From the look at the attempt on.
LEMMA ProceedsCase ==
  ASSUME GoalType, Proceeds, readyToDrive
  PROVE  PassRests \/ PassDrops \/ \E r \in Round : PassReserves(r)
<1>1. phase # "running" /\ plugin = "active"
  BY DEF readyToDrive
<1>2. CASE attempt # None
  <2>1. /\ attempt' = None /\ run' = "again"
        /\ loose' = IF phase = "maintenance" THEN loose \cup {attempt.of.id} ELSE loose
        /\ UNCHANGED <<goalVars, way, nextTurn, pc, wake>>
    BY <1>2 DEF Proceeds, Passes
  <2> QED
    BY <1>1, <1>2, <2>1 DEF PassDrops
<1>3. CASE attempt = None /\ Passes /\ Skips
  BY <1>3, SkipsCase DEF Passes
<1>4. CASE /\ attempt = None /\ ~failed /\ drivable(goal)
           /\ run' = "children" /\ view' = goal /\ Skips
  <2>1. /\ UNCHANGED <<attempt, nextTurn, pc, wake, loose>>
        /\ UNCHANGED <<goal, way>> /\ armed' = armed
    BY <1>4 DEF Skips, NoChange, QueueRest, goalVars
  <2> QED
    BY <1>1, <1>4, <2>1 DEF PassRests
<1>5. CASE attempt = None /\ ~failed /\ drivable(goal) /\ Reserves(goal)
  <2>1. goal.ref <= goal.ref /\ goal.phase = "active"
    BY <1>5 DEF drivable, GoalType, Goal
  <2> QED
    BY <1>1, <1>5, <2>1, ReservesCase DEF GoalType
<1> QED
  BY <1>2, <1>3, <1>4, <1>5 DEF Proceeds

\* What a pass leaves alone.
LEMMA PassLeaves ==
  ASSUME GoalType, FlagType, Drive \/ Flushed \/ WaitFails \/ ChildrenSettle
  PROVE  PassKeeps
<1>1. /\ run \in {"drive", "flush", "children"}
      /\ run = "drive" \/ pc \notin {"waking", "begin", "claim", "ended", "replay"}
  BY DEF Drive, Flushed, WaitFails, ChildrenSettle, Awaiting
<1>2. UNCHANGED <<phase, aborted, nextStep, batch, competing, pluginVars, unsent>>
  BY DEF Drive, Flushed, WaitFails, ChildrenSettle, DriverRest
<1>3. /\ Proceeds => UNCHANGED <<failed, halted, settled>> /\ run' \in {"flush", "children", "again"}
      /\ \A v : Reserves(v) => UNCHANGED <<failed, halted, settled>> /\ run' \in {"flush", "children", "again"}
      /\ Skips => UNCHANGED <<failed, halted, settled>>
  BY DEF Proceeds, Reserves, Skips, Passes, Queues, Exhausts, QueueFails, Blocks, DriverChange,
         NoChange, QueueRest, goalVars
<1>4. UNCHANGED <<failed, halted, settled>>
  <2>1. CASE Drive
    BY <1>3, <2>1 DEF Drive, goalVars, history
  <2>2. CASE Flushed
    BY <1>3, <2>2 DEF Flushed
  <2>3. CASE WaitFails
    BY <2>3 DEF WaitFails
  <2>4. CASE ChildrenSettle
    BY <1>3, <2>4 DEF ChildrenSettle
  <2> QED
    BY <2>1, <2>2, <2>3, <2>4
<1>5. run' \in {"flush", "children", "again"}
  BY <1>3 DEF Drive, Flushed, WaitFails, ChildrenSettle, Passes
<1>6. view' \in Goal
  <2>1. view' \in {view, goal, NoGoal}
    BY DEF Drive, Flushed, WaitFails, ChildrenSettle, Proceeds
  <2> QED
    BY <2>1, GoalFacts DEF GoalType
<1>7. requested' \in {requested, TRUE}
  BY DEF Drive, Flushed, WaitFails, ChildrenSettle, Proceeds, Reserves, Queues, Exhausts,
         QueueFails, Blocks
<1>8. checkpoint' \in {checkpoint, TRUE, FALSE} \/ checkpoint' = (plugin # "gone" \/ checkpoint)
  BY DEF Drive, Flushed, WaitFails, ChildrenSettle, Proceeds, Reserves, Queues, Exhausts,
         QueueFails, Blocks, DriverChange, Changed, Skips, NoChange
<1>9. requested' \in BOOLEAN
  BY <1>7 DEF FlagType
<1>10. checkpoint' \in BOOLEAN
  BY <1>8 DEF FlagType
<1> QED
  BY <1>1, <1>2, <1>4, <1>5, <1>6, <1>9, <1>10 DEF PassKeeps, pluginVars

\* Every pass is one of the three.
LEMMA PassCases ==
  ASSUME GoalType, FlagType, ReservedInv, CapInv, Drive \/ Flushed \/ WaitFails \/ ChildrenSettle
  PROVE  PassKeeps /\ (PassRests \/ PassDrops \/ \E r \in Round : PassReserves(r))
<1> SUFFICES PassRests \/ PassDrops \/ \E r \in Round : PassReserves(r)
  BY PassLeaves
<1>1. CASE Drive
  <2>1. CASE Proceeds /\ readyToDrive
    BY <2>1, ProceedsCase
  <2>2. CASE Passes /\ Skips
    BY <2>2, SkipsCase DEF Passes
  <2>3. CASE run' = "flush" /\ UNCHANGED <<goalVars, attempt, nextTurn, pc, wake, history>>
    BY <2>3 DEF PassRests, goalVars, history
  <2> QED
    BY <1>1, <2>1, <2>2, <2>3 DEF Drive
<1>2. CASE Flushed
  <2>1. CASE Proceeds /\ readyToDrive
    BY <2>1, ProceedsCase
  <2>2. CASE Passes /\ Skips
    BY <2>2, SkipsCase DEF Passes
  <2> QED
    BY <1>2, <2>1, <2>2 DEF Flushed, readyAfterCheckpoint
<1>3. CASE WaitFails
  <2>1. /\ run' = "again" /\ Disarms
        /\ UNCHANGED <<goal, way, attempt, nextTurn, pc, wake, loose>>
    BY <1>3 DEF WaitFails, Passes
  <2> QED
    BY <1>3, <2>1 DEF PassRests
<1>4. CASE ChildrenSettle
  <2>1. CASE Reserves(view) /\ readyToDrive
    <3>1. phase # "running" /\ plugin = "active"
      BY <2>1 DEF readyToDrive
    <3>2. run = "children" /\ attempt = None /\ ~failed
      BY <1>4 DEF ChildrenSettle, ReservedInv
    <3>3. /\ view.phase = "active" /\ view.ref <= goal.ref
          /\ view.ref = goal.ref => view.cap = goal.cap
      BY <3>2 DEF CapInv
    <3> QED
      BY <2>1, <3>1, <3>2, <3>3, ReservesCase DEF GoalType
  <2>2. CASE Passes /\ Skips
    BY <2>2, SkipsCase DEF Passes
  <2> QED
    BY <1>4, <2>1, <2>2 DEF ChildrenSettle, readyAfterCheckpoint
<1> QED
  BY <1>1, <1>2, <1>3, <1>4

\* A change that a caller asks for.
LEMMA Mutated ==
  ASSUME NEW g \in Goal, g.ref = goal.ref, NEW a, Mutates(g, a),
         UNCHANGED <<phase, wake, pc>>, aborted => aborted'
  PROVE  CallerMoves
<1>1. NextRef(g) \in Goal /\ NextRef(g).ref = goal.ref + 1
  BY NextFacts
<1>2. goal' = NextRef(g) /\ LateNow /\ ~failed /\ halted' = FALSE /\ Free
  BY DEF Mutates, Changed, LateNow
<1>3. UNCHANGED <<failed, inboxVars, attempt, competing, view, pluginVars, unsent, settled, loose>>
  BY DEF Mutates
<1>4. run' = run \/ (run = "none" /\ run' = "drive" /\ plugin = "active")
  BY DEF Mutates, Requests
<1> QED
  BY <1>1, <1>2, <1>3, <1>4 DEF CallerMoves

\* What a caller does to the goal, without the shape of the change.
LEMMA CallerCases ==
  ASSUME goal \in Goal, GoalCaller
  PROVE  CallerMoves
<1> USE GoalFacts, Mutated DEF agentVars
<1>1. ASSUME NEW c \in Cap, Create(c) PROVE CallerMoves
  <2> DEFINE g == [phase |-> "active", ref |-> goal.ref, rounds |-> 0, cap |-> c]
  <2>1. g \in Goal /\ g.ref = goal.ref /\ Mutates(g, TRUE)
    BY <1>1 DEF Create
  <2> HIDE DEF g
  <2> QED
    BY <1>1, <2>1 DEF Create
<1>2. ASSUME NEW c \in Cap, Edit(c) PROVE CallerMoves
  <2> DEFINE g == [goal EXCEPT !.cap = c]
  <2>1. g \in Goal /\ g.ref = goal.ref /\ Mutates(g, armed)
    BY <1>2 DEF Edit
  <2> HIDE DEF g
  <2> QED
    BY <1>2, <2>1 DEF Edit
<1>3. CASE Pause
  <2> DEFINE g == [goal EXCEPT !.phase = "paused"]
  <2>1. g \in Goal /\ g.ref = goal.ref /\ Mutates(g, FALSE)
    BY <1>3 DEF Pause
  <2> HIDE DEF g
  <2> QED
    BY <1>3, <2>1 DEF Pause
<1>4. CASE ModelPause
  <2> DEFINE g == [goal EXCEPT !.phase = "paused"]
  <2>1. g \in Goal /\ g.ref = goal.ref /\ Mutates(g, FALSE)
    BY <1>4 DEF ModelPause
  <2> HIDE DEF g
  <2> QED
    BY <1>4, <2>1 DEF ModelPause
<1>5. CASE Resume
  <2> DEFINE g == [goal EXCEPT !.phase = "active"]
  <2>1. g \in Goal /\ g.ref = goal.ref /\ Mutates(g, TRUE)
    BY <1>5 DEF Resume
  <2> HIDE DEF g
  <2> QED
    BY <1>5, <2>1 DEF Resume
<1>6. CASE Complete
  <2> DEFINE g == [goal EXCEPT !.phase = "complete"]
  <2>1. g \in Goal /\ g.ref = goal.ref /\ Mutates(g, FALSE)
    BY <1>6 DEF Complete
  <2> HIDE DEF g
  <2> QED
    BY <1>6, <2>1 DEF Complete
<1>7. CASE Block
  <2> DEFINE g == [goal EXCEPT !.phase = "blocked"]
  <2>1. g \in Goal /\ g.ref = goal.ref /\ Mutates(g, FALSE)
    BY <1>7 DEF Block
  <2> HIDE DEF g
  <2> QED
    BY <1>7, <2>1 DEF Block
<1>8. CASE Clear
  <2> DEFINE g == [NoGoal EXCEPT !.ref = goal.ref]
  <2>1. g \in Goal /\ g.ref = goal.ref /\ Mutates(g, FALSE)
    BY <1>8 DEF Clear
  <2> HIDE DEF g
  <2> QED
    BY <1>8, <2>1 DEF Clear
<1> QED
  BY <1>1, <1>2, <1>3, <1>4, <1>5, <1>6, <1>7, <1>8 DEF GoalCaller

-----------------------------------------------------------------------------
(* What steps do to the rounds.                                              *)

\* Where the queue and the batch stay, or lose their rounds.
LEMMA RoundsFacts ==
  /\ nextTurn' = nextTurn => Queued' = Queued /\ QueuedRounds' = QueuedRounds
  /\ nextTurn' = <<>> => Queued' = {} /\ QueuedRounds' = {}
  /\ batch' = batch => claimedRounds' = claimedRounds
  /\ batch' \subseteq Human => claimedRounds' = {}
  /\ Rounds = QueuedRounds \cup claimedRounds
  /\ Rounds' = QueuedRounds' \cup claimedRounds'
  /\ QueuedRounds \subseteq Queued /\ (claimedRounds # {} => batch # {})
<1>1. nextTurn' = <<>> => Queued' = {}
  BY EmptyQueue
<1> QED
  BY <1>1 DEF Queued, QueuedRounds, claimedRounds, Rounds

\* What people send is no round.
LEMMA SendRounds ==
  ASSUME QueueType, NEW h \in Human, NEW list, Send(h, list)
  PROVE  QueuedRounds' = QueuedRounds /\ claimedRounds' = claimedRounds
<1>1. batch' = batch
  BY DEF Send
<1> QED
  BY <1>1, SendQueue DEF QueuedRounds, claimedRounds

\* A turn claims no round or one.
LEMMA ClaimRounds ==
  ASSUME QueueType, PlacesInv, Claim, ~aborted
  PROVE  \/ QueuedRounds' = QueuedRounds /\ claimedRounds' = {} /\ attempt' = attempt
         \/ \E m \in QueuedRounds :
              QueuedRounds' = QueuedRounds \ {m} /\ claimedRounds' = {m} /\ Claims(m)
<1>1. CASE Holds(Queued) /\ Queued' = Queued /\ batch' = nextStep /\ attempt' = attempt
  BY <1>1 DEF QueuedRounds, claimedRounds, QueueType
<1>2. ASSUME NEW m \in Queued, m \in Human \cup Round, Holds(Queued \ {m}),
             batch' = nextStep \cup {m}, Claims(m)
      PROVE  \/ QueuedRounds' = QueuedRounds /\ claimedRounds' = {} /\ attempt' = attempt
             \/ m \in QueuedRounds /\ QueuedRounds' = QueuedRounds \ {m} /\ claimedRounds' = {m}
  <2>1. Queued' = Queued \ {m}
    BY <1>2 DEF Holds, PlacesInv
  <2>2. CASE m \in Human
    <3>1. QueuedRounds' = QueuedRounds /\ claimedRounds' = {}
      BY <1>2, <2>1, <2>2 DEF QueuedRounds, claimedRounds, QueueType
    <3>2. attempt' = attempt
      BY <1>2, <2>2 DEF Claims, IsAttempt
    <3> QED
      BY <3>1, <3>2
  <2>3. CASE m \notin Human
    BY <1>2, <2>1, <2>3 DEF QueuedRounds, claimedRounds, QueueType
  <2> QED
    BY <2>2, <2>3
<1> QED
  BY <1>1, <1>2, ClaimQueue

\* At idle the reservation is withdrawn, or the rounds stay.
LEMMA SettleRounds ==
  ASSUME QueueType, AttemptType, PlacesInv, Settle
  PROVE  /\ claimedRounds' = claimedRounds
         /\ \/ QueuedRounds' = QueuedRounds
               /\ ~(plugin # "gone" /\ ~failed /\ attempt # None /\ attempt.at = "queued")
            \/ /\ plugin # "gone" /\ ~failed /\ attempt # None /\ attempt.at = "queued"
               /\ attempt' = None /\ QueuedRounds' = QueuedRounds \ {attempt.of}
<1>1. batch' = batch
  BY DEF Settle
<1>2. claimedRounds' = claimedRounds
  BY <1>1 DEF claimedRounds
<1>3. CASE plugin = "gone" \/ failed
  <2>1. nextTurn' = nextTurn
    BY <1>3 DEF Settle
  <2> QED
    BY <1>2, <1>3, <2>1 DEF Queued, QueuedRounds
<1>4. CASE plugin # "gone" /\ ~failed
  <2> DEFINE queued == attempt # None /\ attempt.at = "queued"
  <2>1. Withdraws(queued) /\ (queued => attempt' = None)
    BY <1>4 DEF Settle
  <2>2. queued \in BOOLEAN
    OBVIOUS
  <2>3. Holds(IF queued THEN Queued \ {attempt.of} ELSE Queued)
    BY <2>1, <2>2, WithdrawQueue
  <2>4. Queued' = IF queued THEN Queued \ {attempt.of} ELSE Queued
    BY <2>3 DEF Holds, PlacesInv
  <2>5. queued => QueuedRounds' = QueuedRounds \ {attempt.of}
    BY <2>4 DEF QueuedRounds
  <2>6. ~queued => QueuedRounds' = QueuedRounds
    BY <2>4 DEF QueuedRounds
  <2> QED
    BY <1>2, <1>4, <2>1, <2>5, <2>6
<1> QED
  BY <1>3, <1>4

\* A reservation goes to the end of the queue.
LEMMA ReservesRounds ==
  ASSUME QueueType, PassKeeps, NEW r \in Round, PassReserves(r)
  PROVE  /\ nextTurn' \in Seq(Human \cup Round) /\ Queued' = Queued \cup {r}
         /\ QueuedRounds' = QueuedRounds \cup {r} /\ claimedRounds' = claimedRounds
<1>1. nextTurn' = Append(nextTurn, r) /\ batch' = batch
  BY DEF PassReserves, PassKeeps
<1>2. nextTurn' \in Seq(Human \cup Round) /\ Queued' = Queued \cup {r}
  BY <1>1, AppendQueue DEF QueueType, Queued
<1>3. r \notin Human
  BY HumanAssumption
<1> QED
  BY <1>1, <1>2, <1>3 DEF QueuedRounds, claimedRounds

\* What is queued or claimed and no message of a person is a round.
LEMMA RoundTypes ==
  ASSUME QueueType
  PROVE  Rounds \subseteq Round
<1>1. Queued \subseteq Human \cup Round
  <2>1. DOMAIN nextTurn = 1 .. Len(nextTurn)
    BY LenProperties DEF QueueType
  <2>2. \A k \in 1 .. Len(nextTurn) : nextTurn[k] \in Human \cup Round
    BY ElementOfSeq DEF QueueType
  <2> QED
    BY <2>1, <2>2 DEF Queued, Range
<1> QED
  BY <1>1 DEF Rounds, QueuedRounds, claimedRounds, QueueType

-----------------------------------------------------------------------------
(* What steps do to the attempt and to the goal.                             *)

\* The attempt keeps its round and its phase; it may be marked.
Marked ==
  \/ attempt' = attempt
  \/ /\ attempt # None /\ attempt' # None /\ attempt' \in Attempt
     /\ attempt'.of = attempt.of /\ attempt'.at = attempt.at
     /\ attempt.cancelled => attempt'.cancelled

\* A record that is updated in these two flags.
LEMMA FlagsMark ==
  ASSUME NEW a \in Attempt, NEW b, attempt = a,
         \/ attempt' = [a EXCEPT !.stale = TRUE]
         \/ attempt' = [a EXCEPT !.cancelled = TRUE]
         \/ attempt' = [a EXCEPT !.stale = TRUE, !.cancelled = @ \/ b]
  PROVE  Marked /\ attempt' # None
<1>1. CASE attempt' = [a EXCEPT !.stale = TRUE]
  <2> DEFINE s == [a EXCEPT !.stale = TRUE]
  <2>1. /\ s \in Attempt /\ s # None /\ s.of = a.of /\ s.at = a.at /\ a # None
        /\ s.cancelled = a.cancelled
    BY AttemptFacts
  <2> HIDE DEF s
  <2>2. attempt' = s
    BY <1>1 DEF s
  <2> QED
    BY <2>1, <2>2 DEF Marked
<1>2. CASE attempt' = [a EXCEPT !.cancelled = TRUE]
  <2> DEFINE s == [a EXCEPT !.cancelled = TRUE]
  <2>1. /\ s \in Attempt /\ s # None /\ s.of = a.of /\ s.at = a.at /\ a # None
        /\ s.cancelled
    BY AttemptFacts
  <2> HIDE DEF s
  <2>2. attempt' = s
    BY <1>2 DEF s
  <2> QED
    BY <2>1, <2>2 DEF Marked
<1>3. CASE attempt' = [a EXCEPT !.stale = TRUE, !.cancelled = @ \/ b]
  <2> DEFINE s == [a EXCEPT !.stale = TRUE]
             t == [s EXCEPT !.cancelled = @ \/ b]
  <2>1. s \in Attempt /\ s # None /\ s.of = a.of /\ s.at = a.at /\ s.cancelled = a.cancelled
    BY AttemptFacts
  <2>2. attempt' = t
    BY <1>3
  <2> HIDE DEF s
  <2>3. t.of = s.of /\ t.at = s.at /\ t.cancelled = (s.cancelled \/ b) /\ t \in Attempt
    BY <2>1 DEF Attempt
  <2> QED
    BY <2>1, <2>2, <2>3, NoneAssumption DEF Marked
<1> QED
  BY <1>1, <1>2, <1>3

\* Prompts, cancellations and unloads mark an attempt.
LEMMA MarkedCases ==
  ASSUME AttemptType,
         \/ \E h \in Human, list \in {"next-turn", "next-step"} : Send(h, list)
         \/ Cancel \/ BeginUnload \/ Aborts \/ (Claim /\ aborted)
  PROVE  Marked
<1>1. CASE attempt' = attempt
  BY <1>1 DEF Marked
<1>2. CASE attempt' # attempt
  <2>1. CASE \E h \in Human, list \in {"next-turn", "next-step"} : Send(h, list)
    <3>1. attempt # None /\ attempt' = [attempt EXCEPT !.stale = TRUE]
      BY <1>2, <2>1 DEF Send, Competes
    <3> QED
      BY <3>1, FlagsMark DEF AttemptType
  <2>2. CASE Cancel
    <3>1. attempt # None /\ attempt' = [attempt EXCEPT !.cancelled = TRUE]
      BY <1>2, <2>2 DEF Cancel, Clears, Discards, IsAttempt
    <3> QED
      BY <3>1, FlagsMark DEF AttemptType
  <2>3. CASE BeginUnload
    <3> DEFINE b == \E i \in Queued : IsAttempt(i)
    <3>1. attempt # None
      BY <1>2, <2>3 DEF BeginUnload
    <3>2. \/ attempt' = [attempt EXCEPT !.stale = TRUE]
          \/ attempt' = [attempt EXCEPT !.stale = TRUE, !.cancelled = @ \/ b]
      BY <2>3, <3>1 DEF BeginUnload
    <3> HIDE DEF b
    <3> QED
      BY <3>1, <3>2, FlagsMark DEF AttemptType
  <2>4. CASE Aborts \/ (Claim /\ aborted)
    <3>1. attempt # None /\ attempt' = [attempt EXCEPT !.cancelled = TRUE]
      BY <1>2, <2>4 DEF Aborts, Claim, EndsAborted
    <3> QED
      BY <3>1, FlagsMark DEF AttemptType
  <2> QED
    BY <2>1, <2>2, <2>3, <2>4
<1> QED
  BY <1>1, <1>2

\* Claiming and admitting the round of the attempt moves it on.
LEMMA ClaimsMoves ==
  ASSUME AttemptType, NEW m, Claims(m)
  PROVE  \/ attempt' = attempt /\ (plugin = "gone" \/ ~IsAttempt(m))
         \/ /\ plugin # "gone" /\ IsAttempt(m) /\ attempt' # None /\ attempt' \in Attempt
            /\ attempt'.of = attempt.of /\ attempt'.at = "claimed"
<1>1. CASE plugin # "gone" /\ IsAttempt(m)
  <2> DEFINE s == [attempt EXCEPT !.at = "claimed"]
  <2>1. attempt \in Attempt
    BY <1>1 DEF AttemptType, IsAttempt
  <2>2. s \in Attempt /\ s # None /\ s.of = attempt.of /\ s.at = "claimed"
    BY <2>1, AttemptFacts
  <2> HIDE DEF s
  <2>3. attempt' = s
    BY <1>1 DEF Claims, s
  <2> QED
    BY <1>1, <2>2, <2>3
<1> QED
  BY <1>1 DEF Claims

\* An admitted attempt is an attempt for the same round.
LEMMA AttemptAdmitted ==
  ASSUME AttemptType, Admit
  PROVE  \/ attempt' = attempt
         \/ /\ attempt # None /\ attempt' # None /\ attempt' \in Attempt
            /\ plugin # "gone"
            /\ attempt'.of = attempt.of /\ attempt'.at = "admitted"
<1>1. CASE attempt' = [attempt EXCEPT !.at = "admitted"] /\ attempt # None /\ plugin # "gone"
  <2> DEFINE s == [attempt EXCEPT !.at = "admitted"]
  <2>1. attempt \in Attempt
    BY <1>1 DEF AttemptType
  <2>2. s \in Attempt /\ s # None /\ s.of = attempt.of /\ s.at = "admitted"
    BY <2>1, AttemptFacts
  <2> HIDE DEF s
  <2>3. attempt' = s
    BY <1>1 DEF s
  <2> QED
    BY <1>1, <2>2, <2>3
<1> QED
  BY <1>1 DEF Admit

\* At idle a dropped round pauses its goal.
LEMMA GoalPaused ==
  ASSUME GoalType, Settle
  PROVE  \/ UNCHANGED <<goal, armed, way>>
            /\ (attempt' = attempt \/ (attempt.at = "queued" /\ attempt' = None))
            /\ (plugin = "gone" \/ failed \/ attempt = None \/ ~attempt.cancelled
                \/ ~drivable(goal) \/ attempt.of.ref # goal.ref)
         \/ attempt' = None /\ plugin # "gone" /\ ~failed /\ OwnChange("paused")
<1>1. CASE plugin = "gone" \/ failed
  BY <1>1 DEF Settle
<1>2. CASE plugin # "gone" /\ ~failed
  <2> DEFINE pause == /\ attempt # None
                      /\ attempt.at # "admitted" \/ attempt.cancelled
                      /\ drivable(goal) /\ attempt.of.ref = goal.ref
  <2>1. CASE pause
    <3>1. /\ attempt' = None
          /\ Changed(NextRef([goal EXCEPT !.phase = "paused"]), FALSE)
      BY <1>2, <2>1 DEF Settle
    <3>2. goal.phase = "active"
      BY <2>1 DEF drivable
    <3> QED
      BY <1>2, <3>1, <3>2, OwnChanges DEF GoalType
  <2>2. CASE ~pause
    BY <1>2, <2>2 DEF Settle
  <2> QED
    BY <2>1, <2>2
<1> QED
  BY <1>1, <1>2

\* A goal whose round an inner listener rejects is blocked.
LEMMA GoalBlocked ==
  ASSUME GoalType, InnerRejects
  PROVE  UNCHANGED <<goal, armed, way>> \/ (~failed /\ OwnChange("blocked"))
<1>1. CASE UNCHANGED <<goal, armed, way>>
  BY <1>1
<1>2. CASE /\ ~failed /\ drivable(goal)
           /\ Changed(NextRef([goal EXCEPT !.phase = "blocked"]), FALSE)
  BY <1>2, OwnChanges DEF GoalType, drivable
<1> QED
  BY <1>1, <1>2 DEF InnerRejects

\* The fold keeps the goal's revision and cap.
LEMMA AdmitFolds ==
  ASSUME GoalType, QueueType, Admit
  PROVE  goal' \in Goal /\ goal'.ref = goal.ref /\ goal'.cap = goal.cap
<1>1. CASE goal' = goal
  BY <1>1 DEF GoalType
<1>2. ASSUME NEW i \in claimedRounds, goal.phase = "active",
             goal' = [goal EXCEPT !.rounds = i.round]
      PROVE  goal' \in Goal /\ goal'.ref = goal.ref /\ goal'.cap = goal.cap
  <2>1. i \in Round
    BY DEF claimedRounds, QueueType
  <2>2. i.round \in Nat
    BY <2>1 DEF Round
  <2> QED
    BY <1>2, <2>2 DEF GoalType, Goal
<1> QED
  BY <1>1, <1>2 DEF Admit, Folds

-----------------------------------------------------------------------------
(* The steps, as far as rounds, attempts and goals go.                       *)

RoundsStay == QueuedRounds' = QueuedRounds /\ claimedRounds' = claimedRounds

SendMoves ==
  /\ Free /\ Marked /\ RoundsStay
  /\ UNCHANGED <<goalVars, aborted, batch, checkpoint, run, view, plugin, halted, loose, way>>
  /\ \/ phase' = phase /\ pc' = pc /\ (wake => wake')
     \/ phase = "idle" /\ phase' = "running" /\ pc' = "begin"

CancelMoves ==
  /\ Free /\ Marked /\ QueuedRounds' = {} /\ claimedRounds' = claimedRounds
  /\ (phase # "idle" => aborted')
  /\ UNCHANGED <<goalVars, phase, pc, batch, checkpoint, run, view, plugin, halted, loose, way>>

UnloadMoves ==
  /\ plugin = "active" /\ plugin' = "closing" /\ Awaiting /\ Marked
  /\ claimedRounds' = claimedRounds
  /\ \/ QueuedRounds' = QueuedRounds /\ UNCHANGED <<aborted, wake>>
        /\ (attempt = None \/ phase # "running")
     \/ phase = "running" /\ attempt # None /\ QueuedRounds' = {} /\ aborted' = TRUE
  /\ Disarms
  /\ UNCHANGED <<goal, failed, phase, pc, batch, checkpoint, run, view, halted, loose, way>>

TurnRest ==
  UNCHANGED <<goal, failed, phase, aborted, wake, checkpoint, run, view, plugin, loose, way>>

ClaimMoves ==
  /\ pc = "claim" /\ Free /\ ~aborted /\ pc' = "prepare" /\ TurnRest
  /\ UNCHANGED <<armed, halted>>
  /\ \/ QueuedRounds' = QueuedRounds /\ claimedRounds' = {} /\ attempt' = attempt
     \/ \E m \in QueuedRounds :
          /\ QueuedRounds' = QueuedRounds \ {m} /\ claimedRounds' = {m}
          /\ \/ attempt' = attempt /\ (plugin = "gone" \/ attempt = None \/ ~Same(m, attempt.of))
             \/ /\ attempt # None /\ Same(m, attempt.of) /\ attempt' # None /\ attempt' \in Attempt
                /\ attempt'.of = attempt.of /\ attempt'.at = "claimed"

AbortMoves ==
  /\ Free /\ aborted /\ Marked /\ QueuedRounds' = QueuedRounds /\ claimedRounds' = {}
  /\ pc \in {"claim", "prepare", "inner", "admit", "rejected", "step"}
  /\ batch' = {} /\ pc' = "settling" /\ TurnRest
  /\ halted' = (plugin = "active" /\ (attempt = None \/ attempt.of.ref = goal.ref))
  /\ \/ plugin = "gone" /\ UNCHANGED <<attempt, armed>>
     \/ attempt # None /\ attempt' # None /\ attempt'.cancelled /\ armed' = armed
     \/ attempt' = attempt /\ Disarms

NextStepMoves ==
  /\ pc = "step" /\ Awaiting /\ pc' = "prepare"
  /\ QueuedRounds' = QueuedRounds /\ claimedRounds' = {}
  /\ UNCHANGED <<goalVars, phase, aborted, wake, attempt, checkpoint, run, view, plugin,
                 halted, loose, way>>

InnerRejectsMoves ==
  /\ pc = "inner" /\ Awaiting /\ ~aborted /\ attempt' = None
  /\ QueuedRounds' = QueuedRounds /\ claimedRounds' = {} /\ batch' = {} /\ pc' = "rejected"
  /\ UNCHANGED <<goal, armed, way>> \/ (~failed /\ OwnChange("blocked"))
  /\ run' = run \/ (run = "none" /\ run' = "drive" /\ plugin = "active")
  /\ UNCHANGED <<failed, phase, aborted, wake, view, plugin, halted, loose>>

AdmitMoves ==
  /\ pc = "admit" /\ Awaiting /\ ~aborted /\ pc' = "step"
  /\ QueuedRounds' = QueuedRounds /\ claimedRounds' = {} /\ batch' = {}
  /\ goal' \in Goal /\ goal'.ref = goal.ref /\ goal'.cap = goal.cap
  /\ goal'.phase = goal.phase
  /\ failed' => failed \/ \E i \in claimedRounds :
       ~(goal.phase = "active" /\ i.ref = goal.ref /\ i.round = goal.rounds + 1 /\ i.round <= goal.cap)
  /\ failed => failed' /\ goal' = goal
  /\ claimedRounds = {} => failed' = failed /\ attempt' = attempt
  /\ \/ attempt' = attempt
     \/ /\ attempt # None /\ attempt' # None /\ attempt' \in Attempt /\ plugin # "gone"
        /\ attempt'.of = attempt.of /\ attempt'.at = "admitted"
  /\ UNCHANGED <<armed, phase, aborted, wake, checkpoint, run, view, plugin, halted, loose, way>>

SettleMoves ==
  /\ pc = "settling" /\ Awaiting /\ phase' = "idle" /\ pc' \in {"replay", "off"}
  /\ claimedRounds' = claimedRounds
  /\ \/ UNCHANGED <<goal, armed, way>>
        /\ (plugin = "gone" \/ failed \/ attempt = None \/ ~attempt.cancelled
            \/ ~drivable(goal) \/ attempt.of.ref # goal.ref)
     \/ attempt' = None /\ OwnChange("paused")
  /\ \/ QueuedRounds' = QueuedRounds /\ (attempt' = attempt \/ attempt' = None)
        /\ ~(plugin # "gone" /\ ~failed /\ attempt # None /\ attempt.at = "queued")
     \/ attempt # None /\ attempt' = None /\ QueuedRounds' = QueuedRounds \ {attempt.of}
  /\ run' = run \/ (run = "none" /\ run' = "drive" /\ plugin = "active")
  /\ UNCHANGED <<failed, batch, view, plugin, halted, loose>>

\* Every step does what is said of it here.
LEMMA StepMoves ==
  ASSUME GoalType, QueueType, AttemptType, PlacesInv
  PROVE  /\ \A h \in Human, list \in {"next-turn", "next-step"} : Send(h, list) => SendMoves
         /\ Cancel => CancelMoves
         /\ BeginUnload => UnloadMoves
         /\ Claim => ClaimMoves \/ AbortMoves
         /\ Aborts => AbortMoves
         /\ NextStep => NextStepMoves
         /\ InnerRejects => InnerRejectsMoves
         /\ Admit => AdmitMoves
         /\ Settle => SettleMoves
<1> USE DEF goalVars, runVars, pluginVars, history, RoundsStay, TurnRest
<1>1. ASSUME NEW h \in Human, NEW list \in {"next-turn", "next-step"}, Send(h, list)
      PROVE  SendMoves
  <2>1. Marked
    BY <1>1, MarkedCases
  <2>2. RoundsStay
    BY <1>1, SendRounds
  <2> QED
    BY <1>1, <2>1, <2>2 DEF Send, SendMoves
<1>2. ASSUME Cancel PROVE CancelMoves
  <2>1. Marked
    BY <1>2, MarkedCases
  <2>2. QueuedRounds' = {} /\ claimedRounds' = claimedRounds
    BY <1>2, RoundsFacts DEF Cancel, Clears
  <2> QED
    BY <1>2, <2>1, <2>2 DEF Cancel, CancelMoves
<1>3. ASSUME BeginUnload PROVE UnloadMoves
  <2>1. Marked
    BY <1>3, MarkedCases
  <2>2. claimedRounds' = claimedRounds
    BY <1>3, RoundsFacts DEF BeginUnload
  <2>3. CASE attempt # None /\ phase = "running"
    <3>1. nextTurn' = <<>> /\ aborted' = TRUE
      BY <1>3, <2>3 DEF BeginUnload
    <3>2. QueuedRounds' = {}
      BY <3>1, RoundsFacts
    <3> QED
      BY <1>3, <2>1, <2>2, <2>3, <3>1, <3>2 DEF BeginUnload, UnloadMoves
  <2>4. CASE ~(attempt # None /\ phase = "running")
    <3>1. nextTurn' = nextTurn /\ UNCHANGED <<aborted, wake>>
      BY <1>3, <2>4 DEF BeginUnload
    <3>2. QueuedRounds' = QueuedRounds
      BY <3>1, RoundsFacts
    <3> QED
      BY <1>3, <2>1, <2>2, <2>4, <3>1, <3>2 DEF BeginUnload, UnloadMoves
  <2> QED
    BY <2>3, <2>4
<1>4. ASSUME Claim, ~aborted PROVE ClaimMoves
  <2>1. /\ pc = "claim" /\ Free /\ pc' = "prepare" /\ TurnRest /\ UNCHANGED <<armed, halted>>
    BY <1>4 DEF Claim
  <2>2. CASE QueuedRounds' = QueuedRounds /\ claimedRounds' = {} /\ attempt' = attempt
    BY <1>4, <2>1, <2>2 DEF ClaimMoves
  <2>3. ASSUME NEW m \in QueuedRounds,
               QueuedRounds' = QueuedRounds \ {m}, claimedRounds' = {m}, Claims(m)
        PROVE  ClaimMoves
    <3>1. m \notin Human
      BY DEF QueuedRounds
    <3>2. \/ attempt' = attempt /\ (plugin = "gone" \/ attempt = None \/ ~Same(m, attempt.of))
          \/ /\ attempt # None /\ Same(m, attempt.of) /\ attempt' # None /\ attempt' \in Attempt
             /\ attempt'.of = attempt.of /\ attempt'.at = "claimed"
      BY <2>3, <3>1, ClaimsMoves DEF IsAttempt
    <3> QED
      BY <1>4, <2>1, <2>3, <3>2 DEF ClaimMoves
  <2> QED
    BY <1>4, <2>2, <2>3, ClaimRounds
<1>5. ASSUME Aborts \/ (Claim /\ aborted) PROVE AbortMoves
  <2>1. Marked
    BY <1>5, MarkedCases
  <2>2. nextTurn' = nextTurn /\ batch' = {}
    BY <1>5 DEF Aborts, Claim, EndsAborted, Ends, EndRest
  <2>3. QueuedRounds' = QueuedRounds /\ claimedRounds' = {}
    BY <2>2, RoundsFacts
  <2>4. /\ Free /\ aborted /\ pc' = "settling" /\ TurnRest
        /\ pc \in {"claim", "prepare", "inner", "admit", "rejected", "step"}
        /\ halted' = (plugin = "active" /\ (attempt = None \/ attempt.of.ref = goal.ref))
    BY <1>5 DEF Aborts, Awaiting, Claim, EndsAborted, Ends, EndRest
  <2>5. \/ plugin = "gone" /\ UNCHANGED <<attempt, armed>>
        \/ attempt # None /\ attempt' = [attempt EXCEPT !.cancelled = TRUE] /\ armed' = armed
        \/ attempt' = attempt /\ Disarms
    BY <1>5 DEF Aborts, Claim, EndsAborted
  <2>6. attempt # None => /\ [attempt EXCEPT !.cancelled = TRUE] # None
                          /\ [attempt EXCEPT !.cancelled = TRUE].cancelled
    BY AttemptFacts DEF AttemptType
  <2> QED
    BY <2>1, <2>2, <2>3, <2>4, <2>5, <2>6 DEF AbortMoves
<1>6. ASSUME NextStep PROVE NextStepMoves
  <2>1. batch' \subseteq Human /\ nextTurn' = nextTurn
    BY <1>6 DEF NextStep, QueueType
  <2>2. QueuedRounds' = QueuedRounds /\ claimedRounds' = {}
    BY <2>1, RoundsFacts
  <2> QED
    BY <1>6, <2>2 DEF NextStep, NextStepMoves, stateVars
<1>7. ASSUME InnerRejects PROVE InnerRejectsMoves
  <2>1. UNCHANGED <<goal, armed, way>> \/ (~failed /\ OwnChange("blocked"))
    BY <1>7, GoalBlocked
  <2>2. batch' = {} /\ nextTurn' = nextTurn
    BY <1>7 DEF InnerRejects
  <2>3. QueuedRounds' = QueuedRounds /\ claimedRounds' = {}
    BY <2>2, RoundsFacts
  <2>4. run' = run \/ (run = "none" /\ run' = "drive" /\ plugin = "active")
    BY <1>7 DEF InnerRejects, Requests
  <2>5. /\ pc = "inner" /\ Awaiting /\ ~aborted /\ attempt' = None /\ pc' = "rejected"
        /\ UNCHANGED <<failed, phase, aborted, wake, view, plugin, halted, loose>>
    BY <1>7 DEF InnerRejects
  <2> QED
    BY <2>1, <2>2, <2>3, <2>4, <2>5 DEF InnerRejectsMoves
<1>8. ASSUME Admit PROVE AdmitMoves
  <2>1. goal' \in Goal /\ goal'.ref = goal.ref /\ goal'.cap = goal.cap
    BY <1>8, AdmitFolds
  <2>2. batch' = {} /\ nextTurn' = nextTurn
    BY <1>8 DEF Admit
  <2>3. QueuedRounds' = QueuedRounds /\ claimedRounds' = {}
    BY <2>2, RoundsFacts
  <2>4. \/ attempt' = attempt
        \/ /\ attempt # None /\ attempt' # None /\ attempt' \in Attempt /\ plugin # "gone"
           /\ attempt'.of = attempt.of /\ attempt'.at = "admitted"
    BY <1>8, AttemptAdmitted
  <2>5. /\ failed' => failed \/ \E i \in claimedRounds :
             ~(goal.phase = "active" /\ i.ref = goal.ref /\ i.round = goal.rounds + 1
               /\ i.round <= goal.cap)
        /\ failed => failed' /\ goal' = goal
        /\ claimedRounds = {} => failed' = failed /\ attempt' = attempt
    BY <1>8 DEF Admit, Folds
  <2>6. goal'.phase = goal.phase
    <3>1. ASSUME goal.phase = "active", NEW i, goal' = [goal EXCEPT !.rounds = i.round]
          PROVE  goal'.phase = goal.phase
      BY <3>1 DEF GoalType, Goal
    <3> QED
      BY <1>8, <3>1 DEF Admit, Folds
  <2>7. /\ pc = "admit" /\ Awaiting /\ ~aborted /\ pc' = "step"
        /\ UNCHANGED <<armed, phase, aborted, wake, checkpoint, run, view, plugin, halted,
                       loose, way>>
    BY <1>8 DEF Admit
  <2> QED
    BY <2>1, <2>2, <2>3, <2>4, <2>5, <2>6, <2>7 DEF AdmitMoves
<1>9. ASSUME Settle PROVE SettleMoves
  <2>1. \/ UNCHANGED <<goal, armed, way>>
           /\ (attempt' = attempt \/ (attempt.at = "queued" /\ attempt' = None))
           /\ (plugin = "gone" \/ failed \/ attempt = None \/ ~attempt.cancelled
               \/ ~drivable(goal) \/ attempt.of.ref # goal.ref)
        \/ attempt' = None /\ plugin # "gone" /\ ~failed /\ OwnChange("paused")
    BY <1>9, GoalPaused
  <2>2. /\ claimedRounds' = claimedRounds
        /\ \/ QueuedRounds' = QueuedRounds
              /\ ~(plugin # "gone" /\ ~failed /\ attempt # None /\ attempt.at = "queued")
           \/ /\ plugin # "gone" /\ ~failed /\ attempt # None /\ attempt.at = "queued"
              /\ attempt' = None /\ QueuedRounds' = QueuedRounds \ {attempt.of}
    BY <1>9, SettleRounds
  <2>3. run' = run \/ (run = "none" /\ run' = "drive" /\ plugin = "active")
    BY <1>9 DEF Settle
  <2>4. /\ pc = "settling" /\ Awaiting /\ phase' = "idle" /\ pc' \in {"replay", "off"}
        /\ UNCHANGED <<failed, batch, view, plugin, halted, loose>>
    BY <1>9 DEF Settle
  <2> QED
    BY <2>1, <2>2, <2>3, <2>4 DEF SettleMoves
<1> QED
  BY <1>1, <1>2, <1>3, <1>4, <1>5, <1>6, <1>7, <1>8, <1>9

\* The actions, with passes taken apart.
Steps ==
  \/ GoalCaller \/ Caller \/ Turn
  \/ PassKeeps /\ (PassRests \/ PassDrops \/ \E r \in Round : PassReserves(r))
  \/ Loop \/ Retire \/ FinishMaintenance \/ FinishUnload
  \/ UNCHANGED vars

\* The same, as far as goals, attempts and rounds go.
Moves ==
  \/ CallerMoves \/ SendMoves \/ CancelMoves \/ UnloadMoves \/ ClaimMoves \/ AbortMoves
  \/ NextStepMoves \/ InnerRejectsMoves \/ AdmitMoves \/ SettleMoves
  \/ PassKeeps /\ (PassRests \/ PassDrops \/ \E r \in Round : PassReserves(r))
  \/ CancelKeepingInbox \/ StartMaintenance \/ FinishMaintenance
  \/ Load \/ FinishUnload \/ Restart \/ Loop \/ Retire
  \/ Wake \/ BeginTurn \/ EndTurn \/ NextTurn \/ Replay
  \/ Fails \/ Rejected \/ EntersEmpty
  \/ Passed \/ FenceBefore \/ FenceAfter \/ InnerThrows
  \/ UNCHANGED vars

\* There are no other steps.
LEMMA StepsCases ==
  ASSUME GoalType, FlagType, ReservedInv, CapInv, [Next]_vars
  PROVE  Steps
  BY PassCases DEF Next, Pass, Steps

\* Every step is one of these moves.
LEMMA MovesCases ==
  ASSUME GoalType, QueueType, AttemptType, PlacesInv, Steps
  PROVE  Moves
<1>1. CASE GoalCaller
  BY <1>1, CallerCases DEF Moves, GoalType
<1>2. CASE Caller
  BY <1>2, StepMoves DEF Caller, Moves
<1>3. CASE Turn
  BY <1>3, StepMoves DEF Turn, Moves
<1> QED
  BY <1>1, <1>2, <1>3 DEF Steps, Moves

-----------------------------------------------------------------------------
(* Every step keeps every part of the invariant.                             *)

\* Flags stay flags.
LEMMA FlagStep ==
  ASSUME GoalType, FlagType, PlaceType, QueueType, AttemptType, Steps
  PROVE  FlagType'
<1> USE DEF FlagType, agentVars, goalVars, history, inboxVars, pluginVars, runVars,
     stateVars
<1>1. CASE GoalCaller
  BY <1>1, ZenonT(60) DEF Block, Changed, Clear, Complete, Create, Edit, Free,
       GoalCaller, ModelPause, Mutates, Pause, Requests, Resume, drivable
<1>2. ASSUME NEW h \in Human, NEW list \in {"next-turn", "next-step"}, Send(h, list)
     PROVE FlagType'
  BY <1>2, ZenonT(60) DEF Competes, Free, Send
<1>3. CASE Cancel
  BY <1>3 DEF Cancel, Clears, Discards, Free, IsAttempt, Same
<1>4. CASE BeginUnload
  BY <1>4 DEF Awaiting, BeginUnload, Disarms, Free, IsAttempt, Same
<1>5. CASE CancelKeepingInbox
  BY <1>5 DEF CancelKeepingInbox, Free
<1>6. CASE StartMaintenance
  BY <1>6 DEF Awaiting, Free, StartMaintenance
<1>7. CASE FinishMaintenance
  BY <1>7 DEF Awaiting, FinishMaintenance, Free, hasPending
<1>8. CASE Load
  BY <1>8 DEF Awaiting, Disarms, Free, Load
<1>9. CASE FinishUnload
  BY <1>9 DEF Awaiting, FinishUnload, Free, Ids
<1>10. CASE Restart
  BY <1>10 DEF Awaiting, Free, Ids, Restart
<1>11. CASE PassKeeps /\ (PassRests)
  <2>1. wake' = wake /\ UNCHANGED <<failed, aborted, competing, joining, halted>>
        /\ requested' \in BOOLEAN /\ checkpoint' \in BOOLEAN
    BY <1>11 DEF PassRests, PassKeeps
  <2>2. armed' \in {armed, FALSE} \/ armed' = (armed /\ (failed \/ goal.phase = "none"))
    BY <1>11 DEF PassRests, Disarms, OwnChange
  <2>3. armed' \in BOOLEAN
    BY <2>2
  <2> QED
    BY <2>1, <2>3
<1>12. CASE PassKeeps /\ (PassDrops)
  BY <1>12 DEF PassDrops, PassKeeps
<1>13. ASSUME PassKeeps, NEW r \in Round, PassReserves(r) PROVE FlagType'
  BY ReservesRounds, <1>13 DEF PassKeeps, PassReserves, Rounds, Same
<1>14. CASE Loop
  BY <1>14 DEF Awaiting, Free, Loop, LoopRest
<1>15. CASE Retire
  BY <1>15 DEF Awaiting, Free, LoopRest, Retire
<1>16. CASE Wake
  BY <1>16 DEF Free, Wake
<1>17. CASE BeginTurn
  BY <1>17 DEF BeginTurn, Free
<1>18. CASE Claim
  BY <1>18 DEF Claim, Claims, Disarms, Ends, EndsAborted, Free, IsAttempt, Same
<1>19. CASE Aborts
  BY <1>19 DEF Aborts, Awaiting, Disarms, EndRest, Ends, EndsAborted, Free
<1>20. CASE Fails
  BY <1>20 DEF Awaiting, Disarms, EndRest, Ends, EndsFailed, Fails, Free
<1>21. CASE Rejected
  BY <1>21 DEF Awaiting, EndRest, Ends, EndsBlocked, Free, Rejected
<1>22. CASE EntersEmpty
  BY <1>22 DEF Awaiting, EndRest, Ends, EndsBlocked, EntersEmpty, Free
<1>23. CASE Passed
  BY <1>23 DEF Awaiting, Free, Passed
<1>24. CASE FenceBefore
  <2>1. requested' \in {requested, TRUE, FALSE}
    BY <1>24 DEF FenceBefore, RejectsStale, Requests
  <2>2. requested' \in BOOLEAN
    BY <2>1
  <2>3. UNCHANGED <<failed, armed, aborted, wake, competing, checkpoint, joining, halted>>
    BY <1>24 DEF FenceBefore, FenceRest
  <2> QED
    BY <2>2, <2>3
<1>25. CASE FenceAfter
  <2>1. requested' \in {requested, TRUE, FALSE}
    BY <1>25 DEF FenceAfter, RejectsStale, Requests
  <2>2. requested' \in BOOLEAN
    BY <2>1
  <2>3. UNCHANGED <<failed, armed, aborted, wake, competing, checkpoint, joining, halted>>
    BY <1>25 DEF FenceAfter, FenceRest
  <2> QED
    BY <2>2, <2>3
<1>26. CASE InnerThrows
  BY <1>26 DEF Awaiting, Disarms, Ends, Free, InnerThrows, Requests
<1>27. CASE InnerRejects
  BY <1>27, ZenonT(60) DEF Awaiting, Changed, Free, InnerRejects, Requests, drivable
<1>28. CASE Admit
  BY <1>28 DEF Admit, Awaiting, Folds, Free
<1>29. CASE NextStep
  BY <1>29 DEF Awaiting, Free, NextStep
<1>30. CASE EndTurn
  BY <1>30 DEF Awaiting, Disarms, EndTurn, Free
<1>31. CASE NextTurn
  BY <1>31 DEF Free, NextTurn, hasPending
<1>32. CASE Replay
  BY <1>32 DEF Free, Replay, hasPending
<1>33. CASE Settle
  BY <1>33 DEF Awaiting, Changed, Free, Settle, drivable
<1>34. CASE UNCHANGED vars
  BY <1>34 DEF vars
<1> QED
  BY <1>1, <1>2, <1>3, <1>4, <1>5, <1>6, <1>7, <1>8, <1>9, <1>10, <1>11, <1>12, <1>13,
       <1>14, <1>15, <1>16, <1>17, <1>18, <1>19, <1>20, <1>21, <1>22, <1>23, <1>24,
       <1>25, <1>26, <1>27, <1>28, <1>29, <1>30, <1>31, <1>32, <1>33, <1>34 DEF Steps,
       Caller, Turn

\* The inbox, and what has left it, keep their types.
LEMMA QueueStep ==
  ASSUME GoalType, FlagType, PlaceType, QueueType, AttemptType, AttemptType, Steps
  PROVE  QueueType'
<1> USE DEF QueueType, agentVars, goalVars, history, inboxVars, pluginVars, runVars,
     stateVars
<1>1. CASE GoalCaller
  BY RoundsFacts, <1>1 DEF Block, Changed, Clear, Complete, Create, Edit, Free,
       GoalCaller, ModelPause, Mutates, Pause, Requests, Resume, drivable
<1>2. ASSUME NEW h \in Human, NEW list \in {"next-turn", "next-step"}, Send(h, list)
     PROVE QueueType'
  BY RoundsFacts, <1>2 DEF Competes, Free, Send
<1>3. CASE Cancel
  BY RoundsFacts, <1>3 DEF Cancel, Clears, Discards, Free, IsAttempt, Same
<1>4. CASE BeginUnload
  <2>1. nextTurn' \in {nextTurn, <<>>}
    BY <1>4 DEF BeginUnload
  <2>2. nextTurn' \in Seq(Human \cup Round)
    BY <2>1, EmptySeq
  <2>3. nextStep' \subseteq Human /\ settled' \subseteq Human
    BY <1>4 DEF BeginUnload
  <2> QED
    BY <1>4, <2>2, <2>3 DEF BeginUnload
<1>5. CASE CancelKeepingInbox \/ StartMaintenance \/ FinishMaintenance \/ Load
  BY RoundsFacts, <1>5 DEF Awaiting, CancelKeepingInbox, Disarms, FinishMaintenance,
       Free, Load, StartMaintenance, hasPending
<1>6. CASE FinishUnload
  <2>1. Ids(QueuedRounds \cup claimedRounds) \subseteq 1 .. MaxRounds
    BY RoundTypes DEF Ids, Rounds, Round
  <2> QED
    BY <1>6, <2>1 DEF FinishUnload, agentVars
<1>7. CASE Restart
  <2>1. Ids(QueuedRounds) \subseteq 1 .. MaxRounds
    BY RoundTypes DEF Ids, Rounds, Round
  <2> QED
    BY <1>7, <2>1 DEF Restart
<1>8. CASE PassKeeps /\ (PassDrops)
  <2>1. attempt.of.id \in 1 .. MaxRounds
    BY <1>8 DEF PassDrops, AttemptType, Attempt, Round
  <2> QED
    BY <1>8, <2>1 DEF PassDrops, PassKeeps
<1>9. CASE PassKeeps /\ (PassRests)
  BY RoundsFacts, <1>9 DEF Disarms, OwnChange, PassKeeps, PassRests, drivable
<1>10. ASSUME PassKeeps, NEW r \in Round, PassReserves(r) PROVE QueueType'
  <2>1. r.id \in 1 .. MaxRounds
    BY DEF Round
  <2>2. loose' \subseteq loose \cup {r.id}
    BY <1>10 DEF PassReserves
  <2>3. nextTurn' \in Seq(Human \cup Round)
    BY <1>10, ReservesRounds
  <2>4. UNCHANGED <<nextStep, batch, unsent, settled>>
    BY <1>10 DEF PassKeeps
  <2> QED
    BY <2>1, <2>2, <2>3, <2>4
<1>11. CASE Loop \/ Retire \/ Wake \/ BeginTurn
  BY RoundsFacts, <1>11 DEF Awaiting, BeginTurn, Free, Loop, LoopRest, Retire, Wake
<1>12. CASE Claim
  <2>1. nextTurn' \in Seq(Human \cup Round) /\ batch' \subseteq Human \cup Round
    <3>1. CASE aborted
      BY <1>12, <3>1 DEF Claim, EndsAborted, Ends
    <3>2. CASE ~aborted
      BY <1>12, <3>2, ClaimQueue DEF Holds
    <3> QED
      BY <3>1, <3>2
  <2>2. nextStep' \subseteq Human /\ settled' \subseteq Human
    BY <1>12 DEF Claim, EndsAborted, Ends
  <2> QED
    BY <1>12, <2>1, <2>2 DEF Claim
<1>13. CASE Aborts \/ Fails \/ Rejected \/ EntersEmpty
  BY RoundsFacts, <1>13 DEF Aborts, Awaiting, Disarms, EndRest, Ends, EndsAborted,
       EndsBlocked, EndsFailed, EntersEmpty, Fails, Free, Rejected
<1>14. CASE Passed \/ FenceBefore \/ FenceAfter \/ InnerThrows
  BY RoundsFacts, <1>14 DEF Awaiting, Disarms, Ends, FenceAfter, FenceBefore,
       FenceRest, Free, InnerThrows, IsAttempt, Passed, RejectsStale, Requests,
       Restores, Same, drivable, validReservation
<1>15. CASE InnerRejects
  BY RoundsFacts, <1>15 DEF Awaiting, Changed, Free, InnerRejects, Requests, drivable
<1>16. CASE Admit
  BY RoundsFacts, <1>16 DEF Admit, Awaiting, Folds, Free
<1>17. CASE NextStep
  BY RoundsFacts, <1>17 DEF Awaiting, Free, NextStep
<1>18. CASE EndTurn \/ NextTurn \/ Replay
  BY RoundsFacts, <1>18 DEF Awaiting, Disarms, EndTurn, Free, NextTurn, Replay,
       hasPending
<1>19. CASE Settle
  <2> DEFINE queued == attempt # None /\ attempt.at = "queued"
  <2>1. nextTurn' = nextTurn \/ Withdraws(queued)
    BY <1>19 DEF Settle
  <2>2. queued \in BOOLEAN
    OBVIOUS
  <2>3. nextTurn' \in Seq(Human \cup Round)
    BY <2>1, <2>2, WithdrawQueue DEF Holds
  <2> QED
    BY <1>19, <2>3 DEF Settle
<1>20. CASE UNCHANGED vars
  BY RoundsFacts, <1>20 DEF vars
<1> QED
  BY <1>1, <1>2, <1>3, <1>4, <1>5, <1>6, <1>7, <1>8, <1>9, <1>10, <1>11, <1>12, <1>13,
       <1>14, <1>15, <1>16, <1>17, <1>18, <1>19, <1>20 DEF Steps, Caller, Turn

\* Nobody's message is lost, and nothing is queued twice.
LEMMA PlacesStep ==
  ASSUME GoalType, FlagType, PlaceType, QueueType, AttemptType, PhaseInv, PlacesInv,
         BatchInv, Steps
  PROVE  PlacesInv'
<1> USE DEF PlacesInv, BatchInv, agentVars, goalVars, history, inboxVars, pluginVars,
     runVars, stateVars
<1>1. CASE GoalCaller
  BY RoundsFacts, RoundsFacts, <1>1 DEF Block, Changed, Clear, Complete, Create,
       Distinct, Edit, Free, GoalCaller, ModelPause, Mutates, Pause, Requests, Resume,
       drivable
<1>2. ASSUME NEW h \in Human, NEW list \in {"next-turn", "next-step"}, Send(h, list)
     PROVE PlacesInv'
  <2>1. unsent' = unsent \ {h} /\ h \in unsent /\ UNCHANGED <<batch, settled>>
    BY <1>2 DEF Send
  <2>2. h \notin Queued
    BY <2>1
  <2>3. CASE Holds(Queued \cup {h}) /\ nextStep' = nextStep
    BY <2>1, <2>3 DEF Holds
  <2>4. CASE Holds(Queued) /\ nextStep' = nextStep \cup {h}
    BY <2>1, <2>4 DEF Holds
  <2> QED
    BY <1>2, <2>2, <2>3, <2>4, SendQueue
<1>3. CASE Cancel
  <2>1. nextTurn' = <<>> /\ nextStep' = {} /\ UNCHANGED <<unsent, batch>>
        /\ settled' = settled \cup ((Queued \cup nextStep) \cap Human)
    BY <1>3 DEF Cancel, Clears
  <2>2. Queued' = {} /\ Distinct(nextTurn')
    BY <2>1, EmptyQueue DEF Holds
  <2> QED
    BY <2>1, <2>2 DEF QueueType
<1>4. CASE BeginUnload
  <2>1. CASE attempt # None /\ phase = "running"
    <3>1. nextTurn' = <<>> /\ nextStep' = {} /\ UNCHANGED <<unsent, batch>>
          /\ settled' = settled \cup ((Queued \cup nextStep) \cap Human)
      BY <1>4, <2>1 DEF BeginUnload
    <3>2. Queued' = {} /\ Distinct(nextTurn')
      BY <3>1, EmptyQueue DEF Holds
    <3> QED
      BY <3>1, <3>2 DEF QueueType
  <2>2. CASE UNCHANGED <<nextTurn, nextStep, unsent, batch, settled>>
    BY <2>2, RoundsFacts
  <2> QED
    BY <1>4, <2>1, <2>2 DEF BeginUnload
<1>5. CASE CancelKeepingInbox \/ StartMaintenance \/ FinishMaintenance \/ Load
  BY RoundsFacts, RoundsFacts, <1>5 DEF Awaiting, CancelKeepingInbox, Disarms,
       Distinct, FinishMaintenance, Free, Load, StartMaintenance, hasPending
<1>6. CASE FinishUnload
  BY RoundsFacts, RoundsFacts, <1>6 DEF Awaiting, Distinct, FinishUnload, Free, Ids
<1>7. CASE Restart
  BY RoundsFacts, RoundsFacts, <1>7 DEF Awaiting, Distinct, Free, Ids, Restart
<1>8. CASE PassKeeps /\ (PassRests \/ PassDrops)
  BY RoundsFacts, RoundsFacts, <1>8 DEF Disarms, Distinct, OwnChange, PassDrops,
       PassKeeps, PassRests, drivable
<1>9. ASSUME PassKeeps, NEW r \in Round, PassReserves(r) PROVE PlacesInv'
  <2>1. nextTurn' = Append(nextTurn, r) /\ UNCHANGED <<nextStep, unsent, batch, settled>>
    BY <1>9 DEF PassReserves, PassKeeps
  <2>2. r \notin Rounds /\ r \notin Human
    BY <1>9, HumanAssumption DEF PassReserves
  <2>3. r \notin Queued /\ r \notin batch
    BY <2>2 DEF Rounds, QueuedRounds, claimedRounds
  <2>4. Distinct(nextTurn') /\ Queued' = Queued \cup {r}
    BY <2>1, <2>3, AppendQueue DEF QueueType, Queued
  <2> QED
    BY <2>1, <2>2, <2>3, <2>4 DEF QueueType
<1>10. CASE Loop \/ Retire \/ Wake \/ BeginTurn
  BY RoundsFacts, RoundsFacts, <1>10 DEF Awaiting, BeginTurn, Distinct, Free, Loop,
       LoopRest, Retire, Wake
<1>11. CASE Claim
  <2>1. CASE aborted
    <3>1. UNCHANGED <<nextTurn, nextStep, unsent, settled>> /\ batch' = {} /\ batch = {}
      BY <1>11, <2>1 DEF Claim, EndsAborted, Ends, BatchInv
    <3> QED
      BY <3>1, RoundsFacts
  <2>2. CASE ~aborted
    <3>1. /\ nextStep' = {} /\ UNCHANGED <<unsent, settled>> /\ batch = {}
      BY <1>11, <2>2 DEF Claim, BatchInv
    <3>2. CASE Holds(Queued) /\ batch' = nextStep
      BY <3>1, <3>2 DEF Holds
    <3>3. ASSUME NEW m \in Queued, Holds(Queued \ {m}), batch' = nextStep \cup {m}
          PROVE  PlacesInv'
      BY <3>1, <3>3 DEF Holds
    <3> QED
      BY <1>11, <2>2, <3>2, <3>3, ClaimQueue
  <2> QED
    BY <2>1, <2>2
<1>12. CASE Aborts \/ Fails \/ Rejected \/ EntersEmpty
  BY RoundsFacts, RoundsFacts, <1>12 DEF Aborts, Awaiting, Disarms, Distinct, EndRest,
       Ends, EndsAborted, EndsBlocked, EndsFailed, EntersEmpty, Fails, Free, Rejected
<1>13. CASE Passed \/ FenceBefore \/ FenceAfter \/ InnerThrows
  BY RoundsFacts, RoundsFacts, <1>13 DEF Awaiting, Disarms, Distinct, Ends,
       FenceAfter, FenceBefore, FenceRest, Free, InnerThrows, IsAttempt, Passed,
       RejectsStale, Requests, Restores, Same, drivable, validReservation
<1>14. CASE InnerRejects
  BY RoundsFacts, RoundsFacts, <1>14 DEF Awaiting, Changed, Distinct, Free,
       InnerRejects, Requests, drivable
<1>15. CASE Admit
  BY RoundsFacts, RoundsFacts, <1>15 DEF Admit, Awaiting, Distinct, Folds, Free
<1>16. CASE NextStep
  BY RoundsFacts, RoundsFacts, <1>16 DEF Awaiting, Distinct, Free, NextStep
<1>17. CASE EndTurn \/ NextTurn \/ Replay
  BY RoundsFacts, RoundsFacts, <1>17 DEF Awaiting, Disarms, Distinct, EndTurn, Free,
       NextTurn, Replay, hasPending
<1>18. CASE Settle
  <2> DEFINE queued == attempt # None /\ attempt.at = "queued"
  <2>1. UNCHANGED <<nextStep, unsent, batch, settled>>
    BY <1>18 DEF Settle
  <2>2. CASE nextTurn' = nextTurn
    BY <2>1, <2>2, RoundsFacts
  <2>3. CASE Withdraws(queued)
    <3>1. queued \in BOOLEAN
      OBVIOUS
    <3>2. Distinct(nextTurn') /\ Queued' = IF queued THEN Queued \ {attempt.of} ELSE Queued
      BY <2>3, <3>1, WithdrawQueue DEF Holds
    <3>3. queued => attempt.of \notin Human
      BY HumanAssumption DEF AttemptType, Attempt
    <3> QED
      BY <2>1, <3>2, <3>3
  <2> QED
    BY <1>18, <2>2, <2>3 DEF Settle
<1>19. CASE UNCHANGED vars
  BY RoundsFacts, RoundsFacts, <1>19 DEF Distinct, vars
<1> QED
  BY <1>1, <1>2, <1>3, <1>4, <1>5, <1>6, <1>7, <1>8, <1>9, <1>10, <1>11, <1>12, <1>13,
       <1>14, <1>15, <1>16, <1>17, <1>18, <1>19 DEF Steps, Caller, Turn

\* Goals come from goals.
LEMMA GoalStep ==
  ASSUME GoalType, FlagType, PlaceType, QueueType, AttemptType, Moves
  PROVE  GoalType'
<1> USE DEF GoalType, agentVars, goalVars, history, inboxVars, pluginVars, runVars,
     stateVars
<1>1. CASE CallerMoves
  BY GoalFacts, <1>1 DEF CallerMoves, Free
<1>2. CASE SendMoves \/ CancelMoves \/ UnloadMoves
  BY GoalFacts, <1>2 DEF Awaiting, CancelMoves, Disarms, Free, Marked, RoundsStay,
       SendMoves, UnloadMoves
<1>3. CASE ClaimMoves \/ AbortMoves \/ NextStepMoves
  BY GoalFacts, <1>3 DEF AbortMoves, Awaiting, ClaimMoves, Disarms, Free, Marked,
       NextStepMoves, Same, TurnRest
<1>4. CASE InnerRejectsMoves \/ AdmitMoves
  BY GoalFacts, <1>4 DEF AdmitMoves, Awaiting, Free, InnerRejectsMoves, OwnChange
<1>5. CASE SettleMoves
  BY GoalFacts, <1>5 DEF Awaiting, Free, OwnChange, SettleMoves, drivable
<1>6. CASE PassKeeps /\ (PassRests \/ PassDrops)
  BY GoalFacts, <1>6 DEF Disarms, OwnChange, PassDrops, PassKeeps, PassRests, drivable
<1>7. ASSUME PassKeeps, NEW r \in Round, PassReserves(r) PROVE GoalType'
  BY GoalFacts, ReservesRounds, <1>7 DEF PassKeeps, PassReserves, Rounds, Same
<1>8. CASE CancelKeepingInbox \/ StartMaintenance \/ FinishMaintenance
  BY GoalFacts, <1>8 DEF Awaiting, CancelKeepingInbox, FinishMaintenance, Free,
       StartMaintenance, hasPending
<1>9. CASE Load \/ FinishUnload \/ Restart
  BY GoalFacts, <1>9 DEF Awaiting, Disarms, FinishUnload, Free, Ids, Load, Restart
<1>10. CASE Loop \/ Retire \/ Wake \/ BeginTurn
  BY GoalFacts, <1>10 DEF Awaiting, BeginTurn, Free, Loop, LoopRest, Retire, Wake
<1>11. CASE EndTurn \/ NextTurn \/ Replay
  BY GoalFacts, <1>11 DEF Awaiting, Disarms, EndTurn, Free, NextTurn, Replay, hasPending
<1>12. CASE Fails \/ Rejected \/ EntersEmpty
  BY GoalFacts, <1>12 DEF Awaiting, Disarms, EndRest, Ends, EndsBlocked, EndsFailed,
       EntersEmpty, Fails, Free, Rejected
<1>13. CASE Passed \/ FenceBefore \/ FenceAfter \/ InnerThrows
  BY GoalFacts, <1>13 DEF Awaiting, Disarms, Ends, FenceAfter, FenceBefore, FenceRest,
       Free, InnerThrows, IsAttempt, Passed, RejectsStale, Requests, Restores, Same,
       drivable, validReservation
<1>14. CASE UNCHANGED vars
  BY GoalFacts, <1>14 DEF vars
<1> QED
  BY <1>1, <1>2, <1>3, <1>4, <1>5, <1>6, <1>7, <1>8, <1>9, <1>10, <1>11, <1>12, <1>13,
       <1>14 DEF Moves

\* Every step goes to a known place.
LEMMA PlaceStep ==
  ASSUME GoalType, FlagType, PlaceType, QueueType, AttemptType, Moves
  PROVE  PlaceType'
<1> USE DEF PlaceType, agentVars, goalVars, history, inboxVars, pluginVars, runVars,
     stateVars
<1>1. CASE CallerMoves
  BY <1>1 DEF CallerMoves, Free
<1>2. CASE SendMoves \/ CancelMoves \/ UnloadMoves
  BY <1>2 DEF Awaiting, CancelMoves, Disarms, Free, Marked, RoundsStay, SendMoves,
       UnloadMoves
<1>3. CASE ClaimMoves \/ AbortMoves \/ NextStepMoves
  BY <1>3 DEF AbortMoves, Awaiting, ClaimMoves, Disarms, Free, Marked, NextStepMoves,
       Same, TurnRest
<1>4. CASE InnerRejectsMoves \/ AdmitMoves
  BY <1>4 DEF AdmitMoves, Awaiting, Free, InnerRejectsMoves, OwnChange
<1>5. CASE SettleMoves
  BY <1>5 DEF Awaiting, Free, OwnChange, SettleMoves, drivable
<1>6. CASE PassKeeps /\ (PassRests \/ PassDrops)
  BY <1>6 DEF Disarms, OwnChange, PassDrops, PassKeeps, PassRests, drivable
<1>7. ASSUME PassKeeps, NEW r \in Round, PassReserves(r) PROVE PlaceType'
  BY ReservesRounds, <1>7 DEF PassKeeps, PassReserves, Rounds, Same
<1>8. CASE CancelKeepingInbox \/ StartMaintenance \/ FinishMaintenance
  BY <1>8 DEF Awaiting, CancelKeepingInbox, FinishMaintenance, Free, StartMaintenance,
       hasPending
<1>9. CASE Load \/ FinishUnload \/ Restart
  BY <1>9 DEF Awaiting, Disarms, FinishUnload, Free, Ids, Load, Restart
<1>10. CASE Loop \/ Retire \/ Wake \/ BeginTurn
  BY <1>10 DEF Awaiting, BeginTurn, Free, Loop, LoopRest, Retire, Wake
<1>11. CASE EndTurn \/ NextTurn \/ Replay
  BY <1>11 DEF Awaiting, Disarms, EndTurn, Free, NextTurn, Replay, hasPending
<1>12. CASE Fails \/ Rejected \/ EntersEmpty
  BY <1>12 DEF Awaiting, Disarms, EndRest, Ends, EndsBlocked, EndsFailed, EntersEmpty,
       Fails, Free, Rejected
<1>13. CASE Passed \/ FenceBefore \/ FenceAfter \/ InnerThrows
  BY <1>13 DEF Awaiting, Disarms, Ends, FenceAfter, FenceBefore, FenceRest, Free,
       InnerThrows, IsAttempt, Passed, RejectsStale, Requests, Restores, Same,
       drivable, validReservation
<1>14. CASE UNCHANGED vars
  BY <1>14 DEF vars
<1> QED
  BY <1>1, <1>2, <1>3, <1>4, <1>5, <1>6, <1>7, <1>8, <1>9, <1>10, <1>11, <1>12, <1>13,
       <1>14 DEF Moves

\* An attempt is made for a round.
LEMMA AttemptStep ==
  ASSUME GoalType, FlagType, PlaceType, QueueType, AttemptType, Moves
  PROVE  AttemptType'
<1> USE DEF AttemptType, agentVars, goalVars, history, inboxVars, pluginVars, runVars,
     stateVars
<1>1. CASE CallerMoves
  BY RoundsFacts, <1>1 DEF CallerMoves, Free
<1>2. CASE SendMoves \/ CancelMoves \/ UnloadMoves
  BY <1>2 DEF Awaiting, CancelMoves, Disarms, Free, Marked, RoundsStay, SendMoves,
       UnloadMoves
<1>3. CASE ClaimMoves \/ AbortMoves \/ NextStepMoves
  BY <1>3 DEF AbortMoves, Awaiting, ClaimMoves, Disarms, Free, Marked, NextStepMoves,
       Same, TurnRest
<1>4. CASE InnerRejectsMoves \/ AdmitMoves
  BY <1>4 DEF AdmitMoves, Awaiting, Free, InnerRejectsMoves, OwnChange
<1>5. CASE SettleMoves
  BY <1>5 DEF Awaiting, Free, OwnChange, SettleMoves, drivable
<1>6. CASE PassKeeps /\ (PassRests \/ PassDrops)
  BY RoundsFacts, <1>6 DEF Disarms, OwnChange, PassDrops, PassKeeps, PassRests, drivable
<1>7. ASSUME PassKeeps, NEW r \in Round, PassReserves(r) PROVE AttemptType'
  BY ReservesRounds, RoundsFacts, <1>7 DEF PassKeeps, PassReserves, Rounds, Same
<1>8. CASE CancelKeepingInbox \/ StartMaintenance \/ FinishMaintenance
  BY RoundsFacts, <1>8 DEF Awaiting, CancelKeepingInbox, FinishMaintenance, Free,
       StartMaintenance, hasPending
<1>9. CASE Load \/ FinishUnload \/ Restart
  BY RoundsFacts, <1>9 DEF Awaiting, Disarms, FinishUnload, Free, Ids, Load, Restart
<1>10. CASE Loop \/ Retire \/ Wake \/ BeginTurn
  BY RoundsFacts, <1>10 DEF Awaiting, BeginTurn, Free, Loop, LoopRest, Retire, Wake
<1>11. CASE EndTurn \/ NextTurn \/ Replay
  BY RoundsFacts, <1>11 DEF Awaiting, Disarms, EndTurn, Free, NextTurn, Replay,
       hasPending
<1>12. CASE Fails \/ Rejected \/ EntersEmpty
  BY RoundsFacts, <1>12 DEF Awaiting, Disarms, EndRest, Ends, EndsBlocked, EndsFailed,
       EntersEmpty, Fails, Free, Rejected
<1>13. CASE Passed \/ FenceBefore \/ FenceAfter \/ InnerThrows
  BY RoundsFacts, <1>13 DEF Awaiting, Disarms, Ends, FenceAfter, FenceBefore,
       FenceRest, Free, InnerThrows, IsAttempt, Passed, RejectsStale, Requests,
       Restores, Same, drivable, validReservation
<1>14. CASE UNCHANGED vars
  BY RoundsFacts, <1>14 DEF vars
<1> QED
  BY <1>1, <1>2, <1>3, <1>4, <1>5, <1>6, <1>7, <1>8, <1>9, <1>10, <1>11, <1>12, <1>13,
       <1>14 DEF Moves

\* A batch is claimed by a running turn, which leaves the fences without it.
LEMMA BatchStep ==
  ASSUME GoalType, FlagType, PlaceType, QueueType, AttemptType, BatchInv, PhaseInv,
         Moves
  PROVE  BatchInv'
<1> USE DEF BatchInv, PhaseInv, agentVars, goalVars, history, inboxVars, pluginVars,
     runVars, stateVars
<1>1. CASE CallerMoves
  BY RoundsFacts, <1>1 DEF CallerMoves, Free
<1>2. CASE SendMoves \/ CancelMoves \/ UnloadMoves
  BY <1>2 DEF Awaiting, CancelMoves, Disarms, Free, Marked, RoundsStay, SendMoves,
       UnloadMoves
<1>3. CASE ClaimMoves \/ AbortMoves \/ NextStepMoves
  BY <1>3 DEF AbortMoves, Awaiting, ClaimMoves, Disarms, Free, Marked, NextStepMoves,
       Same, TurnRest
<1>4. CASE InnerRejectsMoves \/ AdmitMoves
  BY <1>4 DEF AdmitMoves, Awaiting, Free, InnerRejectsMoves, OwnChange
<1>5. CASE SettleMoves
  BY <1>5 DEF Awaiting, Free, OwnChange, SettleMoves, drivable
<1>6. CASE PassKeeps /\ (PassRests \/ PassDrops)
  BY RoundsFacts, <1>6 DEF Disarms, OwnChange, PassDrops, PassKeeps, PassRests, drivable
<1>7. ASSUME PassKeeps, NEW r \in Round, PassReserves(r) PROVE BatchInv'
  BY ReservesRounds, RoundsFacts, <1>7 DEF PassKeeps, PassReserves, Rounds, Same
<1>8. CASE CancelKeepingInbox \/ StartMaintenance \/ FinishMaintenance
  BY RoundsFacts, <1>8 DEF Awaiting, CancelKeepingInbox, FinishMaintenance, Free,
       StartMaintenance, hasPending
<1>9. CASE Load \/ FinishUnload \/ Restart
  BY RoundsFacts, <1>9 DEF Awaiting, Disarms, FinishUnload, Free, Ids, Load, Restart
<1>10. CASE Loop \/ Retire \/ Wake \/ BeginTurn
  BY RoundsFacts, <1>10 DEF Awaiting, BeginTurn, Free, Loop, LoopRest, Retire, Wake
<1>11. CASE EndTurn \/ NextTurn \/ Replay
  BY RoundsFacts, <1>11 DEF Awaiting, Disarms, EndTurn, Free, NextTurn, Replay,
       hasPending
<1>12. CASE Fails \/ Rejected \/ EntersEmpty
  BY RoundsFacts, <1>12 DEF Awaiting, Disarms, EndRest, Ends, EndsBlocked, EndsFailed,
       EntersEmpty, Fails, Free, Rejected
<1>13. CASE Passed \/ FenceBefore \/ FenceAfter \/ InnerThrows
  BY RoundsFacts, <1>13 DEF Awaiting, Disarms, Ends, FenceAfter, FenceBefore,
       FenceRest, Free, InnerThrows, IsAttempt, Passed, RejectsStale, Requests,
       Restores, Same, drivable, validReservation
<1>14. CASE UNCHANGED vars
  BY RoundsFacts, <1>14 DEF vars
<1> QED
  BY <1>1, <1>2, <1>3, <1>4, <1>5, <1>6, <1>7, <1>8, <1>9, <1>10, <1>11, <1>12, <1>13,
       <1>14 DEF Moves

\* Phase and driver go together.
LEMMA PhaseStep ==
  ASSUME GoalType, FlagType, PlaceType, QueueType, AttemptType, BatchInv, PhaseInv,
         Moves
  PROVE  PhaseInv'
<1> USE DEF PlaceType, BatchInv, PhaseInv, agentVars, goalVars, history, inboxVars,
     pluginVars, runVars, stateVars
<1>1. CASE CallerMoves
  BY RoundsFacts, <1>1 DEF CallerMoves, Free
<1>2. CASE SendMoves \/ CancelMoves \/ UnloadMoves
  BY <1>2 DEF Awaiting, CancelMoves, Disarms, Free, Marked, RoundsStay, SendMoves,
       UnloadMoves
<1>3. CASE ClaimMoves \/ AbortMoves \/ NextStepMoves
  BY <1>3 DEF AbortMoves, Awaiting, ClaimMoves, Disarms, Free, Marked, NextStepMoves,
       Same, TurnRest
<1>4. CASE InnerRejectsMoves \/ AdmitMoves
  BY <1>4 DEF AdmitMoves, Awaiting, Free, InnerRejectsMoves, OwnChange
<1>5. CASE SettleMoves
  BY <1>5 DEF Awaiting, Free, OwnChange, SettleMoves, drivable
<1>6. CASE PassKeeps /\ (PassRests \/ PassDrops)
  BY RoundsFacts, <1>6 DEF Disarms, OwnChange, PassDrops, PassKeeps, PassRests, drivable
<1>7. ASSUME PassKeeps, NEW r \in Round, PassReserves(r) PROVE PhaseInv'
  BY ReservesRounds, RoundsFacts, <1>7 DEF PassKeeps, PassReserves, Rounds, Same
<1>8. CASE CancelKeepingInbox \/ StartMaintenance \/ FinishMaintenance
  BY RoundsFacts, <1>8 DEF Awaiting, CancelKeepingInbox, FinishMaintenance, Free,
       StartMaintenance, hasPending
<1>9. CASE Load \/ FinishUnload \/ Restart
  BY RoundsFacts, <1>9 DEF Awaiting, Disarms, FinishUnload, Free, Ids, Load, Restart
<1>10. CASE Loop \/ Retire \/ Wake \/ BeginTurn
  BY RoundsFacts, <1>10 DEF Awaiting, BeginTurn, Free, Loop, LoopRest, Retire, Wake
<1>11. CASE EndTurn \/ NextTurn \/ Replay
  BY RoundsFacts, <1>11 DEF Awaiting, Disarms, EndTurn, Free, NextTurn, Replay,
       hasPending
<1>12. CASE Fails \/ Rejected \/ EntersEmpty
  BY RoundsFacts, <1>12 DEF Awaiting, Disarms, EndRest, Ends, EndsBlocked, EndsFailed,
       EntersEmpty, Fails, Free, Rejected
<1>13. CASE Passed \/ FenceBefore \/ FenceAfter \/ InnerThrows
  BY RoundsFacts, <1>13 DEF Awaiting, Disarms, Ends, FenceAfter, FenceBefore,
       FenceRest, Free, InnerThrows, IsAttempt, Passed, RejectsStale, Requests,
       Restores, Same, drivable, validReservation
<1>14. CASE UNCHANGED vars
  BY RoundsFacts, <1>14 DEF vars
<1> QED
  BY <1>1, <1>2, <1>3, <1>4, <1>5, <1>6, <1>7, <1>8, <1>9, <1>10, <1>11, <1>12, <1>13,
       <1>14 DEF Moves

\* A new round has an id that no other has.
LEMMA IdsStep ==
  ASSUME GoalType, FlagType, PlaceType, QueueType, AttemptType, IdsInv, BatchInv, Moves
  PROVE  IdsInv'
<1> USE DEF IdsInv, BatchInv, agentVars, goalVars, history, inboxVars, pluginVars,
     runVars, stateVars
<1>1. CASE CallerMoves
  BY RoundsFacts, <1>1 DEF CallerMoves, Free, Rounds
<1>2. CASE SendMoves \/ CancelMoves \/ UnloadMoves
  BY <1>2 DEF Awaiting, CancelMoves, Disarms, Free, Marked, Rounds, RoundsStay,
       SendMoves, UnloadMoves
<1>3. CASE ClaimMoves \/ AbortMoves \/ NextStepMoves
  BY <1>3 DEF AbortMoves, Awaiting, ClaimMoves, Disarms, Free, Marked, NextStepMoves,
       Rounds, Same, TurnRest
<1>4. CASE InnerRejectsMoves \/ AdmitMoves
  BY <1>4 DEF AdmitMoves, Awaiting, Free, InnerRejectsMoves, OwnChange, Rounds
<1>5. CASE SettleMoves
  BY <1>5 DEF Awaiting, Free, OwnChange, Rounds, SettleMoves, drivable
<1>6. CASE PassKeeps /\ (PassRests \/ PassDrops)
  BY RoundsFacts, <1>6 DEF Disarms, OwnChange, PassDrops, PassKeeps, PassRests,
       Rounds, drivable
<1>7. ASSUME PassKeeps, NEW r \in Round, PassReserves(r) PROVE IdsInv'
  <2>1. Rounds' = Rounds \cup {r} /\ claimedRounds' = claimedRounds
    BY <1>7, ReservesRounds, RoundsFacts
  <2>2. \A i \in Rounds : i.id # r.id
    BY <1>7 DEF PassReserves
  <2> HIDE DEF Rounds
  <2> QED
    BY <2>1, <2>2
<1>8. CASE CancelKeepingInbox \/ StartMaintenance \/ FinishMaintenance
  BY RoundsFacts, <1>8 DEF Awaiting, CancelKeepingInbox, FinishMaintenance, Free,
       Rounds, StartMaintenance, hasPending
<1>9. CASE Load \/ FinishUnload \/ Restart
  BY RoundsFacts, <1>9 DEF Awaiting, Disarms, FinishUnload, Free, Ids, Load, Restart,
       Rounds
<1>10. CASE Loop \/ Retire \/ Wake \/ BeginTurn
  BY RoundsFacts, <1>10 DEF Awaiting, BeginTurn, Free, Loop, LoopRest, Retire, Rounds,
       Wake
<1>11. CASE EndTurn \/ NextTurn \/ Replay
  BY RoundsFacts, <1>11 DEF Awaiting, Disarms, EndTurn, Free, NextTurn, Replay,
       Rounds, hasPending
<1>12. CASE Fails \/ Rejected \/ EntersEmpty
  BY RoundsFacts, <1>12 DEF Awaiting, Disarms, EndRest, Ends, EndsBlocked, EndsFailed,
       EntersEmpty, Fails, Free, Rejected, Rounds
<1>13. CASE Passed \/ FenceBefore \/ FenceAfter \/ InnerThrows
  BY RoundsFacts, <1>13 DEF Awaiting, Disarms, Ends, FenceAfter, FenceBefore,
       FenceRest, Free, InnerThrows, IsAttempt, Passed, RejectsStale, Requests,
       Restores, Rounds, Same, drivable, validReservation
<1>14. CASE UNCHANGED vars
  BY RoundsFacts, <1>14 DEF Rounds, vars
<1> QED
  BY <1>1, <1>2, <1>3, <1>4, <1>5, <1>6, <1>7, <1>8, <1>9, <1>10, <1>11, <1>12, <1>13,
       <1>14 DEF Moves

\* What the plugin leaves behind is on its own.
LEMMA GoneStep ==
  ASSUME GoalType, FlagType, PlaceType, QueueType, AttemptType, BatchInv, GoneInv, Moves
  PROVE  GoneInv'
<1> USE DEF PlaceType, BatchInv, GoneInv, agentVars, goalVars, history, inboxVars,
     pluginVars, runVars, stateVars
<1>1. CASE CallerMoves
  BY RoundsFacts, <1>1 DEF CallerMoves, Free, Rounds
<1>2. CASE SendMoves \/ CancelMoves \/ UnloadMoves
  BY <1>2 DEF Awaiting, CancelMoves, Disarms, Free, Marked, Rounds, RoundsStay,
       SendMoves, UnloadMoves
<1>3. CASE ClaimMoves \/ AbortMoves \/ NextStepMoves
  BY <1>3 DEF AbortMoves, Awaiting, ClaimMoves, Disarms, Free, Marked, NextStepMoves,
       Rounds, Same, TurnRest
<1>4. CASE InnerRejectsMoves \/ AdmitMoves
  BY <1>4 DEF AdmitMoves, Awaiting, Free, InnerRejectsMoves, OwnChange, Rounds
<1>5. CASE SettleMoves
  BY <1>5 DEF Awaiting, Free, OwnChange, Rounds, SettleMoves, drivable
<1>6. CASE PassKeeps /\ (PassRests \/ PassDrops)
  BY RoundsFacts, <1>6 DEF Disarms, OwnChange, PassDrops, PassKeeps, PassRests,
       Rounds, drivable
<1>7. ASSUME PassKeeps, NEW r \in Round, PassReserves(r) PROVE GoneInv'
  BY ReservesRounds, RoundsFacts, <1>7 DEF PassKeeps, PassReserves, Rounds, Same
<1>8. CASE CancelKeepingInbox \/ StartMaintenance \/ FinishMaintenance
  BY RoundsFacts, <1>8 DEF Awaiting, CancelKeepingInbox, FinishMaintenance, Free,
       Rounds, StartMaintenance, hasPending
<1>9. CASE Load \/ FinishUnload \/ Restart
  BY RoundsFacts, <1>9 DEF Awaiting, Disarms, FinishUnload, Free, Ids, Load, Restart,
       Rounds
<1>10. CASE Loop \/ Retire \/ Wake \/ BeginTurn
  BY RoundsFacts, <1>10 DEF Awaiting, BeginTurn, Free, Loop, LoopRest, Retire, Rounds,
       Wake
<1>11. CASE EndTurn \/ NextTurn \/ Replay
  BY RoundsFacts, <1>11 DEF Awaiting, Disarms, EndTurn, Free, NextTurn, Replay,
       Rounds, hasPending
<1>12. CASE Fails \/ Rejected \/ EntersEmpty
  BY RoundsFacts, <1>12 DEF Awaiting, Disarms, EndRest, Ends, EndsBlocked, EndsFailed,
       EntersEmpty, Fails, Free, Rejected, Rounds
<1>13. CASE Passed \/ FenceBefore \/ FenceAfter \/ InnerThrows
  BY RoundsFacts, <1>13 DEF Awaiting, Disarms, Ends, FenceAfter, FenceBefore,
       FenceRest, Free, InnerThrows, IsAttempt, Passed, RejectsStale, Requests,
       Restores, Rounds, Same, drivable, validReservation
<1>14. CASE UNCHANGED vars
  BY RoundsFacts, <1>14 DEF Rounds, vars
<1> QED
  BY <1>1, <1>2, <1>3, <1>4, <1>5, <1>6, <1>7, <1>8, <1>9, <1>10, <1>11, <1>12, <1>13,
       <1>14 DEF Moves

\* An attempt is given up only when its round is out of the queue, or is loose.
LEMMA WatchedStep ==
  ASSUME GoalType, FlagType, PlaceType, QueueType, AttemptType, PlacesInv, BatchInv,
         PhaseInv, GoneInv, InnerInv, ReservedInv, AttemptInv, RoundsAreWatched, Moves
  PROVE  RoundsAreWatched'
<1> USE DEF PlaceType, BatchInv, PhaseInv, GoneInv, InnerInv, ReservedInv, AttemptInv,
     RoundsAreWatched, agentVars, goalVars, history, inboxVars, pluginVars, runVars,
     stateVars
<1>0. QueuedRounds \cap claimedRounds = {}
  BY DEF PlacesInv, QueuedRounds, claimedRounds
<1>1. CASE CallerMoves
  BY <1>0, RoundsFacts, <1>1 DEF CallerMoves, Free, Rounds, Same
<1>2. CASE SendMoves \/ CancelMoves \/ UnloadMoves
  BY <1>0, <1>2 DEF Awaiting, CancelMoves, Disarms, Free, Marked, Rounds, RoundsStay,
       Same, SendMoves, UnloadMoves
<1>3. CASE ClaimMoves \/ AbortMoves \/ NextStepMoves
  BY <1>0, <1>3 DEF AbortMoves, Awaiting, ClaimMoves, Disarms, Free, Marked,
       NextStepMoves, Rounds, Same, TurnRest
<1>4. CASE InnerRejectsMoves
  BY <1>0, <1>4 DEF Awaiting, Free, InnerRejectsMoves, OwnChange, Rounds, Same
<1>5. CASE AdmitMoves
  BY <1>0, <1>5 DEF AdmitMoves, Awaiting, Free, Rounds, Same
<1>6. CASE SettleMoves
  BY <1>0, <1>6 DEF Awaiting, Free, OwnChange, Rounds, Same, SettleMoves, drivable
<1>7. CASE PassKeeps /\ (PassRests \/ PassDrops)
  BY <1>0, RoundsFacts, <1>7 DEF Disarms, OwnChange, PassDrops, PassKeeps, PassRests,
       Rounds, Same, drivable
<1>8. ASSUME PassKeeps, NEW r \in Round, PassReserves(r) PROVE RoundsAreWatched'
  BY <1>0, ReservesRounds, RoundsFacts, <1>8, ZenonT(60) DEF PassKeeps, PassReserves,
       Rounds, Same
<1>9. CASE CancelKeepingInbox \/ StartMaintenance \/ FinishMaintenance
  BY <1>0, RoundsFacts, <1>9 DEF Awaiting, CancelKeepingInbox, FinishMaintenance,
       Free, Rounds, Same, StartMaintenance, hasPending
<1>10. CASE Load \/ FinishUnload \/ Restart
  BY <1>0, RoundsFacts, <1>10 DEF Awaiting, Disarms, FinishUnload, Free, Ids, Load,
       Restart, Rounds, Same
<1>11. CASE Loop \/ Retire \/ Wake \/ BeginTurn
  BY <1>0, RoundsFacts, <1>11 DEF Awaiting, BeginTurn, Free, Loop, LoopRest, Retire,
       Rounds, Same, Wake
<1>12. CASE EndTurn \/ NextTurn \/ Replay
  BY <1>0, RoundsFacts, <1>12 DEF Awaiting, Disarms, EndTurn, Free, NextTurn, Replay,
       Rounds, Same, hasPending
<1>13. CASE Fails \/ Rejected \/ EntersEmpty
  BY <1>0, RoundsFacts, <1>13 DEF Awaiting, Disarms, EndRest, Ends, EndsBlocked,
       EndsFailed, EntersEmpty, Fails, Free, Rejected, Rounds, Same
<1>14. CASE Passed
  BY <1>0, RoundsFacts, <1>14 DEF Awaiting, Free, Passed, Rounds, Same
<1>15. CASE FenceBefore
  BY <1>0, RoundsFacts, <1>15 DEF Awaiting, FenceBefore, FenceRest, Free, IsAttempt,
       RejectsStale, Requests, Restores, Rounds, Same, drivable, validReservation
<1>16. CASE FenceAfter
  BY <1>0, RoundsFacts, <1>16 DEF Awaiting, FenceAfter, FenceRest, Free, IsAttempt,
       RejectsStale, Requests, Restores, Rounds, Same, drivable, validReservation
<1>17. CASE InnerThrows
  BY <1>0, RoundsFacts, <1>17 DEF Awaiting, Disarms, Ends, Free, InnerThrows,
       Requests, Rounds, Same
<1>18. CASE UNCHANGED vars
  BY <1>0, RoundsFacts, <1>18 DEF Rounds, Same, vars
<1> QED
  BY <1>1, <1>2, <1>3, <1>4, <1>5, <1>6, <1>7, <1>8, <1>9, <1>10, <1>11, <1>12, <1>13,
       <1>14, <1>15, <1>16, <1>17, <1>18 DEF Moves

\* An attempt is claimed and dropped with its round.
LEMMA AttemptOfStep ==
  ASSUME GoalType, FlagType, PlaceType, QueueType, AttemptType, PhaseInv, BatchInv,
         GoneInv, RoundsAreWatched, ReservedInv, AttemptInv, Moves
  PROVE  AttemptInv'
<1> USE DEF PhaseInv, BatchInv, GoneInv, RoundsAreWatched, ReservedInv, AttemptInv,
     agentVars, goalVars, history, inboxVars, pluginVars, runVars, stateVars
<1>1. CASE CallerMoves
  BY RoundsFacts, <1>1 DEF CallerMoves, Free, Rounds, Same
<1>2. CASE SendMoves \/ CancelMoves \/ UnloadMoves
  BY <1>2 DEF Awaiting, CancelMoves, Disarms, Free, Marked, Rounds, RoundsStay, Same,
       SendMoves, UnloadMoves
<1>3. CASE ClaimMoves \/ AbortMoves \/ NextStepMoves
  BY <1>3 DEF AbortMoves, Awaiting, ClaimMoves, Disarms, Free, Marked, NextStepMoves,
       Rounds, Same, TurnRest
<1>4. CASE InnerRejectsMoves
  BY <1>4 DEF Awaiting, Free, InnerRejectsMoves, OwnChange, Rounds, Same
<1>5. CASE AdmitMoves
  BY <1>5 DEF AdmitMoves, Awaiting, Free, Rounds, Same
<1>6. CASE SettleMoves
  BY <1>6 DEF Awaiting, Free, OwnChange, Rounds, Same, SettleMoves, drivable
<1>7. CASE PassKeeps /\ (PassRests \/ PassDrops)
  BY RoundsFacts, <1>7 DEF Disarms, OwnChange, PassDrops, PassKeeps, PassRests,
       Rounds, Same, drivable
<1>8. ASSUME PassKeeps, NEW r \in Round, PassReserves(r) PROVE AttemptInv'
  <2>1. /\ attempt = None /\ plugin = "active" /\ phase # "running" /\ phase' = phase
        /\ attempt'.of = r /\ attempt'.at = "queued"
        /\ IF phase = "idle" THEN pc' = "waking" ELSE wake' = TRUE
        /\ (\E i \in Rounds : i.id \in loose /\ Same(i, r)) => r.id \in loose'
    BY <1>8 DEF PassReserves, PassKeeps
  <2>2. \A i \in Rounds : i.id \in loose
    BY <2>1, RoundsFacts
  <2>3. Rounds' = Rounds \cup {r}
    BY <1>8, ReservesRounds, RoundsFacts
  <2>4. \A i \in Rounds' : i # r /\ Same(i, r) => r.id \in loose'
    BY <2>1, <2>2, <2>3
  <2> QED
    BY <2>1, <2>4 DEF PlaceType, Same
<1>9. CASE CancelKeepingInbox \/ StartMaintenance \/ FinishMaintenance
  BY RoundsFacts, <1>9 DEF Awaiting, CancelKeepingInbox, FinishMaintenance, Free,
       Rounds, Same, StartMaintenance, hasPending
<1>10. CASE Load \/ FinishUnload \/ Restart
  BY RoundsFacts, <1>10 DEF Awaiting, Disarms, FinishUnload, Free, Ids, Load, Restart,
       Rounds, Same
<1>11. CASE Loop \/ Retire \/ Wake \/ BeginTurn
  BY RoundsFacts, <1>11 DEF Awaiting, BeginTurn, Free, Loop, LoopRest, Retire, Rounds,
       Same, Wake
<1>12. CASE EndTurn \/ NextTurn \/ Replay
  BY RoundsFacts, <1>12 DEF Awaiting, Disarms, EndTurn, Free, NextTurn, Replay,
       Rounds, Same, hasPending
<1>13. CASE Fails \/ Rejected \/ EntersEmpty
  BY RoundsFacts, <1>13 DEF Awaiting, Disarms, EndRest, Ends, EndsBlocked, EndsFailed,
       EntersEmpty, Fails, Free, Rejected, Rounds, Same
<1>14. CASE Passed \/ FenceBefore \/ FenceAfter \/ InnerThrows
  BY RoundsFacts, <1>14 DEF Awaiting, Disarms, Ends, FenceAfter, FenceBefore,
       FenceRest, Free, InnerThrows, IsAttempt, Passed, RejectsStale, Requests,
       Restores, Rounds, Same, drivable, validReservation
<1>15. CASE UNCHANGED vars
  BY RoundsFacts, <1>15 DEF Rounds, Same, vars
<1> QED
  BY <1>1, <1>2, <1>3, <1>4, <1>5, <1>6, <1>7, <1>8, <1>9, <1>10, <1>11, <1>12, <1>13,
       <1>14, <1>15 DEF Moves

\* The first fence lets a round of the attempt pass.
LEMMA InnerStep ==
  ASSUME GoalType, FlagType, PlaceType, QueueType, AttemptType, BatchInv, IdsInv,
         InnerInv, Moves
  PROVE  InnerInv'
<1> USE DEF BatchInv, IdsInv, InnerInv, agentVars, goalVars, history, inboxVars,
     pluginVars, runVars, stateVars
<1>1. CASE CallerMoves
  BY RoundsFacts, <1>1 DEF CallerMoves, Free, Rounds, Same
<1>2. CASE SendMoves \/ CancelMoves \/ UnloadMoves
  BY <1>2 DEF Awaiting, CancelMoves, Disarms, Free, Marked, Rounds, RoundsStay, Same,
       SendMoves, UnloadMoves
<1>3. CASE ClaimMoves \/ AbortMoves \/ NextStepMoves
  BY <1>3 DEF AbortMoves, Awaiting, ClaimMoves, Disarms, Free, Marked, NextStepMoves,
       Rounds, Same, TurnRest
<1>4. CASE InnerRejectsMoves \/ AdmitMoves
  BY <1>4 DEF AdmitMoves, Awaiting, Free, InnerRejectsMoves, OwnChange, Rounds, Same
<1>5. CASE SettleMoves
  BY <1>5 DEF Awaiting, Free, OwnChange, Rounds, Same, SettleMoves, drivable
<1>6. CASE PassKeeps /\ (PassRests \/ PassDrops)
  BY RoundsFacts, <1>6 DEF Disarms, OwnChange, PassDrops, PassKeeps, PassRests,
       Rounds, Same, drivable
<1>7. ASSUME PassKeeps, NEW r \in Round, PassReserves(r) PROVE InnerInv'
  BY ReservesRounds, RoundsFacts, <1>7 DEF PassKeeps, PassReserves, Rounds, Same
<1>8. CASE CancelKeepingInbox \/ StartMaintenance \/ FinishMaintenance
  BY RoundsFacts, <1>8 DEF Awaiting, CancelKeepingInbox, FinishMaintenance, Free,
       Rounds, Same, StartMaintenance, hasPending
<1>9. CASE Load \/ FinishUnload \/ Restart
  BY RoundsFacts, <1>9 DEF Awaiting, Disarms, FinishUnload, Free, Ids, Load, Restart,
       Rounds, Same
<1>10. CASE Loop \/ Retire \/ Wake \/ BeginTurn
  BY RoundsFacts, <1>10 DEF Awaiting, BeginTurn, Free, Loop, LoopRest, Retire, Rounds,
       Same, Wake
<1>11. CASE EndTurn \/ NextTurn \/ Replay
  BY RoundsFacts, <1>11 DEF Awaiting, Disarms, EndTurn, Free, NextTurn, Replay,
       Rounds, Same, hasPending
<1>12. CASE Fails \/ Rejected \/ EntersEmpty
  BY RoundsFacts, <1>12 DEF Awaiting, Disarms, EndRest, Ends, EndsBlocked, EndsFailed,
       EntersEmpty, Fails, Free, Rejected, Rounds, Same
<1>13. CASE Passed \/ FenceBefore \/ FenceAfter \/ InnerThrows
  BY RoundsFacts, <1>13 DEF Awaiting, Disarms, Ends, FenceAfter, FenceBefore,
       FenceRest, Free, InnerThrows, IsAttempt, Passed, RejectsStale, Requests,
       Restores, Rounds, Same, drivable, validReservation
<1>14. CASE UNCHANGED vars
  BY RoundsFacts, <1>14 DEF Rounds, Same, vars
<1> QED
  BY <1>1, <1>2, <1>3, <1>4, <1>5, <1>6, <1>7, <1>8, <1>9, <1>10, <1>11, <1>12, <1>13,
       <1>14 DEF Moves

\* A running turn and a failed replay keep a pass from reserving.
LEMMA ReservedStep ==
  ASSUME GoalType, FlagType, PlaceType, QueueType, AttemptType, BatchInv, PhaseInv,
         GoneInv, IdsInv, ReservedInv, Moves
  PROVE  ReservedInv'
<1> USE DEF BatchInv, PhaseInv, GoneInv, IdsInv, ReservedInv, agentVars, goalVars,
     history, inboxVars, pluginVars, runVars, stateVars
<1>1. CASE CallerMoves
  BY RoundsFacts, <1>1 DEF CallerMoves, Free, Rounds
<1>2. CASE SendMoves \/ CancelMoves \/ UnloadMoves
  BY <1>2 DEF Awaiting, CancelMoves, Disarms, Free, Marked, Rounds, RoundsStay,
       SendMoves, UnloadMoves
<1>3. CASE ClaimMoves \/ AbortMoves \/ NextStepMoves
  BY <1>3 DEF AbortMoves, Awaiting, ClaimMoves, Disarms, Free, Marked, NextStepMoves,
       Rounds, Same, TurnRest
<1>4. CASE InnerRejectsMoves \/ AdmitMoves
  BY <1>4 DEF AdmitMoves, Awaiting, Free, InnerRejectsMoves, OwnChange, Rounds
<1>5. CASE SettleMoves
  BY <1>5 DEF Awaiting, Free, OwnChange, Rounds, SettleMoves, drivable
<1>6. CASE PassKeeps /\ (PassRests \/ PassDrops)
  BY RoundsFacts, <1>6 DEF Disarms, OwnChange, PassDrops, PassKeeps, PassRests,
       Rounds, drivable
<1>7. ASSUME PassKeeps, NEW r \in Round, PassReserves(r) PROVE ReservedInv'
  BY ReservesRounds, RoundsFacts, <1>7 DEF PassKeeps, PassReserves, Rounds, Same
<1>8. CASE CancelKeepingInbox \/ StartMaintenance \/ FinishMaintenance
  BY RoundsFacts, <1>8 DEF Awaiting, CancelKeepingInbox, FinishMaintenance, Free,
       Rounds, StartMaintenance, hasPending
<1>9. CASE Load \/ FinishUnload \/ Restart
  BY RoundsFacts, <1>9 DEF Awaiting, Disarms, FinishUnload, Free, Ids, Load, Restart,
       Rounds
<1>10. CASE Loop \/ Retire \/ Wake \/ BeginTurn
  BY RoundsFacts, <1>10 DEF Awaiting, BeginTurn, Free, Loop, LoopRest, Retire, Rounds,
       Wake
<1>11. CASE EndTurn \/ NextTurn \/ Replay
  BY RoundsFacts, <1>11 DEF Awaiting, Disarms, EndTurn, Free, NextTurn, Replay,
       Rounds, hasPending
<1>12. CASE Fails \/ Rejected \/ EntersEmpty
  BY RoundsFacts, <1>12 DEF Awaiting, Disarms, EndRest, Ends, EndsBlocked, EndsFailed,
       EntersEmpty, Fails, Free, Rejected, Rounds
<1>13. CASE Passed \/ FenceBefore \/ FenceAfter \/ InnerThrows
  BY RoundsFacts, <1>13 DEF Awaiting, Disarms, Ends, FenceAfter, FenceBefore,
       FenceRest, Free, InnerThrows, IsAttempt, Passed, RejectsStale, Requests,
       Restores, Rounds, Same, drivable, validReservation
<1>14. CASE UNCHANGED vars
  BY RoundsFacts, <1>14 DEF Rounds, vars
<1> QED
  BY <1>1, <1>2, <1>3, <1>4, <1>5, <1>6, <1>7, <1>8, <1>9, <1>10, <1>11, <1>12, <1>13,
       <1>14 DEF Moves

\* A goal goes to later revisions, and its cap changes with them.
LEMMA CapStep ==
  ASSUME GoalType, FlagType, PlaceType, QueueType, AttemptType, CapInv, Moves
  PROVE  CapInv'
<1> USE DEF CapInv, agentVars, goalVars, history, inboxVars, pluginVars, runVars,
     stateVars
<1>0. goal.ref \in Nat /\ view.ref \in Nat /\ \A i \in Rounds : i.ref \in Nat
  BY RoundTypes DEF GoalType, Goal, Round
<1>1. CASE CallerMoves
  BY <1>0, RoundsFacts, <1>1 DEF CallerMoves, Free, Rounds
<1>2. CASE SendMoves \/ CancelMoves \/ UnloadMoves
  BY <1>0, <1>2 DEF Awaiting, CancelMoves, Disarms, Free, Marked, Rounds, RoundsStay,
       SendMoves, UnloadMoves
<1>3. CASE ClaimMoves \/ AbortMoves \/ NextStepMoves
  BY <1>0, <1>3 DEF AbortMoves, Awaiting, ClaimMoves, Disarms, Free, Marked,
       NextStepMoves, Rounds, Same, TurnRest
<1>4. CASE InnerRejectsMoves
  BY <1>0, <1>4 DEF Awaiting, Free, InnerRejectsMoves, OwnChange, Rounds
<1>5. CASE AdmitMoves
  BY <1>0, <1>5 DEF AdmitMoves, Awaiting, Free, Rounds
<1>6. CASE SettleMoves
  BY <1>0, <1>6 DEF Awaiting, Free, OwnChange, Rounds, SettleMoves, drivable
<1>7. CASE PassKeeps /\ (PassRests)
  BY <1>0, RoundsFacts, <1>7 DEF Disarms, OwnChange, PassKeeps, PassRests, Rounds,
       drivable
<1>8. CASE PassKeeps /\ (PassDrops)
  BY <1>0, RoundsFacts, <1>8 DEF PassDrops, PassKeeps, Rounds
<1>9. ASSUME PassKeeps, NEW r \in Round, PassReserves(r) PROVE CapInv'
  BY <1>0, ReservesRounds, RoundsFacts, <1>9, ZenonT(60) DEF PassKeeps, PassReserves,
       Rounds, Same
<1>10. CASE CancelKeepingInbox \/ StartMaintenance \/ FinishMaintenance
  BY <1>0, RoundsFacts, <1>10 DEF Awaiting, CancelKeepingInbox, FinishMaintenance,
       Free, Rounds, StartMaintenance, hasPending
<1>11. CASE Load \/ FinishUnload \/ Restart
  BY <1>0, RoundsFacts, <1>11 DEF Awaiting, Disarms, FinishUnload, Free, Ids, Load,
       Restart, Rounds
<1>12. CASE Loop \/ Retire \/ Wake \/ BeginTurn
  BY <1>0, RoundsFacts, <1>12 DEF Awaiting, BeginTurn, Free, Loop, LoopRest, Retire,
       Rounds, Wake
<1>13. CASE EndTurn \/ NextTurn \/ Replay
  BY <1>0, RoundsFacts, <1>13 DEF Awaiting, Disarms, EndTurn, Free, NextTurn, Replay,
       Rounds, hasPending
<1>14. CASE Fails \/ Rejected \/ EntersEmpty
  BY <1>0, RoundsFacts, <1>14 DEF Awaiting, Disarms, EndRest, Ends, EndsBlocked,
       EndsFailed, EntersEmpty, Fails, Free, Rejected, Rounds
<1>15. CASE Passed \/ FenceBefore \/ FenceAfter \/ InnerThrows
  BY <1>0, RoundsFacts, <1>15 DEF Awaiting, Disarms, Ends, FenceAfter, FenceBefore,
       FenceRest, Free, InnerThrows, IsAttempt, Passed, RejectsStale, Requests,
       Restores, Rounds, Same, drivable, validReservation
<1>16. CASE UNCHANGED vars
  BY <1>0, RoundsFacts, <1>16 DEF Rounds, vars
<1> QED
  BY <1>1, <1>2, <1>3, <1>4, <1>5, <1>6, <1>7, <1>8, <1>9, <1>10, <1>11, <1>12, <1>13,
       <1>14, <1>15, <1>16 DEF Moves

\* The goal of a round behind the second fence changes only late.
LEMMA AdmitStep ==
  ASSUME GoalType, FlagType, PlaceType, QueueType, AttemptType, IdsInv, BatchInv,
         CapInv, AdmitInv, Moves
  PROVE  AdmitInv'
<1> USE DEF BatchInv, CapInv, AdmitInv, agentVars, goalVars, history, inboxVars,
     pluginVars, runVars, stateVars
<1>1. CASE CallerMoves
  BY RoundsFacts, <1>1 DEF CallerMoves, Free, LateNow, Rounds
<1>2. CASE SendMoves \/ CancelMoves \/ UnloadMoves
  BY <1>2 DEF Awaiting, CancelMoves, Disarms, Free, Marked, Rounds, RoundsStay,
       SendMoves, UnloadMoves
<1>3. CASE ClaimMoves \/ AbortMoves \/ NextStepMoves
  BY <1>3 DEF AbortMoves, Awaiting, ClaimMoves, Disarms, Free, Marked, NextStepMoves,
       Rounds, Same, TurnRest
<1>4. CASE InnerRejectsMoves \/ AdmitMoves
  BY <1>4 DEF AdmitMoves, Awaiting, Free, InnerRejectsMoves, LateNow, OwnChange,
       Rounds
<1>5. CASE SettleMoves
  BY <1>5 DEF Awaiting, Free, LateNow, OwnChange, Rounds, SettleMoves, drivable
<1>6. CASE PassKeeps /\ (PassRests \/ PassDrops)
  BY RoundsFacts, <1>6 DEF Disarms, LateNow, OwnChange, PassDrops, PassKeeps, PassRests,
       Rounds, drivable
<1>7. ASSUME PassKeeps, NEW r \in Round, PassReserves(r) PROVE AdmitInv'
  BY ReservesRounds, RoundsFacts, <1>7 DEF PassKeeps, PassReserves, Rounds, Same
<1>8. CASE CancelKeepingInbox \/ StartMaintenance \/ FinishMaintenance
  BY RoundsFacts, <1>8 DEF Awaiting, CancelKeepingInbox, FinishMaintenance, Free,
       Rounds, StartMaintenance, hasPending
<1>9. CASE Load \/ FinishUnload \/ Restart
  BY RoundsFacts, <1>9 DEF Awaiting, Disarms, FinishUnload, Free, Ids, Load, Restart,
       Rounds
<1>10. CASE Loop \/ Retire \/ Wake \/ BeginTurn
  BY RoundsFacts, <1>10 DEF Awaiting, BeginTurn, Free, Loop, LoopRest, Retire, Rounds,
       Wake
<1>11. CASE EndTurn \/ NextTurn \/ Replay
  BY RoundsFacts, <1>11 DEF Awaiting, Disarms, EndTurn, Free, NextTurn, Replay,
       Rounds, hasPending
<1>12. CASE Fails \/ Rejected \/ EntersEmpty
  BY RoundsFacts, <1>12 DEF Awaiting, Disarms, EndRest, Ends, EndsBlocked, EndsFailed,
       EntersEmpty, Fails, Free, Rejected, Rounds
<1>13. CASE Passed
  BY RoundsFacts, <1>13 DEF Awaiting, Free, Passed, Rounds
<1>14. CASE FenceBefore
  BY RoundsFacts, <1>14 DEF Awaiting, FenceBefore, FenceRest, Free, IsAttempt,
       RejectsStale, Requests, Restores, Rounds, Same, drivable, validReservation
<1>15. CASE FenceAfter
  <2> SUFFICES ASSUME pc' = "admit", way' = "fenced", NEW j \in claimedRounds'
               PROVE  (/\ goal.phase = "active" /\ j.ref = goal.ref
                       /\ j.round = goal.rounds + 1 /\ j.round <= goal.cap)'
    OBVIOUS
  <2>1. PICK i \in claimedRounds :
          pc' = "admit" => validReservation(i) /\ UNCHANGED <<batch, goal>>
    BY <1>15 DEF FenceAfter, FenceRest, RejectsStale
  <2>2. j = i /\ goal' = goal
    BY <2>1, RoundsFacts DEF IdsInv
  <2>3. goal.phase = "active" /\ i.ref = goal.ref /\ i.round = goal.rounds + 1
    BY <2>1 DEF validReservation, drivable
  <2>4. i.round <= goal.cap
    BY <2>3 DEF Rounds
  <2> QED
    BY <2>2, <2>3, <2>4
<1>16. CASE InnerThrows
  BY RoundsFacts, <1>16 DEF Awaiting, Disarms, Ends, Free, InnerThrows, Requests, Rounds
<1>17. CASE UNCHANGED vars
  BY RoundsFacts, <1>17 DEF Rounds, vars
<1> QED
  BY <1>1, <1>2, <1>3, <1>4, <1>5, <1>6, <1>7, <1>8, <1>9, <1>10, <1>11, <1>12, <1>13,
       <1>14, <1>15, <1>16, <1>17 DEF Moves

\* A step is fenced, late or unfenced.
LEMMA WayStep ==
  ASSUME WayType, Moves
  PROVE  WayType'
<1> USE DEF WayType, agentVars, goalVars, history, inboxVars, pluginVars, runVars, stateVars
<1>1. CASE CallerMoves
  BY <1>1 DEF CallerMoves, LateNow
<1>2. CASE SendMoves \/ CancelMoves \/ UnloadMoves
  BY <1>2 DEF CancelMoves, SendMoves, UnloadMoves
<1>3. CASE ClaimMoves \/ AbortMoves \/ NextStepMoves \/ AdmitMoves
  BY <1>3 DEF AbortMoves, AdmitMoves, ClaimMoves, NextStepMoves, TurnRest
<1>4. CASE InnerRejectsMoves \/ SettleMoves
  BY <1>4 DEF InnerRejectsMoves, LateNow, OwnChange, SettleMoves
<1>5. CASE PassKeeps /\ (PassRests \/ PassDrops \/ \E r \in Round : PassReserves(r))
  BY <1>5 DEF LateNow, OwnChange, PassDrops, PassReserves, PassRests
<1>6. CASE CancelKeepingInbox \/ StartMaintenance \/ FinishMaintenance
  BY <1>6 DEF CancelKeepingInbox, FinishMaintenance, StartMaintenance
<1>7. CASE Load \/ FinishUnload \/ Restart
  BY <1>7 DEF FinishUnload, Load, Restart
<1>8. CASE Loop \/ Retire \/ Wake \/ BeginTurn
  BY <1>8 DEF BeginTurn, Loop, LoopRest, Retire, Wake
<1>9. CASE EndTurn \/ NextTurn \/ Replay
  BY <1>9 DEF EndTurn, NextTurn, Replay
<1>10. CASE Fails \/ Rejected \/ EntersEmpty
  BY <1>10 DEF EndRest, EntersEmpty, Fails, Rejected
<1>11. CASE Passed
  BY <1>11 DEF Passed
<1>12. CASE FenceBefore \/ FenceAfter
  BY <1>12 DEF FenceAfter, FenceBefore
<1>13. CASE InnerThrows
  BY <1>13 DEF InnerThrows
<1>14. CASE UNCHANGED vars
  BY <1>14 DEF vars
<1> QED
  BY <1>1, <1>2, <1>3, <1>4, <1>5, <1>6, <1>7, <1>8, <1>9, <1>10, <1>11, <1>12, <1>13,
       <1>14 DEF Moves

\* The fold refuses no round that passed the fences and whose goal has stayed.
LEMMA FoldStep ==
  ASSUME AdmitInv, Moves, ~failed, failed'
  PROVE  way # "fenced"
<1> USE DEF agentVars, goalVars, history, inboxVars, pluginVars, runVars, stateVars
<1>1. CASE CallerMoves \/ SendMoves \/ CancelMoves \/ UnloadMoves
  BY <1>1 DEF CallerMoves, CancelMoves, SendMoves, UnloadMoves
<1>2. CASE ClaimMoves \/ AbortMoves \/ NextStepMoves \/ InnerRejectsMoves \/ SettleMoves
  BY <1>2 DEF AbortMoves, ClaimMoves, InnerRejectsMoves, NextStepMoves, SettleMoves, TurnRest
<1>3. CASE AdmitMoves
  BY <1>3 DEF AdmitMoves, AdmitInv
<1>4. CASE PassKeeps
  BY <1>4 DEF PassKeeps
<1>5. CASE CancelKeepingInbox \/ StartMaintenance \/ FinishMaintenance
  BY <1>5 DEF CancelKeepingInbox, FinishMaintenance, StartMaintenance
<1>6. CASE Load \/ FinishUnload \/ Restart
  BY <1>6 DEF FinishUnload, Load, Restart
<1>7. CASE Loop \/ Retire \/ Wake \/ BeginTurn
  BY <1>7 DEF BeginTurn, Loop, LoopRest, Retire, Wake
<1>8. CASE EndTurn \/ NextTurn \/ Replay
  BY <1>8 DEF EndTurn, NextTurn, Replay
<1>9. CASE Fails \/ Rejected \/ EntersEmpty
  BY <1>9 DEF EndRest, EntersEmpty, Fails, Rejected
<1>10. CASE Passed \/ FenceBefore \/ FenceAfter \/ InnerThrows
  BY <1>10 DEF FenceAfter, FenceBefore, FenceRest, InnerThrows, Passed
<1>11. CASE UNCHANGED vars
  BY <1>11 DEF vars
<1> QED
  BY <1>1, <1>2, <1>3, <1>4, <1>5, <1>6, <1>7, <1>8, <1>9, <1>10, <1>11 DEF Moves

\* A round that passes a fence is armed and has its attempt.
LEMMA FenceStep ==
  ASSUME GoalType, FlagType, PlaceType, QueueType, AttemptType, BatchInv, GoneInv,
         HaltInv, FenceInv, Moves
  PROVE  FenceInv'
<1> USE DEF BatchInv, GoneInv, HaltInv, FenceInv, agentVars, goalVars, history,
     inboxVars, pluginVars, runVars, stateVars
<1>1. CASE CallerMoves
  BY RoundsFacts, RoundsFacts, <1>1 DEF CallerMoves, Free, Rounds, drivable
<1>2. CASE SendMoves
  BY RoundsFacts, <1>2 DEF Free, Marked, Rounds, RoundsStay, SendMoves, drivable
<1>3. CASE CancelMoves
  BY RoundsFacts, <1>3 DEF CancelMoves, Free, Marked, Rounds, drivable
<1>4. CASE UnloadMoves
  BY RoundsFacts, <1>4 DEF Awaiting, Disarms, Free, Marked, Rounds, UnloadMoves,
       drivable
<1>5. CASE ClaimMoves \/ AbortMoves \/ NextStepMoves
  BY RoundsFacts, <1>5 DEF AbortMoves, Awaiting, ClaimMoves, Disarms, Free, Marked,
       NextStepMoves, Rounds, Same, TurnRest, drivable
<1>6. CASE InnerRejectsMoves \/ AdmitMoves
  BY RoundsFacts, <1>6 DEF AdmitMoves, Awaiting, Free, InnerRejectsMoves, OwnChange,
       Rounds, drivable
<1>7. CASE SettleMoves
  BY RoundsFacts, <1>7 DEF Awaiting, Free, OwnChange, Rounds, SettleMoves, drivable
<1>8. CASE PassKeeps /\ (PassRests \/ PassDrops)
  BY RoundsFacts, RoundsFacts, <1>8 DEF Disarms, OwnChange, PassDrops, PassKeeps,
       PassRests, Rounds, drivable
<1>9. ASSUME PassKeeps, NEW r \in Round, PassReserves(r) PROVE FenceInv'
  BY RoundsFacts, ReservesRounds, RoundsFacts, <1>9 DEF PassKeeps, PassReserves,
       Rounds, Same, drivable
<1>10. CASE CancelKeepingInbox \/ StartMaintenance \/ FinishMaintenance
  BY RoundsFacts, RoundsFacts, <1>10 DEF Awaiting, CancelKeepingInbox,
       FinishMaintenance, Free, Rounds, StartMaintenance, drivable, hasPending
<1>11. CASE Load \/ FinishUnload \/ Restart
  BY RoundsFacts, RoundsFacts, <1>11 DEF Awaiting, Disarms, FinishUnload, Free, Ids,
       Load, Restart, Rounds, drivable
<1>12. CASE Loop \/ Retire \/ Wake \/ BeginTurn
  BY RoundsFacts, RoundsFacts, <1>12 DEF Awaiting, BeginTurn, Free, Loop, LoopRest,
       Retire, Rounds, Wake, drivable
<1>13. CASE EndTurn \/ NextTurn \/ Replay
  BY RoundsFacts, RoundsFacts, <1>13 DEF Awaiting, Disarms, EndTurn, Free, NextTurn,
       Replay, Rounds, drivable, hasPending
<1>14. CASE Fails \/ Rejected \/ EntersEmpty
  BY RoundsFacts, RoundsFacts, <1>14 DEF Awaiting, Disarms, EndRest, Ends,
       EndsBlocked, EndsFailed, EntersEmpty, Fails, Free, Rejected, Rounds, drivable
<1>15. CASE Passed \/ FenceBefore \/ FenceAfter \/ InnerThrows
  BY RoundsFacts, RoundsFacts, <1>15 DEF Awaiting, Disarms, Ends, FenceAfter,
       FenceBefore, FenceRest, Free, InnerThrows, IsAttempt, Passed, RejectsStale,
       Requests, Restores, Rounds, Same, drivable, validReservation
<1>16. CASE UNCHANGED vars
  BY RoundsFacts, RoundsFacts, <1>16 DEF Rounds, drivable, vars
<1> QED
  BY <1>1, <1>2, <1>3, <1>4, <1>5, <1>6, <1>7, <1>8, <1>9, <1>10, <1>11, <1>12, <1>13,
       <1>14, <1>15, <1>16 DEF Moves

\* Only a caller arms a goal again.
LEMMA HaltStep ==
  ASSUME GoalType, FlagType, PlaceType, QueueType, AttemptType, PhaseInv, HaltInv, Moves
  PROVE  HaltInv'
<1> USE DEF PhaseInv, HaltInv, agentVars, goalVars, history, inboxVars, pluginVars,
     runVars, stateVars
<1>1. CASE CallerMoves
  BY RoundsFacts, <1>1 DEF CallerMoves, Free, drivable
<1>2. CASE SendMoves \/ CancelMoves \/ UnloadMoves
  BY <1>2 DEF Awaiting, CancelMoves, Disarms, Free, Marked, RoundsStay, SendMoves,
       UnloadMoves, drivable
<1>3. CASE ClaimMoves \/ AbortMoves \/ NextStepMoves
  BY <1>3 DEF AbortMoves, Awaiting, ClaimMoves, Disarms, Free, Marked, NextStepMoves,
       Same, TurnRest, drivable
<1>4. CASE InnerRejectsMoves \/ AdmitMoves
  BY <1>4 DEF AdmitMoves, Awaiting, Free, InnerRejectsMoves, OwnChange, drivable
<1>5. CASE SettleMoves
  BY <1>5 DEF Awaiting, Free, OwnChange, SettleMoves, drivable
<1>6. CASE PassKeeps /\ (PassRests \/ PassDrops)
  BY RoundsFacts, <1>6 DEF Disarms, OwnChange, PassDrops, PassKeeps, PassRests, drivable
<1>7. ASSUME PassKeeps, NEW r \in Round, PassReserves(r) PROVE HaltInv'
  BY ReservesRounds, RoundsFacts, <1>7 DEF PassKeeps, PassReserves, Rounds, Same,
       drivable
<1>8. CASE CancelKeepingInbox \/ StartMaintenance \/ FinishMaintenance
  BY RoundsFacts, <1>8 DEF Awaiting, CancelKeepingInbox, FinishMaintenance, Free,
       StartMaintenance, drivable, hasPending
<1>9. CASE Load \/ FinishUnload \/ Restart
  BY RoundsFacts, <1>9 DEF Awaiting, Disarms, FinishUnload, Free, Ids, Load, Restart,
       drivable
<1>10. CASE Loop \/ Retire \/ Wake \/ BeginTurn
  BY RoundsFacts, <1>10 DEF Awaiting, BeginTurn, Free, Loop, LoopRest, Retire, Wake,
       drivable
<1>11. CASE EndTurn \/ NextTurn \/ Replay
  BY RoundsFacts, <1>11 DEF Awaiting, Disarms, EndTurn, Free, NextTurn, Replay,
       drivable, hasPending
<1>12. CASE Fails \/ Rejected \/ EntersEmpty
  BY RoundsFacts, <1>12 DEF Awaiting, Disarms, EndRest, Ends, EndsBlocked, EndsFailed,
       EntersEmpty, Fails, Free, Rejected, drivable
<1>13. CASE Passed \/ FenceBefore \/ FenceAfter \/ InnerThrows
  BY RoundsFacts, <1>13 DEF Awaiting, Disarms, Ends, FenceAfter, FenceBefore,
       FenceRest, Free, InnerThrows, IsAttempt, Passed, RejectsStale, Requests,
       Restores, Same, drivable, validReservation
<1>14. CASE UNCHANGED vars
  BY RoundsFacts, <1>14 DEF drivable, vars
<1> QED
  BY <1>1, <1>2, <1>3, <1>4, <1>5, <1>6, <1>7, <1>8, <1>9, <1>10, <1>11, <1>12, <1>13,
       <1>14 DEF Moves

-----------------------------------------------------------------------------
(* The theorems.                                                             *)

\* The four parts are the type invariant.
LEMMA TypeParts ==
  TypeOK <=> GoalType /\ FlagType /\ WayType /\ PlaceType /\ QueueType /\ AttemptType
  BY DEF TypeOK, GoalType, FlagType, WayType, PlaceType, QueueType, AttemptType

\* At first no goal stands and nothing is queued.
LEMMA InitInv == Init => IInv
<1> SUFFICES ASSUME Init PROVE IInv
  OBVIOUS
<1>1. nextTurn = <<>> /\ nextTurn \in Seq(Human \cup Round) /\ Queued = {} /\ Distinct(nextTurn)
  <2>1. nextTurn = <<>>
    BY DEF Init
  <2>2. <<>> \in Seq(Human \cup Round) /\ Len(<<>>) = 0
    BY EmptySeq
  <2>3. DOMAIN nextTurn = 1 .. Len(nextTurn) /\ Len(nextTurn) = 0
    BY <2>1, <2>2, LenProperties
  <2> QED
    BY <2>1, <2>2, <2>3 DEF Queued, Range, Distinct
<1>2. QueuedRounds = {} /\ claimedRounds = {} /\ Rounds = {}
  BY <1>1 DEF Init, QueuedRounds, claimedRounds, Rounds
<1>3. GoalType
  BY DEF Init, GoalType, Goal, NoGoal
<1>4. FlagType /\ WayType /\ PlaceType /\ QueueType /\ AttemptType
  BY <1>1 DEF Init, FlagType, WayType, PlaceType, QueueType, AttemptType
<1>5. BatchInv /\ PhaseInv /\ PlacesInv /\ IdsInv
  BY <1>1, <1>2 DEF Init, BatchInv, PhaseInv, PlacesInv, IdsInv
<1>6. GoneInv /\ RoundsAreWatched /\ AttemptInv /\ InnerInv /\ ReservedInv
  BY <1>2 DEF Init, GoneInv, RoundsAreWatched, AttemptInv, InnerInv, ReservedInv
<1>7. CapInv /\ AdmitInv /\ FenceInv /\ HaltInv
  BY <1>2 DEF Init, CapInv, AdmitInv, FenceInv, HaltInv
<1> QED
  BY <1>3, <1>4, <1>5, <1>6, <1>7, TypeParts DEF IInv

\* Every step keeps the invariant.
LEMMA StepInv == IInv /\ [Next]_vars => IInv'
<1> SUFFICES ASSUME IInv, [Next]_vars PROVE IInv'
  OBVIOUS
<1>1. GoalType /\ FlagType /\ WayType /\ PlaceType /\ QueueType /\ AttemptType
  BY TypeParts DEF IInv
<1>2. /\ BatchInv /\ PhaseInv /\ PlacesInv /\ IdsInv /\ GoneInv /\ RoundsAreWatched
      /\ AttemptInv /\ InnerInv /\ ReservedInv /\ CapInv /\ AdmitInv
      /\ FenceInv /\ HaltInv
  BY DEF IInv
<1>3. Steps
  BY <1>1, <1>2, StepsCases
<1>4. Moves
  BY <1>1, <1>2, <1>3, MovesCases
<1>5. GoalType' /\ FlagType' /\ WayType' /\ PlaceType' /\ QueueType' /\ AttemptType'
  BY <1>1, <1>2, <1>3, <1>4, GoalStep, FlagStep, WayStep, PlaceStep, QueueStep, AttemptStep
<1>6. BatchInv' /\ PhaseInv' /\ PlacesInv' /\ IdsInv' /\ GoneInv'
  BY <1>1, <1>2, <1>3, <1>4, BatchStep, PhaseStep, PlacesStep, IdsStep, GoneStep
<1>7. RoundsAreWatched' /\ AttemptInv' /\ InnerInv' /\ ReservedInv'
  BY <1>1, <1>2, <1>4, WatchedStep, AttemptOfStep, InnerStep, ReservedStep
<1>8. CapInv' /\ AdmitInv'
  BY <1>1, <1>2, <1>4, CapStep, AdmitStep
<1>9. FenceInv' /\ HaltInv'
  BY <1>1, <1>2, <1>4, FenceStep, HaltStep
<1>10. TypeOK'
  BY <1>5 DEF TypeOK, GoalType, FlagType, WayType, PlaceType, QueueType, AttemptType
<1> QED
  BY <1>6, <1>7, <1>8, <1>9, <1>10 DEF IInv

\* The invariant from which the other theorems follow.
THEOREM Inductive == Spec => []IInv
<1>1. IInv /\ [Next]_vars => IInv'
  BY StepInv
<1> QED
  BY InitInv, <1>1, PTL DEF Spec

\* Every variable keeps its type.
THEOREM TypeCorrect == Spec => []TypeOK
<1>1. IInv => TypeOK
  BY DEF IInv
<1> QED
  BY Inductive, <1>1, PTL

\* No human message is lost or doubled, whatever the fences reject.
THEOREM HumanInputCorrect == Spec => []HumanInputIsConserved
<1>1. IInv => HumanInputIsConserved
  <2> SUFFICES ASSUME IInv PROVE HumanInputIsConserved
    OBVIOUS
  <2>1. QueueType /\ PlacesInv
    BY TypeParts DEF IInv
  <2> DEFINE places == <<unsent, Queued \cap Human, nextStep, batch \cap Human, settled>>
  <2>2. \A h \in Human : h \in places[1] \/ h \in places[2] \/ h \in places[3]
                           \/ h \in places[4] \/ h \in places[5]
    BY <2>1 DEF PlacesInv
  <2>3. /\ places[1] \cap places[2] = {} /\ places[1] \cap places[3] = {}
        /\ places[1] \cap places[4] = {} /\ places[1] \cap places[5] = {}
        /\ places[2] \cap places[3] = {} /\ places[2] \cap places[4] = {}
        /\ places[2] \cap places[5] = {} /\ places[3] \cap places[4] = {}
        /\ places[3] \cap places[5] = {} /\ places[4] \cap places[5] = {}
    BY <2>1 DEF PlacesInv
  <2> HIDE DEF places
  <2>4. \A k \in 1 .. 5 : k = 1 \/ k = 2 \/ k = 3 \/ k = 4 \/ k = 5
    OBVIOUS
  <2>5. \A h \in Human : \E k \in 1 .. 5 : h \in places[k]
    BY <2>2
  <2>6. \A j, k \in 1 .. 5 : j # k => places[j] \cap places[k] = {}
    BY <2>3, <2>4
  <2>7. \A j, k \in DOMAIN nextTurn : nextTurn[j] = nextTurn[k] => j = k
    BY <2>1 DEF PlacesInv, Distinct
  <2> QED
    BY <2>5, <2>6, <2>7 DEF HumanInputIsConserved, places
<1> QED
  BY Inductive, <1>1, PTL

\* No fence or cancellation strands a round in the queue.
THEOREM RoundsCorrect == Spec => []RoundsAreWatched
<1>1. IInv => RoundsAreWatched
  BY DEF IInv
<1> QED
  BY Inductive, <1>1, PTL

\* The strict fold takes every round that passed both fences and whose goal has
\* stayed as it was since.
THEOREM ReplayCorrect == Spec => FencedRoundsReplay
<1>1. IInv /\ [Next]_vars => [~failed /\ failed' => way # "fenced"]_vars
  <2> SUFFICES ASSUME IInv, [Next]_vars, ~failed, failed' PROVE way # "fenced"
    OBVIOUS
  <2>1. Moves
    BY TypeParts, StepsCases, MovesCases DEF IInv
  <2> QED
    BY <2>1, FoldStep DEF IInv
<1> QED
  BY Inductive, <1>1, PTL DEF Spec, FencedRoundsReplay

\* No round starts between the cancellation of a turn and a change of the goal.
THEOREM CancelCorrect == Spec => CancelHalts
<1>1. IInv /\ [Next]_vars => [StartsRound => ~halted]_vars
  <2> SUFFICES ASSUME IInv, StartsRound PROVE ~halted
    OBVIOUS
  <2>1. PICK i \in claimedRounds : i.id \notin loose
    BY DEF StartsRound, Ids
  <2> QED
    BY <2>1 DEF IInv, FenceInv, StartsRound
<1> QED
  BY Inductive, <1>1, PTL DEF Spec, CancelHalts

\* An unloading plugin starts no round that it watches.
THEOREM UnloadCorrect == Spec => UnloadIsFinal
<1>1. IInv /\ [Next]_vars => [StartsRound => plugin = "active"]_vars
  <2> SUFFICES ASSUME IInv, [Next]_vars, StartsRound PROVE plugin = "active"
    OBVIOUS
  <2>1. PICK i \in claimedRounds : i.id \notin loose
    BY DEF StartsRound, Ids
  <2>2. plugin # "gone" /\ (plugin = "closing" => aborted)
    BY <2>1 DEF IInv, GoneInv, FenceInv, StartsRound, Rounds
  <2>3. Moves
    BY TypeParts, StepsCases, MovesCases DEF IInv
  <2>4. ~aborted
    <3> USE DEF StartsRound
    <3>1. CASE CallerMoves \/ SendMoves \/ CancelMoves \/ UnloadMoves \/ ClaimMoves
      BY <3>1 DEF CallerMoves, SendMoves, CancelMoves, UnloadMoves, ClaimMoves, agentVars
    <3>2. CASE AbortMoves \/ NextStepMoves \/ InnerRejectsMoves \/ AdmitMoves \/ SettleMoves
      BY <3>2 DEF AbortMoves, NextStepMoves, InnerRejectsMoves, AdmitMoves, SettleMoves
    <3>3. CASE PassKeeps /\ (PassRests \/ PassDrops \/ \E r \in Round : PassReserves(r))
      BY <3>3 DEF PassKeeps, PassRests, PassDrops, PassReserves
    <3>4. CASE CancelKeepingInbox \/ StartMaintenance \/ FinishMaintenance
                 \/ Load \/ FinishUnload \/ Restart \/ Loop \/ Retire
      <4>1. CASE CancelKeepingInbox \/ StartMaintenance \/ Load \/ FinishUnload
        BY <4>1 DEF CancelKeepingInbox, StartMaintenance, Load, FinishUnload, agentVars
      <4>2. CASE FinishMaintenance \/ Restart
        BY <4>2 DEF FinishMaintenance, Restart
      <4>3. CASE Loop \/ Retire
        BY <4>3 DEF Loop, Retire, LoopRest, agentVars
      <4> QED
        BY <3>4, <4>1, <4>2, <4>3
    <3>5. CASE Wake \/ BeginTurn \/ EndTurn \/ NextTurn \/ Replay
      BY <3>5 DEF Wake, BeginTurn, EndTurn, NextTurn, Replay
    <3>6. CASE Fails \/ Rejected \/ EntersEmpty
      BY <3>6 DEF Fails, Rejected, EntersEmpty
    <3>7. CASE Passed \/ FenceBefore \/ FenceAfter \/ InnerThrows
      BY <3>7 DEF Passed, FenceBefore, FenceAfter, InnerThrows, Ends
    <3>8. CASE UNCHANGED vars
      BY <3>8 DEF vars, agentVars
    <3> QED
      BY <2>3, <3>1, <3>2, <3>3, <3>4, <3>5, <3>6, <3>7, <3>8 DEF Moves
  <2>5. plugin \in {"active", "closing", "gone"}
    BY TypeParts DEF IInv, PlaceType
  <2> QED
    BY <2>2, <2>4, <2>5
<1> QED
  BY Inductive, <1>1, PTL DEF Spec, UnloadIsFinal

-----------------------------------------------------------------------------
(* An armed goal is driven.                                                  *)

\* Somebody will come back to the goal without being asked: who holds the queue,
\* a turn, a wake that has been called for, or one latched behind maintenance.
Coming ==
  \/ competing
  \/ attempt # None /\ attempt.cancelled
  \/ phase = "running" \/ pc = "waking"
  \/ phase = "maintenance" /\ wake /\ attempt # None /\ attempt.of \in Queued

\* A pass is going on, or the loop around it has been asked for another.
Asked == run = "drive" \/ (run # "none" /\ requested)

\* A goal that no pass will look at again has somebody coming.
DrivenInv ==
  plugin = "active" /\ ~failed /\ drivable(goal)
    /\ (run = "none" \/ (run \in {"again", "retire"} /\ ~requested))
  => Coming

\* A change while a pass awaits has asked for the next one; without one the goal
\* that the pass holds is the goal that stands.
CheckInv == plugin = "active" =>
  /\ run \in {"flush", "children"} /\ checkpoint => requested
  /\ run = "children" /\ ~checkpoint => view.ref = goal.ref

DriveInv == DrivenInv /\ CheckInv

\* What is asked for is driven, and a change marks the checkpoint.
LEMMA AskedKeeps ==
  ASSUME CheckInv, UNCHANGED <<plugin, view>>,
         plugin = "active" => Asked' /\ run' \in {run, "drive"},
         plugin = "active" => checkpoint' \/ (checkpoint' = checkpoint /\ goal'.ref = goal.ref)
  PROVE  DriveInv'
<1>1. DrivenInv'
  BY DEF Asked, DrivenInv
<1>2. CheckInv'
  BY DEF Asked, CheckInv
<1> QED
  BY <1>1, <1>2 DEF DriveInv

LEMMA RequestsAsk ==
  ASSUME PlaceType, Requests, plugin = "active"
  PROVE  Asked' /\ run' \in {run, "drive"}
  BY DEF Requests, Asked, PlaceType

\* Steps that leave the run and the goal alone, or disarm it.
LEMMA QuietKeeps ==
  ASSUME DriveInv, UNCHANGED <<plugin, failed, requested, run, view, checkpoint>>,
         goal'.ref = goal.ref,
         drivable(goal)' => drivable(goal),
         plugin = "active" /\ Coming => Coming'
  PROVE  DriveInv'
<1>1. DrivenInv'
  BY DEF DriveInv, DrivenInv
<1>2. CheckInv'
  BY DEF DriveInv, CheckInv
<1> QED
  BY <1>1, <1>2 DEF DriveInv

\* A disarmed goal waits for a caller.
LEMMA DisarmsRest ==
  ASSUME failed' = failed, goal' = goal, Disarms
  PROVE  failed' \/ ~drivable(goal)'
  BY DEF Disarms, drivable

\* What callers do to the goal asks for a drive.
LEMMA CallerDrives ==
  ASSUME IInv, DriveInv, GoalCaller
  PROVE  DriveInv'
<1>1. PICK g, a : Mutates(g, a)
  BY DEF GoalCaller, Create, Edit, Pause, ModelPause, Resume, Complete, Block, Clear
<1>2. Requests /\ UNCHANGED <<plugin, view>> /\ checkpoint' = (plugin # "gone" \/ checkpoint)
  BY <1>1 DEF Mutates, Changed, pluginVars
<1>3. PlaceType
  BY TypeParts DEF IInv
<1> QED
  BY <1>2, <1>3, RequestsAsk, AskedKeeps DEF DriveInv

\* A prompt finds whoever was coming, or competes.
LEMMA SendDrives ==
  ASSUME IInv, DriveInv, NEW h \in Human, NEW list \in {"next-turn", "next-step"}, Send(h, list)
  PROVE  DriveInv'
<1>1. QueueType /\ AttemptType /\ PlaceType /\ PhaseInv
  BY TypeParts DEF IInv
<1>2. Marked
  BY <1>1, MarkedCases
<1>3. Queued \subseteq Queued'
  BY <1>1, SendQueue
<1>4. plugin = "active" /\ competing => competing'
  BY DEF Send, Competes
<1>5. phase = "running" \/ pc = "waking" => phase' = "running"
  BY <1>1 DEF Send, PhaseInv, PlaceType
<1>6. phase = "maintenance" /\ wake => phase' = "maintenance" /\ wake'
  BY DEF Send
<1>7. plugin = "active" /\ Coming => Coming'
  BY <1>2, <1>3, <1>4, <1>5, <1>6 DEF Marked, Coming
<1> QED
  BY <1>7, QuietKeeps DEF Send, goalVars, runVars, pluginVars, drivable

\* A cancelled queue takes the reservation with it, which marks the attempt.
LEMMA CancelDrives ==
  ASSUME IInv, DriveInv, Cancel
  PROVE  DriveInv'
<1>1. AttemptType
  BY TypeParts DEF IInv
<1>2. Marked
  BY <1>1, MarkedCases
<1>3. ASSUME plugin = "active", attempt # None, attempt.of \in Queued
      PROVE  attempt' # None /\ attempt'.cancelled
  <2>1. attempt \in Attempt /\ attempt.of \in Round
    BY <1>1, <1>3, AttemptFacts DEF AttemptType
  <2>2. IsAttempt(attempt.of)
    BY <1>3, <2>1, HumanAssumption DEF IsAttempt, Same
  <2>3. attempt' = [attempt EXCEPT !.cancelled = TRUE]
    BY <1>3, <2>2 DEF Cancel, Clears, Discards
  <2> QED
    BY <2>1, <2>3, AttemptFacts
<1>4. plugin = "active" /\ Coming => Coming'
  BY <1>2, <1>3 DEF Marked, Coming, Cancel
<1> QED
  BY <1>4, QuietKeeps DEF Cancel, goalVars, runVars, pluginVars, drivable

\* What else callers do disarms the goal or takes nothing from it.
LEMMA OtherDrives ==
  ASSUME IInv, DriveInv,
         CancelKeepingInbox \/ StartMaintenance \/ BeginUnload \/ Load \/ Restart \/ FinishUnload
  PROVE  DriveInv'
<1>1. CASE CancelKeepingInbox
  BY <1>1, QuietKeeps
     DEF CancelKeepingInbox, goalVars, stateVars, inboxVars, runVars, pluginVars, drivable, Coming, Queued
<1>2. CASE StartMaintenance
  <2>1. Coming => Coming'
    BY <1>2 DEF StartMaintenance, Awaiting, Coming, stateVars
  <2> QED
    BY <1>2, <2>1, QuietKeeps DEF StartMaintenance, goalVars, stateVars, runVars, pluginVars, drivable
<1>3. CASE BeginUnload \/ FinishUnload
  BY <1>3 DEF BeginUnload, FinishUnload, DriveInv, DrivenInv, CheckInv
<1>4. CASE Load
  <2>1. run = "none"
    BY <1>4 DEF IInv, GoneInv, Load
  <2>2. failed' \/ ~drivable(goal)'
    BY <1>4, DisarmsRest DEF Load
  <2> QED
    BY <1>4, <2>1, <2>2 DEF Load, DriveInv, DrivenInv, CheckInv
<1>5. CASE Restart
  BY <1>5 DEF Restart, DriveInv, DrivenInv, CheckInv, drivable
<1> QED
  BY <1>1, <1>2, <1>3, <1>4, <1>5

\* Maintenance hands the agent to a reservation whose wake it has latched.
LEMMA MaintenanceDrives ==
  ASSUME IInv, DriveInv, FinishMaintenance
  PROVE  DriveInv'
<1>1. attempt.of \in Queued => nextTurn # <<>>
  <2>1. DOMAIN <<>> = {}
    BY EmptySeq
  <2> QED
    BY <2>1 DEF Queued, Range
<1>2. Coming => Coming'
  BY <1>1 DEF FinishMaintenance, Awaiting, Coming, hasPending, stateVars
<1> QED
  BY <1>2, QuietKeeps DEF FinishMaintenance, goalVars, stateVars, runVars, pluginVars, drivable

\* A turn that stays in its phase is coming itself.
LEMMA TurnComing ==
  ASSUME PlaceType, PhaseInv, phase' = phase, pc \notin {"off", "waking", "replay"}
  PROVE  Coming'
  BY DEF PhaseInv, Coming

\* Within a turn the goal changes with a request, or keeps its revision.
LEMMA TurnDrives ==
  ASSUME IInv, DriveInv, Turn
  PROVE  DriveInv'
<1>1. GoalType /\ QueueType /\ AttemptType /\ PlaceType /\ PhaseInv
  BY TypeParts DEF IInv
<1> DEFINE inside == pc \notin {"off", "waking", "replay"} /\ phase' = phase
           quiet == UNCHANGED <<plugin, failed, run, requested, view, checkpoint, goal>>
<1>2. CASE inside /\ quiet
  <2>1. Coming'
    BY <1>1, <1>2, TurnComing
  <2> QED
    BY <1>2, <2>1 DEF DriveInv, DrivenInv, CheckInv
<1>3. CASE BeginTurn \/ Passed \/ NextStep \/ EndTurn \/ NextTurn
  BY <1>2, <1>3 DEF BeginTurn, Passed, NextStep, EndTurn, NextTurn,
                    goalVars, runVars, pluginVars, stateVars
<1>4. CASE Claim \/ Aborts \/ Fails \/ Rejected \/ EntersEmpty
  BY <1>2, <1>4 DEF Claim, Aborts, Fails, Rejected, EntersEmpty, EndRest, pluginVars
<1>5. CASE FenceBefore \/ FenceAfter \/ InnerThrows
  <2>1. inside /\ UNCHANGED <<plugin, failed, view, checkpoint, goal>>
    BY <1>5 DEF FenceBefore, FenceAfter, InnerThrows, FenceRest, goalVars, pluginVars
  <2>2. UNCHANGED <<requested, run>> \/ Requests
    BY <1>5 DEF FenceBefore, FenceAfter, InnerThrows, RejectsStale
  <2>3. CASE Requests
    BY <1>1, <2>1, <2>3, RequestsAsk, AskedKeeps DEF DriveInv
  <2> QED
    BY <1>2, <2>1, <2>2, <2>3
<1>6. CASE InnerRejects
  <2>1. inside /\ UNCHANGED <<plugin, failed, view>>
    BY <1>6 DEF InnerRejects, pluginVars
  <2>2. \/ UNCHANGED <<goal, checkpoint, requested, run>>
        \/ Requests /\ checkpoint' = (plugin # "gone" \/ checkpoint)
    BY <1>6 DEF InnerRejects, Changed
  <2>3. CASE Requests /\ checkpoint' = (plugin # "gone" \/ checkpoint)
    BY <1>1, <2>1, <2>3, RequestsAsk, AskedKeeps DEF DriveInv
  <2> QED
    BY <1>2, <2>1, <2>2, <2>3
<1>7. CASE Admit
  <2>1. inside /\ UNCHANGED <<plugin, run, requested, view, checkpoint>>
    BY <1>7 DEF Admit, runVars, pluginVars
  <2>2. goal'.ref = goal.ref
    BY <1>1, <1>7, AdmitFolds
  <2>3. Coming'
    BY <1>1, <2>1, TurnComing
  <2> QED
    BY <2>1, <2>2, <2>3 DEF DriveInv, DrivenInv, CheckInv
<1>8. CASE Wake
  BY <1>8, QuietKeeps DEF Wake, goalVars, stateVars, runVars, pluginVars, drivable, Coming
<1>9. CASE Replay
  <2>1. Coming => Coming'
    BY <1>1, <1>9 DEF Replay, Coming, PhaseInv, stateVars
  <2> QED
    BY <1>9, <2>1, QuietKeeps DEF Replay, goalVars, stateVars, runVars, pluginVars, drivable
<1>10. CASE Settle
  <2>1. UNCHANGED <<plugin, failed, view>>
    BY <1>10 DEF Settle, pluginVars
  <2>2. CASE plugin = "gone" \/ failed
    <3>1. UNCHANGED <<goal, checkpoint, requested, run>>
      BY <1>10, <2>2 DEF Settle
    <3> QED
      BY <2>1, <2>2, <3>1 DEF DriveInv, DrivenInv, CheckInv
  <2>3. CASE plugin # "gone" /\ ~failed
    <3>1. UNCHANGED <<goal, checkpoint>> \/ checkpoint' = (plugin # "gone" \/ checkpoint)
      BY <1>10, <2>3 DEF Settle, Changed
    <3>2. plugin = "active" => Asked' /\ run' \in {run, "drive"}
      BY <1>10, <2>3 DEF Settle, Asked
    <3> QED
      BY <2>1, <2>3, <3>1, <3>2, AskedKeeps DEF DriveInv
  <2> QED
    BY <2>2, <2>3
<1> QED
  BY <1>3, <1>4, <1>5, <1>6, <1>7, <1>8, <1>9, <1>10 DEF Turn

\* A reservation is woken, or behind maintenance whose wake is latched; where none
\* is made the goal is blocked, or disarmed.
LEMMA ReservesComing ==
  ASSUME GoalType, QueueType, PlaceType, NEW v \in Goal, Reserves(v),
         ~failed, phase # "running", phase' = phase, v.ref = goal.ref
  PROVE  Coming' \/ ~drivable(goal)'
<1>1. CASE v.rounds < v.cap /\ Queues(v)
  <2> DEFINE r(id) == [id |-> id, ref |-> v.ref, round |-> v.rounds + 1]
  <2>1. PICK id \in 1 .. MaxRounds :
          /\ attempt' = [of |-> r(id), at |-> "queued", cancelled |-> FALSE, stale |-> FALSE]
          /\ nextTurn' = Append(nextTurn, r(id))
          /\ IF phase = "idle" THEN pc' = "waking" /\ UNCHANGED wake
             ELSE wake' = TRUE /\ UNCHANGED pc
    BY <1>1 DEF Queues
  <2>2. r(id) \in Round
    BY <1>1 DEF Round, Goal
  <2> HIDE DEF r
  <2>3. attempt' \in Attempt /\ attempt'.of = r(id)
    BY <2>1, <2>2 DEF Attempt
  <2>4. attempt' # None
    BY <2>3, NoneAssumption
  <2>5. r(id) \in Queued'
    BY <2>1, <2>2, AppendQueue DEF Queued, QueueType
  <2> QED
    BY <2>1, <2>3, <2>4, <2>5 DEF Coming, PlaceType
<1> DEFINE blocks == /\ goal.phase = "active"
                     /\ Changed(NextRef([goal EXCEPT !.phase = "blocked"]), FALSE)
<1>2. CASE blocks
  BY <1>2, OwnChanges DEF OwnChange, GoalType, drivable
<1>3. CASE Exhausts(v)
  <2>1. blocks \/ (goal' = goal /\ Disarms)
    BY <1>3 DEF Exhausts, Blocks, DriverChange
  <2> QED
    BY <1>2, <2>1 DEF Disarms, drivable
<1>4. CASE QueueFails(v)
  <2>1. blocks \/ (UNCHANGED <<goal, armed>> /\ ~drivable(goal))
    BY <1>4 DEF QueueFails, Blocks, DriverChange, NoChange, goalVars, drivable
  <2> QED
    BY <1>2, <2>1 DEF drivable
<1> QED
  BY <1>1, <1>3, <1>4 DEF Reserves

\* Where a pass gives up, somebody is coming or has asked for another.
LEMMA PassStops ==
  ASSUME DriveInv, Passes, Skips, UNCHANGED <<requested, phase, competing, plugin>>,
         plugin = "active" => competing \/ phase = "running" \/ requested \/ failed \/ ~drivable(goal)
  PROVE  DriveInv'
<1>1. run' = "again" /\ UNCHANGED <<goal, failed, armed>>
  BY DEF Passes, Skips, NoChange, goalVars
<1>2. DrivenInv'
  BY <1>1 DEF DrivenInv, Coming, drivable
<1>3. CheckInv'
  BY <1>1 DEF CheckInv
<1> QED
  BY <1>2, <1>3 DEF DriveInv

\* A pass that reserves for the goal as it is leaves it driven.
LEMMA ReservesDrives ==
  ASSUME GoalType, QueueType, PlaceType, NEW v \in Goal, Reserves(v),
         ~failed, phase # "running", phase' = phase, v.ref = goal.ref
  PROVE  DriveInv'
<1>1. run' = "again"
  BY DEF Reserves, Passes
<1>2. Coming' \/ ~drivable(goal)'
  BY ReservesComing
<1> QED
  BY <1>1, <1>2 DEF DriveInv, DrivenInv, CheckInv

\* From the look at the attempt on.
LEMMA ProceedsDrives ==
  ASSUME GoalType, QueueType, PlaceType, DriveInv, Proceeds, readyAfterCheckpoint,
         plugin' = plugin, phase' = phase, competing' = competing
  PROVE  DriveInv'
<1>1. plugin = "active" /\ phase # "running" /\ ~checkpoint
  BY DEF readyAfterCheckpoint, readyToDrive
<1>2. CASE attempt # None
  BY <1>2 DEF Proceeds, Passes, DriveInv, DrivenInv, CheckInv
<1>3. CASE Passes /\ Skips /\ (failed \/ ~drivable(goal)) /\ UNCHANGED requested
  BY <1>3, PassStops
<1>4. CASE run' = "children" /\ view' = goal /\ Skips
  <2>1. goal' = goal /\ ~checkpoint'
    BY <1>1, <1>4 DEF Skips, NoChange, goalVars
  <2> QED
    BY <1>4, <2>1 DEF DriveInv, DrivenInv, CheckInv
<1>5. CASE Reserves(goal) /\ ~failed
  BY <1>1, <1>5, ReservesDrives DEF GoalType
<1> QED
  BY <1>2, <1>3, <1>4, <1>5 DEF Proceeds

\* Every pass and every look of the loop around it.
LEMMA PassDrives ==
  ASSUME IInv, DriveInv, Pass
  PROVE  DriveInv'
<1>1. GoalType /\ QueueType /\ PlaceType /\ ReservedInv
  BY TypeParts DEF IInv
<1> DEFINE rests == UNCHANGED <<phase, competing, plugin>>
<1>2. CASE Drive
  <2>1. rests
    BY <1>2 DEF Drive, DriverRest, pluginVars
  <2>2. CASE ~readyToDrive /\ Passes /\ Skips /\ UNCHANGED requested
    BY <2>1, <2>2, PassStops DEF readyToDrive
  <2>3. CASE run' = "flush" /\ checkpoint' = FALSE
    BY <2>3 DEF DriveInv, DrivenInv, CheckInv
  <2>4. CASE readyAfterCheckpoint /\ Proceeds
    BY <1>1, <2>1, <2>4, ProceedsDrives
  <2> QED
    BY <1>2, <2>2, <2>3, <2>4 DEF Drive, readyAfterCheckpoint
<1>3. CASE Flushed
  <2>1. rests
    BY <1>3 DEF Flushed, DriverRest, pluginVars
  <2>2. CASE readyAfterCheckpoint /\ Proceeds
    BY <1>1, <2>1, <2>2, ProceedsDrives
  <2>3. CASE ~readyAfterCheckpoint /\ Passes /\ Skips /\ UNCHANGED requested
    <3>1. plugin = "active" => competing \/ phase = "running" \/ requested
      BY <1>3, <2>3 DEF Flushed, readyAfterCheckpoint, readyToDrive, DriveInv, CheckInv
    <3> QED
      BY <2>1, <2>3, <3>1, PassStops
  <2> QED
    BY <1>3, <2>2, <2>3 DEF Flushed
<1>4. CASE WaitFails
  <2>1. failed' \/ ~drivable(goal)'
    BY <1>4, DisarmsRest DEF WaitFails
  <2>2. run' = "again"
    BY <1>4 DEF WaitFails, Passes
  <2> QED
    BY <2>1, <2>2 DEF DriveInv, DrivenInv, CheckInv
<1>5. CASE ChildrenSettle
  <2>1. rests /\ run = "children"
    BY <1>5 DEF ChildrenSettle, DriverRest, pluginVars
  <2>2. CASE readyAfterCheckpoint /\ Reserves(view)
    <3>1. phase # "running" /\ view.ref = goal.ref /\ ~failed
      BY <1>1, <2>1, <2>2 DEF readyAfterCheckpoint, readyToDrive, DriveInv, CheckInv, ReservedInv
    <3> QED
      BY <1>1, <2>1, <2>2, <3>1, ReservesDrives DEF GoalType
  <2>3. CASE ~readyAfterCheckpoint /\ Passes /\ Skips /\ UNCHANGED requested
    <3>1. plugin = "active" => competing \/ phase = "running" \/ requested
      BY <2>1, <2>3 DEF readyAfterCheckpoint, readyToDrive, DriveInv, CheckInv
    <3> QED
      BY <2>1, <2>3, <3>1, PassStops
  <2> QED
    BY <1>5, <2>2, <2>3 DEF ChildrenSettle
<1>6. CASE Loop \/ Retire
  <2>1. UNCHANGED <<goalVars, agentVars, nextTurn, stateVars, plugin>>
    BY <1>6 DEF Loop, Retire, LoopRest, inboxVars, pluginVars
  <2>2. Coming => Coming'
    BY <2>1 DEF Coming, agentVars, stateVars, Queued
  <2>3. \/ run' = "drive"
        \/ run \in {"again", "retire"} /\ (requested => plugin # "active") /\ run' \in {"retire", "none"}
    BY <1>6 DEF Loop, Retire
  <2> QED
    BY <2>1, <2>2, <2>3 DEF goalVars, drivable, DriveInv, DrivenInv, CheckInv
<1> QED
  BY <1>2, <1>3, <1>4, <1>5, <1>6 DEF Pass

\* Every step keeps an armed goal driven.
LEMMA StepDrives == IInv /\ DriveInv /\ [Next]_vars => DriveInv'
<1> SUFFICES ASSUME IInv, DriveInv, [Next]_vars PROVE DriveInv'
  OBVIOUS
<1>1. CASE Caller
  BY <1>1, SendDrives, CancelDrives, OtherDrives DEF Caller
<1>2. CASE UNCHANGED vars
  <2>1. UNCHANGED <<goalVars, agentVars, inboxVars, stateVars, runVars, pluginVars>>
    BY <1>2 DEF vars
  <2>2. Coming => Coming'
    BY <2>1 DEF Coming, agentVars, stateVars, inboxVars, Queued
  <2> QED
    BY <2>1, <2>2, QuietKeeps DEF goalVars, stateVars, runVars, pluginVars, drivable
<1> QED
  BY <1>1, <1>2, CallerDrives, PassDrives, TurnDrives, MaintenanceDrives, OtherDrives DEF Next

\* No trigger is lost: at rest an armed goal waits for somebody.
THEOREM ArmedCorrect == Spec => []ArmedIsDriven
<1>1. Init => DriveInv
  BY DEF Init, DriveInv, DrivenInv, CheckInv, drivable
<1>2. IInv /\ DriveInv => ArmedIsDriven
  <2> SUFFICES ASSUME IInv, DriveInv, AtRest, plugin = "active", ~failed, drivable(goal)
               PROVE  competing \/ (attempt # None /\ attempt.cancelled)
    BY DEF ArmedIsDriven
  <2>1. Coming
    BY DEF AtRest, DriveInv, DrivenInv
  <2> QED
    BY <2>1 DEF Coming, AtRest
<1> QED
  BY Inductive, StepDrives, <1>1, <1>2, PTL DEF Spec

=============================================================================
