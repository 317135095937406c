------------------------- MODULE AgentLedgerProofs -------------------------
(***************************************************************************)
(* AgentDriver implements InputLedger, for every set of messages.          *)
(***************************************************************************)
EXTENDS AgentDriverProofs

-----------------------------------------------------------------------------
(* The inbox's lists as sets.                                                *)

Distinct(s) == \A j, k \in DOMAIN s : s[j] = s[k] => j = k

\* A new message at the end of a list leaves it without repetitions.
LEMMA DistinctAppend ==
  ASSUME NEW S, NEW s \in Seq(S), NEW e \in S, Distinct(s), e \notin Range(s)
  PROVE  Distinct(Append(s, e))
<1>1. /\ Append(s, e) \in Seq(S) /\ Len(Append(s, e)) = Len(s) + 1
      /\ \A i \in 1 .. Len(s) : Append(s, e)[i] = s[i]
      /\ Append(s, e)[Len(s) + 1] = e
  BY AppendProperties
<1>2. /\ Len(s) \in Nat /\ DOMAIN s = 1 .. Len(s)
      /\ DOMAIN Append(s, e) = 1 .. Len(s) + 1
  BY <1>1, LenProperties
<1>3. \A i \in 1 .. Len(s) : s[i] # e
  BY <1>2 DEF Range
<1>4. \A i \in 1 .. Len(s) + 1 : i \in 1 .. Len(s) \/ i = Len(s) + 1
  BY <1>2
<1>. QED
  BY <1>1, <1>2, <1>3, <1>4 DEF Distinct

\* So does a new message in front of it.
LEMMA DistinctCons ==
  ASSUME NEW S, NEW s \in Seq(S), NEW e \in S, Distinct(s), e \notin Range(s)
  PROVE  Distinct(<<e>> \o s)
<1>. DEFINE t == <<e>>
            u == t \o s
<1>1. t \in Seq(S) /\ Len(t) = 1 /\ t[1] = e
  OBVIOUS
<1>. HIDE DEF t
<1>2. DOMAIN s = 1 .. Len(s) /\ Len(s) \in Nat
  BY LenProperties
<1>3. /\ u \in Seq(S) /\ Len(u) = Len(t) + Len(s)
      /\ \A i \in 1 .. Len(t) + Len(s) : u[i] = IF i <= Len(t) THEN t[i] ELSE s[i - Len(t)]
  BY <1>1, ConcatProperties, Zenon
<1>. HIDE DEF u
<1>4. DOMAIN u = 1 .. 1 + Len(s) /\ u[1] = e
  BY <1>1, <1>2, <1>3, LenProperties
<1>5. \A i \in 1 .. 1 + Len(s) : i # 1 => i - 1 \in 1 .. Len(s) /\ u[i] = s[i - 1]
  BY <1>1, <1>2, <1>3
<1>6. \A i \in 1 .. Len(s) : s[i] # e
  BY <1>2 DEF Range
<1>7. \A j, k \in 1 .. 1 + Len(s) : j # 1 /\ k # 1 /\ j - 1 = k - 1 => j = k
  BY <1>2
<1>8. \A j, k \in 1 .. 1 + Len(s) : j # 1 /\ k # 1 /\ u[j] = u[k] => j = k
  BY <1>2, <1>5, <1>7 DEF Distinct
<1>9. \A j \in 1 .. 1 + Len(s) : j # 1 => u[j] # e
  BY <1>5, <1>6
<1>10. Distinct(u)
  BY <1>4, <1>8, <1>9 DEF Distinct
<1>. QED
  BY <1>10 DEF u, t

\* What is left of a list when its first message is claimed.
LEMMA DistinctTail ==
  ASSUME NEW S, NEW s \in Seq(S), s # <<>>, Distinct(s)
  PROVE  Distinct(Tail(s)) /\ Range(Tail(s)) = Range(s) \ {Head(s)}
<1>1. /\ Tail(s) \in Seq(S) /\ Head(s) \in S /\ Len(Tail(s)) = Len(s) - 1
      /\ \A i \in 1 .. Len(Tail(s)) : Tail(s)[i] = s[i + 1]
      /\ Head(s) = s[1]
  BY HeadTailProperties
<1>2. /\ Len(s) \in Nat \ {0} /\ DOMAIN s = 1 .. Len(s)
      /\ DOMAIN Tail(s) = 1 .. Len(s) - 1
  BY <1>1, LenProperties, EmptySeq
<1>3. /\ \A i \in 1 .. Len(s) - 1 : i + 1 \in 1 .. Len(s) /\ i + 1 # 1
      /\ \A i \in 1 .. Len(s) : i = 1 \/ (i - 1 \in 1 .. Len(s) - 1 /\ (i - 1) + 1 = i)
      /\ \A j, k \in 1 .. Len(s) - 1 : j + 1 = k + 1 => j = k
      /\ 1 \in 1 .. Len(s)
  BY <1>2
<1>4. Range(Tail(s)) \subseteq Range(s) \ {Head(s)}
  BY <1>1, <1>2, <1>3 DEF Range, Distinct
<1>5. Range(s) \ {Head(s)} \subseteq Range(Tail(s))
  <2>. SUFFICES ASSUME NEW i \in 1 .. Len(s), i # 1
                PROVE  s[i] \in Range(Tail(s))
    BY <1>1, <1>2 DEF Range
  <2>1. i - 1 \in 1 .. Len(s) - 1 /\ Tail(s)[i - 1] = s[i]
    BY <1>1, <1>3
  <2>. QED
    BY <1>2, <2>1 DEF Range
<1>6. Distinct(Tail(s))
  BY <1>1, <1>2, <1>3 DEF Distinct
<1>. QED
  BY <1>4, <1>5, <1>6

\* What is left of a list when one message is removed.
LEMMA DistinctDropAt ==
  ASSUME NEW S, NEW s \in Seq(S), NEW i \in DOMAIN s, Distinct(s)
  PROVE  Distinct(DropAt(s, i)) /\ Range(DropAt(s, i)) = Range(s) \ {s[i]}
<1>. DEFINE r == DropAt(s, i)
            at(j) == IF j < i THEN j ELSE j + 1
<1>1. Len(s) \in Nat /\ DOMAIN s = 1 .. Len(s) /\ i \in 1 .. Len(s)
  BY LenProperties
<1>2. DOMAIN r = 1 .. Len(s) - 1
  BY DEF DropAt
<1>3. \A j \in 1 .. Len(s) - 1 : /\ at(j) \in 1 .. Len(s) /\ at(j) # i /\ r[j] = s[at(j)]
  BY <1>1 DEF DropAt
<1>4. \A j, k \in 1 .. Len(s) - 1 : at(j) = at(k) => j = k
  BY <1>1
<1>5. \A k \in 1 .. Len(s) : k # i => \E j \in 1 .. Len(s) - 1 : at(j) = k
  <2>. SUFFICES ASSUME NEW k \in 1 .. Len(s), k # i
                PROVE  \E j \in 1 .. Len(s) - 1 : at(j) = k
    OBVIOUS
  <2>1. CASE k < i
    <3>1. k \in 1 .. Len(s) - 1 /\ at(k) = k
      BY <1>1, <2>1
    <3>. QED
      BY <3>1
  <2>2. CASE i < k
    <3>1. k - 1 \in 1 .. Len(s) - 1 /\ at(k - 1) = k
      BY <1>1, <2>2
    <3>. QED
      BY <3>1
  <2>. QED
    BY <1>1, <2>1, <2>2
<1>. HIDE DEF r, at
<1>6. Distinct(r)
  BY <1>1, <1>2, <1>3, <1>4 DEF Distinct
<1>7. Range(r) \subseteq Range(s) \ {s[i]}
  BY <1>1, <1>2, <1>3 DEF Range, Distinct
<1>8. Range(s) \ {s[i]} \subseteq Range(r)
  <2>. SUFFICES ASSUME NEW k \in 1 .. Len(s), k # i
                PROVE  s[k] \in Range(r)
    BY <1>1 DEF Range
  <2>1. PICK j \in 1 .. Len(s) - 1 : at(j) = k
    BY <1>5
  <2>. QED
    BY <1>2, <1>3, <2>1 DEF Range
<1>. QED
  BY <1>6, <1>7, <1>8 DEF r

\* A new message in the place of another.
LEMMA DistinctExcept ==
  \A s \in Seq(Message), e \in Message : \A i \in DOMAIN s :
    Distinct(s) /\ e \notin Range(s)
      => /\ Distinct([s EXCEPT ![i] = e])
         /\ Range([s EXCEPT ![i] = e]) = (Range(s) \ {s[i]}) \cup {e}
<1>. SUFFICES ASSUME NEW s \in Seq(Message), NEW e \in Message, NEW i \in DOMAIN s,
                     Distinct(s), e \notin Range(s)
              PROVE  /\ Distinct([s EXCEPT ![i] = e])
                     /\ Range([s EXCEPT ![i] = e]) = (Range(s) \ {s[i]}) \cup {e}
  OBVIOUS
<1>. DEFINE r == [s EXCEPT ![i] = e]
<1>1. DOMAIN r = DOMAIN s /\ r[i] = e /\ \A j \in DOMAIN s : j # i => r[j] = s[j]
  BY LenProperties
<1>. HIDE DEF r
<1>2. \A j \in DOMAIN s : s[j] # e /\ (j # i => s[j] # s[i])
  BY DEF Range, Distinct
<1>3. Distinct(r)
  BY <1>1, <1>2 DEF Distinct
<1>4. Range(r) = (Range(s) \ {s[i]}) \cup {e}
  <2>1. Range(r) \subseteq (Range(s) \ {s[i]}) \cup {e}
    BY <1>1, <1>2 DEF Range
  <2>2. (Range(s) \ {s[i]}) \cup {e} \subseteq Range(r)
    BY <1>1, <1>2 DEF Range
  <2>. QED
    BY <2>1, <2>2
<1>. QED
  BY <1>3, <1>4 DEF r

-----------------------------------------------------------------------------
(* Every message is in one place, and what a step can do to the places.      *)

ListInv ==
  /\ Distinct(nextTurn) /\ Distinct(nextStep)
  /\ Range(nextTurn) \cap Range(nextStep) = {}

\* A message is somewhere, and nowhere else.
PlaceInv ==
  /\ Message \subseteq unsent \cup Pending \cup batch \cup admitted \cup discarded \cup dropped
  /\ unsent \cap (Pending \cup batch \cup admitted \cup discarded \cup dropped) = {}
  /\ Pending \cap (batch \cup admitted \cup discarded \cup dropped) = {}
  /\ batch \cap (admitted \cup discarded \cup dropped) = {}
  /\ admitted \cap (discarded \cup dropped) = {}
  /\ discarded \cap dropped = {}

IsOpen == bracket # "none"
IsRefused == pc \in {"restoring", "rejected", "failed"}

Stays == UNCHANGED <<unsent, Pending, batch, admitted, discarded, dropped>>

Inserts(m) ==
  /\ m \in unsent /\ unsent' = unsent \ {m} /\ Pending' = Pending \cup {m}
  /\ UNCHANGED <<batch, admitted, discarded, dropped>>

Replaces(m, n) ==
  /\ m \in Pending /\ n \in unsent
  /\ unsent' = unsent \ {n} /\ Pending' = (Pending \ {m}) \cup {n}
  /\ discarded' = discarded \cup {m}
  /\ UNCHANGED <<batch, admitted, dropped>>

Cancels(S) ==
  /\ S \subseteq Pending /\ Pending' = Pending \ S /\ discarded' = discarded \cup S
  /\ UNCHANGED <<unsent, batch, admitted, dropped>>

Claims(S) ==
  /\ S \subseteq Pending /\ Pending' = Pending \ S /\ batch' = batch \cup S
  /\ UNCHANGED <<unsent, admitted, discarded, dropped>>

Admits ==
  /\ admitted' = admitted \cup batch /\ batch' = {}
  /\ UNCHANGED <<unsent, Pending, discarded, dropped>>

Drops(S) ==
  /\ S \subseteq batch /\ batch' = batch \ S /\ dropped' = dropped \cup S
  /\ UNCHANGED <<unsent, Pending, admitted, discarded>>

PutsBack(S) ==
  /\ S \subseteq batch /\ batch' = batch \ S /\ Pending' = Pending \cup S
  /\ UNCHANGED <<unsent, admitted, discarded, dropped>>

\* A caller's doing, the turn's own, or the turn's beginning, refusal or end.
Callers == /\ IsOpen' = IsOpen /\ IsRefused' = IsRefused
           /\ \/ Stays
              \/ \E m \in Message : Inserts(m)
              \/ \E m, n \in Message : Replaces(m, n)
              \/ \E S \in SUBSET Message : Cancels(S)

Turns == /\ IsOpen /\ IsOpen' /\ ~IsRefused /\ ~IsRefused'
         /\ \/ \E S \in SUBSET Message : Claims(S)
            \/ Admits
            \/ \E S \in SUBSET Message : Drops(S)

Opens == ~IsOpen /\ IsOpen' /\ IsRefused' = IsRefused /\ Stays

GivesUp == IsOpen /\ IsOpen' /\ IsRefused' /\ \E S \in SUBSET Message : PutsBack(S)

Closes == IsOpen /\ ~IsOpen' /\ ~IsRefused' /\ Drops(batch)

Moves == Callers \/ Turns \/ Opens \/ GivesUp \/ Closes

\* Whatever moves, each message stays in one place.
LEMMA MovesKeep ==
  ASSUME PlaceInv, Moves
  PROVE  PlaceInv'
<1>1. ASSUME Stays PROVE PlaceInv'
  BY <1>1 DEF Stays, PlaceInv
<1>2. ASSUME NEW m \in Message, Inserts(m) PROVE PlaceInv'
  BY <1>2 DEF Inserts, PlaceInv
<1>3. ASSUME NEW m \in Message, NEW n \in Message, Replaces(m, n) PROVE PlaceInv'
  BY <1>3 DEF Replaces, PlaceInv
<1>4. ASSUME NEW S \in SUBSET Message, Cancels(S) PROVE PlaceInv'
  BY <1>4 DEF Cancels, PlaceInv
<1>5. ASSUME NEW S \in SUBSET Message, Claims(S) PROVE PlaceInv'
  BY <1>5 DEF Claims, PlaceInv
<1>6. ASSUME Admits PROVE PlaceInv'
  BY <1>6 DEF Admits, PlaceInv
<1>7. ASSUME NEW S, Drops(S) PROVE PlaceInv'
  BY <1>7 DEF Drops, PlaceInv
<1>8. ASSUME NEW S, PutsBack(S) PROVE PlaceInv'
  BY <1>8 DEF PutsBack, PlaceInv
<1>. QED
  BY <1>1, <1>2, <1>3, <1>4, <1>5, <1>6, <1>7, <1>8 DEF Moves, Callers, Turns, Opens, GivesUp,
     Closes

-----------------------------------------------------------------------------
(* The moves are steps of the ledger.                                        *)

\* The fate of a message says where it is.
LEMMA Fates ==
  ASSUME PlaceInv
  PROVE  \A m \in Message :
           /\ m \in unsent => LedgerFate[m] = "unsent"
           /\ m \in Pending => LedgerFate[m] = "pending"
           /\ m \in batch => LedgerFate[m] = "claimed"
           /\ m \in admitted => LedgerFate[m] = "admitted"
           /\ m \in discarded => LedgerFate[m] = "discarded"
           /\ m \in dropped => LedgerFate[m] = "dropped"
  BY DEF PlaceInv, LedgerFate

\* The same after a step.
LEMMA FatesNext ==
  ASSUME PlaceInv'
  PROVE  \A m \in Message :
           /\ m \in unsent' => LedgerFate'[m] = "unsent"
           /\ m \in Pending' => LedgerFate'[m] = "pending"
           /\ m \in batch' => LedgerFate'[m] = "claimed"
           /\ m \in admitted' => LedgerFate'[m] = "admitted"
           /\ m \in discarded' => LedgerFate'[m] = "discarded"
           /\ m \in dropped' => LedgerFate'[m] = "dropped"
  BY DEF PlaceInv, LedgerFate

\* A fate is that of a message.
LEMMA FateTypes ==
  /\ PlaceInv => LedgerFate \in [Message -> Ledger!Fates]
  /\ PlaceInv' => LedgerFate' \in [Message -> Ledger!Fates]
  BY DEF PlaceInv, LedgerFate, Ledger!Fates

\* The messages of one fate are those of one place.
LEMMA WithFate ==
  ASSUME PlaceInv
  PROVE  /\ Ledger!With("unsent") = unsent \cap Message
         /\ Ledger!With("pending") = Pending \cap Message
         /\ Ledger!With("claimed") = batch \cap Message
<1>1. \A m \in Message :
        \/ m \in unsent \/ m \in Pending \/ m \in batch
        \/ m \in admitted \/ m \in discarded \/ m \in dropped
  BY DEF PlaceInv
<1>. QED
  BY <1>1, Fates DEF Ledger!With

\* Fates change where places do.
LEMMA Becoming ==
  ASSUME PlaceInv', NEW S, NEW f,
         \A m \in Message : LedgerFate'[m] = IF m \in S THEN f ELSE LedgerFate[m]
  PROVE  Ledger!Becomes(S, f)
<1>1. LedgerFate' = [m \in Message |-> LedgerFate'[m]]
  BY FateTypes
<1>2. [m \in Message |-> LedgerFate'[m]] = [m \in Message |-> IF m \in S THEN f ELSE LedgerFate[m]]
  OBVIOUS
<1>. QED
  BY <1>1, <1>2 DEF Ledger!Becomes

\* A move is a step of the ledger, or leaves it alone.
LEMMA MovesLedger ==
  ASSUME PlaceInv, PlaceInv', Moves
  PROVE  [Ledger!Next]_<<LedgerFate, IsOpen, IsRefused>>
<1>. USE DEF IsOpen, IsRefused
<1>0. \A m \in Message :
        \/ m \in unsent \/ m \in Pending \/ m \in batch
        \/ m \in admitted \/ m \in discarded \/ m \in dropped
  BY DEF PlaceInv
<1>s. ASSUME Stays PROVE LedgerFate' = LedgerFate
  <2>1. UNCHANGED <<unsent, Pending, batch, admitted, discarded, dropped>>
    BY <1>s DEF Stays
  <2>. QED
    BY <2>1 DEF LedgerFate
<1>1. CASE Callers
  <2>. IsOpen' = IsOpen /\ IsRefused' = IsRefused
    BY <1>1 DEF Callers
  <2>1. CASE Stays
    BY <1>s, <2>1
  <2>2. ASSUME NEW m \in Message, Inserts(m) PROVE Ledger!Insert
    <3>1. \A k \in Message : LedgerFate'[k] = IF k \in {m} THEN "pending" ELSE LedgerFate[k]
      BY <1>0, <2>2, Fates, FatesNext DEF Inserts
    <3>2. Ledger!Becomes({m}, "pending")
      BY <3>1, Becoming
    <3>3. m \in Ledger!With("unsent")
      BY <2>2, WithFate DEF Inserts
    <3>. QED
      BY <3>2, <3>3 DEF Ledger!Insert
  <2>3. ASSUME NEW m \in Message, NEW n \in Message, Replaces(m, n) PROVE Ledger!Replace
    <3>1. \A k \in Message : LedgerFate'[k] = IF k = n THEN "pending"
                                             ELSE IF k = m THEN "discarded" ELSE LedgerFate[k]
      BY <1>0, <2>3, Fates, FatesNext DEF Replaces, PlaceInv
    <3>2. n \in Ledger!With("unsent") /\ m \in Ledger!With("pending") /\ m # n
      BY <2>3, WithFate DEF Replaces, PlaceInv
    <3>3. LedgerFate \in [Message -> Ledger!Fates] /\ LedgerFate' \in [Message -> Ledger!Fates]
      BY FateTypes
    <3>4. LedgerFate' = [LedgerFate EXCEPT ![n] = "pending", ![m] = "discarded"]
      BY <3>1, <3>2, <3>3
    <3>. QED
      BY <3>2, <3>4 DEF Ledger!Replace
  <2>4. ASSUME NEW S \in SUBSET Message, Cancels(S) PROVE Ledger!Discard
    <3>1. \A k \in Message : LedgerFate'[k] = IF k \in S THEN "discarded" ELSE LedgerFate[k]
      BY <1>0, <2>4, Fates, FatesNext DEF Cancels
    <3>2. Ledger!Becomes(S, "discarded")
      BY <3>1, Becoming
    <3>3. S \subseteq Ledger!With("pending")
      BY <2>4, WithFate DEF Cancels
    <3>. QED
      BY <3>2, <3>3 DEF Ledger!Discard
  <2>. QED
    BY <1>1, <2>1, <2>2, <2>3, <2>4 DEF Callers, Ledger!Next
<1>2. CASE Turns
  <2>. IsOpen' = IsOpen /\ IsRefused' = IsRefused /\ IsOpen /\ ~IsRefused
    BY <1>2 DEF Turns, IsOpen, IsRefused
  <2>1. ASSUME NEW S \in SUBSET Message, Claims(S) PROVE Ledger!Claim
    <3>1. \A k \in Message : LedgerFate'[k] = IF k \in S THEN "claimed" ELSE LedgerFate[k]
      BY <1>0, <2>1, Fates, FatesNext DEF Claims
    <3>2. Ledger!Becomes(S, "claimed")
      BY <3>1, Becoming
    <3>3. S \subseteq Ledger!With("pending")
      BY <2>1, WithFate DEF Claims
    <3>. QED
      BY <3>2, <3>3 DEF Ledger!Claim
  <2>2. ASSUME Admits PROVE Ledger!Admit
    <3>1. \A k \in Message : LedgerFate'[k] = IF k \in Ledger!With("claimed") THEN "admitted"
                                             ELSE LedgerFate[k]
      BY <1>0, <2>2, Fates, FatesNext, WithFate DEF Admits
    <3>2. Ledger!Becomes(Ledger!With("claimed"), "admitted")
      BY <3>1, Becoming
    <3>. QED
      BY <3>2 DEF Ledger!Admit
  <2>3. ASSUME NEW S \in SUBSET Message, Drops(S) PROVE Ledger!Drop
    <3>1. \A k \in Message : LedgerFate'[k] = IF k \in S THEN "dropped" ELSE LedgerFate[k]
      BY <1>0, <2>3, Fates, FatesNext DEF Drops
    <3>2. Ledger!Becomes(S, "dropped")
      BY <3>1, Becoming
    <3>3. S \subseteq Ledger!With("claimed")
      BY <2>3, WithFate DEF Drops
    <3>. QED
      BY <3>2, <3>3 DEF Ledger!Drop
  <2>. QED
    BY <1>2, <2>1, <2>2, <2>3 DEF Turns, Ledger!Next
<1>3. CASE Opens
  <2>1. LedgerFate' = LedgerFate
    BY <1>3, <1>s DEF Opens
  <2>2. ~IsOpen /\ IsOpen' = TRUE /\ IsRefused' = IsRefused
    BY <1>3 DEF Opens, IsOpen
  <2>. QED
    BY <2>1, <2>2 DEF Ledger!OpenTurn, Ledger!Next
<1>4. CASE Closes
  <2>1. \A k \in Message : LedgerFate'[k] = IF k \in Ledger!With("claimed") THEN "dropped"
                                           ELSE LedgerFate[k]
    BY <1>0, <1>4, Fates, FatesNext, WithFate DEF Closes, Drops
  <2>2. Ledger!Becomes(Ledger!With("claimed"), "dropped")
    BY <2>1, Becoming
  <2>3. IsOpen /\ IsOpen' = FALSE /\ IsRefused' = FALSE
    BY <1>4 DEF Closes, IsOpen, IsRefused
  <2>. QED
    BY <2>2, <2>3 DEF Ledger!CloseTurn, Ledger!Next
<1>5. CASE GivesUp
  <2>1. PICK S \in SUBSET Message : PutsBack(S)
    BY <1>5 DEF GivesUp
  <2>2. \A k \in Message : LedgerFate'[k] = IF k \in S THEN "pending" ELSE LedgerFate[k]
    BY <1>0, <2>1, Fates, FatesNext DEF PutsBack
  <2>3. Ledger!Becomes(S, "pending")
    BY <2>2, Becoming
  <2>4. S \in SUBSET Ledger!With("claimed")
    BY <2>1, WithFate DEF PutsBack
  <2>5. IsOpen /\ IsOpen' = IsOpen /\ IsRefused' = TRUE
    BY <1>5 DEF GivesUp, IsOpen, IsRefused
  <2>. QED
    BY <2>3, <2>4, <2>5 DEF Ledger!Refuse, Ledger!Next
<1>. QED
  BY <1>1, <1>2, <1>3, <1>4, <1>5 DEF Moves

-----------------------------------------------------------------------------
(* Every step of the driver is a move.                                       *)

\* Changing nothing but the control leaves the places alone.
LEMMA Leaves ==
  ASSUME UNCHANGED <<inbox, batch, fates>>
  PROVE  Stays /\ (ListInv => ListInv')
  BY DEF Stays, ListInv, Pending, inbox, fates

\* A new message in one of the lists.
LEMMA PushMoves ==
  ASSUME TypeOK, ListInv, PlaceInv, NEW m \in unsent, NEW list, Push(list, m)
  PROVE  Pending' = Pending \cup {m} /\ ListInv'
<1>1. m \in Message /\ m \notin Range(nextTurn) /\ m \notin Range(nextStep)
  BY DEF TypeOK, PlaceInv, Pending
<1>2. nextTurn \in Seq(Message) /\ nextStep \in Seq(Message)
  BY DEF TypeOK
<1>3. Range(Append(nextTurn, m)) = Range(nextTurn) \cup {m} /\ Distinct(Append(nextTurn, m))
  BY <1>1, <1>2, RangeAppend, DistinctAppend DEF ListInv
<1>4. Range(Append(nextStep, m)) = Range(nextStep) \cup {m} /\ Distinct(Append(nextStep, m))
  BY <1>1, <1>2, RangeAppend, DistinctAppend DEF ListInv
<1>5. ListInv'
  BY <1>1, <1>3, <1>4 DEF Push, ListInv
<1>. QED
  BY <1>1, <1>5, PendingPush

\* What a tool batch leaves for the next step.
LEMMA ContextMoves ==
  ASSUME TypeOK, ListInv, PlaceInv, ToolContext,
         UNCHANGED <<nextTurn, batch, admitted, discarded, dropped>>
  PROVE  (Stays \/ \E m \in Message : Inserts(m)) /\ ListInv'
<1>1. CASE UNCHANGED <<nextStep, unsent>>
  BY <1>1 DEF Stays, ListInv, Pending
<1>2. ASSUME NEW m \in unsent, nextStep' = Append(nextStep, m), unsent' = unsent \ {m}
      PROVE  (\E n \in Message : Inserts(n)) /\ ListInv'
  <2>1. Pending' = Pending \cup {m} /\ ListInv'
    BY <1>2, PushMoves DEF Push
  <2>2. m \in Message
    BY DEF TypeOK
  <2>. QED
    BY <1>2, <2>1, <2>2 DEF Inserts
<1>. QED
  BY <1>1, <1>2 DEF ToolContext

\* Emptying a list takes what it held.
LEMMA EmptyMoves ==
  ASSUME ListInv
  PROVE  /\ nextStep' = <<>> /\ nextTurn' = nextTurn
              => ListInv' /\ Pending' = Pending \ Range(nextStep)
         /\ nextTurn' = <<>> /\ nextStep' = nextStep
              => ListInv' /\ Pending' = Pending \ Range(nextTurn)
<1>1. Range(<<>>) = {} /\ Distinct(<<>>)
  BY DEF Range, Distinct
<1>. QED
  BY <1>1 DEF ListInv, Pending

\* Removing a message takes that message; replacing it puts another there.
LEMMA RemoveMoves ==
  ASSUME TypeOK, ListInv, PlaceInv, NEW m \in Message, NEW n \in Message,
         Remove(m) \/ Replace(m, n)
  PROVE  ((\E S \in SUBSET Message : Cancels(S)) \/ Replaces(m, n)) /\ ListInv'
<1>1. nextTurn \in Seq(Message) /\ nextStep \in Seq(Message)
  BY DEF TypeOK
<1>2. \A i \in DOMAIN nextTurn : nextTurn[i] \in Range(nextTurn)
  BY DEF Range
<1>3. \A i \in DOMAIN nextStep : nextStep[i] \in Range(nextStep)
  BY DEF Range
<1>4. CASE Remove(m)
  <2>1. ASSUME NEW i \in DOMAIN nextTurn, nextTurn[i] = m, nextTurn' = DropAt(nextTurn, i),
               nextStep' = nextStep
        PROVE  m \in Pending /\ Pending' = Pending \ {m} /\ ListInv'
    <3>1. Distinct(nextTurn') /\ Range(nextTurn') = Range(nextTurn) \ {m}
      BY <1>1, <2>1, DistinctDropAt DEF ListInv
    <3>. QED
      BY <1>2, <2>1, <3>1 DEF ListInv, Pending
  <2>2. ASSUME NEW i \in DOMAIN nextStep, nextStep[i] = m, nextStep' = DropAt(nextStep, i),
               nextTurn' = nextTurn
        PROVE  m \in Pending /\ Pending' = Pending \ {m} /\ ListInv'
    <3>1. Distinct(nextStep') /\ Range(nextStep') = Range(nextStep) \ {m}
      BY <1>1, <2>2, DistinctDropAt DEF ListInv
    <3>. QED
      BY <1>3, <2>2, <3>1 DEF ListInv, Pending
  <2>3. m \in Pending /\ Pending' = Pending \ {m} /\ ListInv'
    BY <1>4, <2>1, <2>2 DEF Remove
  <2>4. Cancels({m})
    BY <1>4, <2>3 DEF Remove, Cancels
  <2>. QED
    BY <2>3, <2>4
<1>5. CASE Replace(m, n)
  <2>0. n \notin Range(nextTurn) /\ n \notin Range(nextStep)
    BY <1>5 DEF Replace, PlaceInv, Pending
  <2>1. ASSUME NEW i \in DOMAIN nextTurn, nextTurn[i] = m, nextTurn' = [nextTurn EXCEPT ![i] = n],
               nextStep' = nextStep
        PROVE  m \in Pending /\ Pending' = (Pending \ {m}) \cup {n} /\ ListInv'
    <3>1. Distinct(nextTurn') /\ Range(nextTurn') = (Range(nextTurn) \ {m}) \cup {n}
      BY <1>1, <2>0, <2>1, DistinctExcept DEF ListInv
    <3>. QED
      BY <1>2, <2>0, <2>1, <3>1 DEF ListInv, Pending
  <2>2. ASSUME NEW i \in DOMAIN nextStep, nextStep[i] = m, nextStep' = [nextStep EXCEPT ![i] = n],
               nextTurn' = nextTurn
        PROVE  m \in Pending /\ Pending' = (Pending \ {m}) \cup {n} /\ ListInv'
    <3>1. Distinct(nextStep') /\ Range(nextStep') = (Range(nextStep) \ {m}) \cup {n}
      BY <1>1, <2>0, <2>2, DistinctExcept DEF ListInv
    <3>. QED
      BY <1>3, <2>0, <2>2, <3>1 DEF ListInv, Pending
  <2>3. m \in Pending /\ Pending' = (Pending \ {m}) \cup {n} /\ ListInv'
    BY <1>5, <2>1, <2>2 DEF Replace, ReplaceAt
  <2>. QED
    BY <1>5, <2>3 DEF Replace, Replaces
<1>. QED
  BY <1>4, <1>5

\* Callers, and those that go on, insert, replace and cancel.
LEMMA CallersMove ==
  ASSUME TypeOK, ControlInv, ListInv, PlaceInv, Caller \/ Resume \/ FinishMaintenance
  PROVE  Callers /\ ListInv'
<1>0. IsOpen' = IsOpen /\ IsRefused' = IsRefused
  BY ControlCallers DEF IsOpen, IsRefused, ControlInv
<1>. USE DEF phaseVars, turnVars, history, inbox, fates
<1>a. nextTurn \in Seq(Message) /\ nextStep \in Seq(Message)
  BY DEF TypeOK
<1>b. Range(nextTurn) \subseteq Message /\ Range(nextStep) \subseteq Message
  BY <1>a, RangeOfSeq
<1>1. CASE Caller
  <2>1. ASSUME NEW m \in Message, NEW list \in {"next-turn", "next-step"},
               Insert(m, list) \/ Send(m, list)
        PROVE  Inserts(m) /\ ListInv'
    <3>1. Pending' = Pending \cup {m} /\ ListInv'
      BY <2>1, PushMoves DEF Insert, Send
    <3>. QED
      BY <2>1, <3>1 DEF Insert, Send, Inserts
  <2>2. ASSUME NEW m \in Message, Prepend(m)
        PROVE  Inserts(m) /\ ListInv'
    <3>1. m \notin Range(nextTurn) /\ m \notin Range(nextStep)
      BY <2>2 DEF Prepend, PlaceInv, Pending
    <3>2. Range(nextStep') = {m} \cup Range(nextStep) /\ Distinct(nextStep')
      BY <1>a, <2>2, <3>1, RangeCons, DistinctCons DEF Prepend, ListInv
    <3>. QED
      BY <2>2, <3>1, <3>2 DEF Prepend, Inserts, ListInv, Pending
  <2>3. ASSUME NEW m \in Message, NEW n \in Message, Remove(m) \/ Replace(m, n)
        PROVE  ((\E S \in SUBSET Message : Cancels(S)) \/ Replaces(m, n)) /\ ListInv'
    BY <2>3, RemoveMoves
  <2>4. ASSUME NEW cause \in Cause, CancelClear(cause)
        PROVE  (\E S \in SUBSET Message : Cancels(S)) /\ ListInv'
    <3>1. Cancels(Range(nextStep)) \/ Cancels(Range(nextTurn))
      BY <2>4, EmptyMoves DEF CancelClear, ClearPrompts, Cancels, Pending
    <3>2. ListInv'
      BY <2>4, EmptyMoves DEF CancelClear, ClearPrompts
    <3>. QED
      BY <1>b, <3>1, <3>2
  <2>5. ASSUME NEW cause \in Cause,
               CancelKeepingInbox(cause) \/ CancelEmpty(cause) \/ StartMaintenance
        PROVE  Stays /\ ListInv'
    BY <2>5, Leaves DEF CancelKeepingInbox, CancelEmpty, Withdraw, StartMaintenance
  <2>. QED
    BY <1>0, <1>1, <2>1, <2>2, <2>3, <2>4, <2>5 DEF Caller, Callers, Cause
<1>2. CASE Resume \/ FinishMaintenance
  <2>1. ASSUME NEW cause \in Cause, CancelClearTurn(cause)
        PROVE  (\E S \in SUBSET Message : Cancels(S)) /\ ListInv'
    <3>1. Cancels(Range(nextTurn)) /\ ListInv'
      BY <2>1, EmptyMoves DEF CancelClearTurn, ClearPrompts, Cancels, Pending
    <3>. QED
      BY <1>b, <3>1
  <2>2. ASSUME NEW cause \in Cause, NEW afterAbort \in BOOLEAN,
               CancelAbort(cause) \/ Wake(afterAbort) \/ Replay \/ FinishMaintenance
        PROVE  Stays /\ ListInv'
    BY <2>2, Leaves DEF CancelAbort, Withdraw, Wake, Replay, FinishMaintenance
  <2>. QED
    BY <1>0, <1>2, <2>1, <2>2 DEF Resume, Callers, Cause
<1>. QED
  BY <1>1, <1>2

\* What is claimed from a list leaves the inbox for an empty batch or joins it.
LEMMA ClaimsMove ==
  ASSUME TypeOK, ControlInv, ListInv, ClaimTurnInput \/ AfterStep \/ Stop
  PROVE  (Turns \/ Closes \/ Callers) /\ ListInv'
<1>. USE DEF phaseVars, turnVars, history, inbox, fates
<1>a. nextTurn \in Seq(Message) /\ nextStep \in Seq(Message)
  BY DEF TypeOK
<1>b. Range(nextTurn) \subseteq Message /\ Range(nextStep) \subseteq Message
  BY <1>a, RangeOfSeq
<1>c. pc \in {"claim", "claimTurn", "afterStep", "stopping"} => bracket = "turn"
  BY DEF ControlInv, Before, InStep
<1>d. pc \in {"claim", "afterStep", "stopping"} => batch = {}
  BY DEF ControlInv, Resting
<1>1. ASSUME NEW next, ClaimNextStep(next), batch = {}, UNCHANGED fates
      PROVE  (\E S \in SUBSET Message : Claims(S)) /\ ListInv'
  <2>1. Claims(Range(nextStep)) /\ ListInv'
    BY <1>1, EmptyMoves DEF ClaimNextStep, Claims, Pending
  <2>. QED
    BY <1>b, <2>1
<1>2. ASSUME ClaimNextTurn, UNCHANGED fates
      PROVE  (\E S \in SUBSET Message : Claims(S)) /\ ListInv'
  <2>1. CASE nextTurn = <<>>
    <3>1. Claims({}) /\ ListInv'
      BY <1>2, <2>1 DEF ClaimNextTurn, Claims, ListInv, Pending
    <3>. QED
      BY <3>1
  <2>2. CASE nextTurn # <<>>
    <3>1. /\ Distinct(Tail(nextTurn)) /\ Range(Tail(nextTurn)) = Range(nextTurn) \ {Head(nextTurn)}
          /\ Head(nextTurn) \in Range(nextTurn)
      BY <1>a, <2>2, DistinctTail, RangeTail DEF ListInv
    <3>2. Pending' = Pending \ {Head(nextTurn)} /\ ListInv'
      BY <1>2, <2>2, <3>1 DEF ClaimNextTurn, ListInv, Pending
    <3>3. Claims({Head(nextTurn)})
      BY <1>2, <2>2, <3>1, <3>2 DEF ClaimNextTurn, Claims, Pending
    <3>. QED
      BY <1>b, <3>1, <3>2, <3>3
  <2>. QED
    BY <2>1, <2>2
<1>3. CASE ClaimTurnInput
  <2>1. IsOpen /\ IsOpen' /\ ~IsRefused /\ ~IsRefused'
    BY <1>3, <1>c DEF ClaimTurnInput, ClaimNextStep, ClaimNextTurn, At, IsOpen, IsRefused
  <2>2. (\E S \in SUBSET Message : Claims(S)) /\ ListInv'
    BY <1>1, <1>2, <1>3, <1>d DEF ClaimTurnInput, At
  <2>. QED
    BY <2>1, <2>2 DEF Turns
<1>4. CASE AfterStep
  <2>1. IsOpen /\ IsOpen' /\ ~IsRefused /\ ~IsRefused' /\ batch = {}
    BY <1>4, <1>c, <1>d DEF AfterStep, ClaimNextStep, At, IsOpen, IsRefused
  <2>2. CASE ClaimNextStep("preStep")
    BY <1>1, <1>4, <2>1, <2>2 DEF AfterStep, Turns
  <2>3. CASE UNCHANGED <<inbox, batch, queued>>
    BY <1>4, <2>1, <2>3, Leaves DEF AfterStep, Callers, IsOpen, IsRefused
  <2>. QED
    BY <1>4, <2>2, <2>3 DEF AfterStep
<1>5. CASE Stop
  <2>1. IsOpen /\ ~IsRefused /\ ~IsRefused' /\ batch = {}
    BY <1>5, <1>c, <1>d DEF Stop, CloseTurn, ClaimNextStep, At, IsOpen, IsRefused
  <2>2. CASE nextStep = <<>>
    <3>1. Closes
      BY <1>5, <2>1, <2>2 DEF Stop, CloseTurn, Closes, Drops, IsOpen, Pending
    <3>2. ListInv'
      BY <1>5, <2>2 DEF Stop, ListInv
    <3>. QED
      BY <3>1, <3>2
  <2>3. CASE nextStep # <<>>
    <3>1. IsOpen' /\ UNCHANGED fates
      BY <1>5, <2>1, <2>3 DEF Stop, IsOpen
    <3>2. ClaimNextStep("preStep")
      BY <1>5, <2>3 DEF Stop
    <3>. QED
      BY <1>1, <2>1, <3>1, <3>2 DEF Turns
  <2>. QED
    BY <2>2, <2>3
<1>. QED
  BY <1>3, <1>4, <1>5

\* The driver's other actions.
LEMMA DriverMoves ==
  ASSUME TypeOK, ControlInv, ListInv, PlaceInv, Driver
  PROVE  Moves /\ ListInv'
<1>. USE DEF phaseVars, turnVars, history, inbox, fates
<1>a. ASSUME NEW reason, NEW next \in {"closed", "settling"}, CloseTurn(reason, next), IsOpen,
             UNCHANGED <<inbox, unsent, admitted, discarded>>
      PROVE  Moves /\ ListInv'
  BY <1>a DEF CloseTurn, Moves, Closes, Drops, IsOpen, IsRefused, Pending, ListInv
<1>b. ASSUME UNCHANGED <<inbox, batch, fates>>, IsOpen' = IsOpen \/ (~IsOpen /\ IsOpen'),
             IsRefused' = IsRefused
      PROVE  Moves /\ ListInv'
  BY <1>b, Leaves DEF Moves, Callers, Opens
<1>d. ASSUME UNCHANGED <<inbox, batch, fates>>, IsOpen, IsOpen', IsRefused'
      PROVE  Moves /\ ListInv'
  <2>1. PutsBack({})
    BY <1>d DEF PutsBack, Pending
  <2>. QED
    BY <1>d, <2>1, Leaves DEF Moves, GivesUp
<1>c. /\ pc \in {"begin", "closed", "settling"} => ~IsOpen
      /\ pc \notin {"off", "begin", "closed", "settling"} => IsOpen
  BY DEF ControlInv, Before, InStep, IsOpen
<1>1. CASE BeginTurn
  <2>1. (IsOpen' = IsOpen \/ (~IsOpen /\ IsOpen')) /\ IsRefused' = IsRefused
    BY <1>1, <1>c DEF BeginTurn, At, IsOpen, IsRefused
  <2>. QED
    BY <1>1, <1>b, <2>1 DEF BeginTurn
<1>2. CASE ClaimTurnInput \/ AfterStep \/ Stop
  BY <1>2, ClaimsMove DEF Moves
<1>3. CASE ThrowIfAborted
  BY <1>3, <1>a, <1>c DEF ThrowIfAborted, At
<1>4. CASE PreStepDecides
  <2>1. IsOpen /\ IsOpen' /\ ListInv'
    BY <1>4, <1>c DEF PreStepDecides, At, IsOpen, ListInv
  <2>2. CASE pc' = "rejected" /\ UNCHANGED <<batch, dropped>>
    BY <1>4, <1>d, <2>1, <2>2 DEF PreStepDecides, IsRefused
  <2>3. ASSUME NEW kept \in SUBSET batch, batch' = kept, dropped' = dropped \cup (batch \ kept),
               At("preStep"), pc' \in {"entered", "enteredEmpty"}
        PROVE  Moves
    <3>1. Drops(batch \ kept) /\ batch \ kept \in SUBSET Message
      BY <1>4, <2>3 DEF PreStepDecides, Drops, Pending, TypeOK
    <3>2. ~IsRefused /\ ~IsRefused'
      BY <2>3 DEF At, IsRefused
    <3>. QED
      BY <2>1, <3>1, <3>2 DEF Moves, Turns
  <2>. QED
    BY <1>4, <2>1, <2>2, <2>3 DEF PreStepDecides
<1>5. CASE PreStepThrows
  BY <1>5, <1>c, <1>d DEF PreStepThrows, At, IsOpen, IsRefused
<1>6. CASE Reject
  BY <1>6, <1>a, <1>c DEF Reject, At
<1>7. CASE EnterEmpty
  <2>1. IsOpen
    BY <1>7, <1>c DEF EnterEmpty, At
  <2>2. CASE bracket' = "step" /\ UNCHANGED <<batch, dropped>>
    BY <1>7, <1>b, <2>1, <2>2 DEF EnterEmpty, CloseTurn, At, IsOpen, IsRefused
  <2>3. ASSUME NEW reason, NEW next \in {"closed", "settling"}, CloseTurn(reason, next)
        PROVE  Moves /\ ListInv'
    BY <1>7, <1>a, <2>1, <2>3 DEF EnterEmpty
  <2>. QED
    BY <1>7, <2>2, <2>3 DEF EnterEmpty
<1>8. CASE StartStep
  BY <1>8, <1>b, <1>c DEF StartStep, At, IsOpen, IsRefused
<1>9. CASE Admit
  <2>1. IsOpen /\ IsOpen' /\ ~IsRefused /\ ~IsRefused' /\ ListInv' /\ Admits
    BY <1>9, <1>c DEF Admit, At, IsOpen, IsRefused, ListInv, Admits, Pending
  <2>. QED
    BY <2>1 DEF Moves, Turns
<1>10. CASE Retry
  BY <1>10, <1>b DEF Retry, At, IsOpen, IsRefused
<1>11. CASE StepReturns
  BY <1>11, ContextMoves DEF StepReturns, Moves, Callers, At, IsOpen, IsRefused
<1>12. CASE StepThrows
  <2>1. ToolContext
    BY <1>12 DEF StepThrows, ToolContext
  <2>. QED
    BY <1>12, <2>1, ContextMoves DEF StepThrows, Moves, Callers, At, IsOpen, IsRefused
<1>13. CASE EndStep
  <2>1. IsOpen /\ IsOpen'
    BY <1>13, <1>c DEF EndStep, At, IsOpen
  <2>2. CASE pc' = "afterStep"
    BY <1>13, <1>b, <2>1, <2>2 DEF EndStep, At, IsOpen, IsRefused
  <2>3. CASE pc' = "failed"
    BY <1>13, <1>d, <2>1, <2>3 DEF EndStep, IsRefused
  <2>. QED
    BY <1>13, <2>2, <2>3 DEF EndStep
<1>14. CASE Fail
  BY <1>14, <1>a, <1>c DEF Fail, At
<1>15. CASE ContinueOrLeave
  BY <1>15, <1>b DEF ContinueOrLeave, At, IsOpen, IsRefused
<1>16. CASE Settle
  BY <1>16, <1>b DEF Settle, At, IsOpen, IsRefused
<1>17. CASE restoreOtherClaimed
  <2>1. IsOpen /\ IsOpen' /\ IsRefused'
    BY <1>17, <1>c DEF restoreOtherClaimed, At, IsOpen, IsRefused
  <2>2. PICK m \in batch : nextStep' = <<m>> \o nextStep /\ batch' = batch \ {m}
    BY <1>17 DEF restoreOtherClaimed
  <2>3. m \in Message /\ nextStep \in Seq(Message)
    BY DEF TypeOK
  <2>4. m \notin Range(nextTurn) /\ m \notin Range(nextStep)
    BY DEF PlaceInv, Pending
  <2>5. Range(nextStep') = {m} \cup Range(nextStep) /\ Distinct(nextStep')
    BY <2>2, <2>3, <2>4, RangeCons, DistinctCons DEF ListInv
  <2>6. PutsBack({m}) /\ ListInv'
    BY <1>17, <2>2, <2>4, <2>5 DEF restoreOtherClaimed, PutsBack, ListInv, Pending
  <2>. QED
    BY <2>1, <2>3, <2>6 DEF Moves, GivesUp
<1>. QED
  BY <1>1, <1>2, <1>3, <1>4, <1>5, <1>6, <1>7, <1>8, <1>9, <1>10, <1>11, <1>12, <1>13,
     <1>14, <1>15, <1>16, <1>17 DEF Driver

\* So is every step, or it changes nothing.
LEMMA StepMoves ==
  ASSUME TypeOK, ControlInv, ListInv, PlaceInv, [Next]_vars
  PROVE  Moves /\ ListInv'
<1>1. CASE Caller \/ Resume \/ FinishMaintenance
  BY <1>1, CallersMove DEF Moves
<1>2. CASE Driver
  BY <1>2, DriverMoves
<1>3. CASE UNCHANGED vars
  BY <1>3, Leaves DEF vars, turnVars, Moves, Callers, IsOpen, IsRefused
<1>. QED
  BY <1>1, <1>2, <1>3 DEF Next

-----------------------------------------------------------------------------
(* The refinement.                                                           *)

\* Initially nothing has been sent.
LEMMA LedgerInit == Init => ListInv /\ PlaceInv /\ Ledger!Init
<1>. SUFFICES ASSUME Init
              PROVE  ListInv /\ PlaceInv /\ Ledger!Init
  OBVIOUS
<1>1. Range(<<>>) = {} /\ Distinct(<<>>)
  BY DEF Range, Distinct
<1>2. ListInv /\ PlaceInv /\ Pending = {}
  BY <1>1 DEF Init, ListInv, PlaceInv, Pending
<1>3. \A m \in Message : LedgerFate[m] = "unsent"
  BY <1>2, Fates DEF Init
<1>4. LedgerFate = [m \in Message |-> "unsent"]
  BY <1>2, <1>3, FateTypes
<1>. QED
  BY <1>2, <1>4 DEF Init, Ledger!Init

\* Every message is in one place, in every reachable state: nothing is lost
\* between the inbox's lists, a claimed batch and its fate, or queued twice,
\* messages that a pre-step listener puts back included.
THEOREM PlacesCorrect == Spec => [](TypeOK /\ ControlInv /\ PromptInv /\ ListInv /\ PlaceInv)
<1>1. Init => TypeOK /\ ControlInv /\ PromptInv /\ ListInv /\ PlaceInv
  <2>1. Init => ControlInv /\ PromptInv
    BY DEF Init, ControlInv, PromptInv, Before, InStep, Resting, OnePromptPerTurn
  <2>. QED
    BY <2>1, TypeInit, LedgerInit
<1>2. /\ TypeOK /\ ControlInv /\ PromptInv /\ ListInv /\ PlaceInv /\ [Next]_vars
      => (TypeOK /\ ControlInv /\ PromptInv /\ ListInv /\ PlaceInv)'
  <2>. SUFFICES ASSUME TypeOK, ControlInv, PromptInv, ListInv, PlaceInv, [Next]_vars
                PROVE  (TypeOK /\ ControlInv /\ PromptInv /\ ListInv /\ PlaceInv)'
    OBVIOUS
  <2>1. Moves /\ ListInv'
    BY StepMoves
  <2>. QED
    BY <2>1, TypeStep, ControlStep, MovesKeep
<1>. QED
  BY <1>1, <1>2, PTL DEF Spec

\* The driver implements the ledger: a message is claimed inside an open turn,
\* a batch is admitted whole, no claimed message outlives its turn, and one
\* returns to the inbox only in a turn that then neither admits nor claims
\* anything, whatever observers, callers and failures do meanwhile.
THEOREM LedgerCorrect == Spec => KeepsLedger
<1>1. Init => Ledger!Init
  BY LedgerInit
<1>2. /\ TypeOK /\ ControlInv /\ ListInv /\ PlaceInv /\ PlaceInv' /\ [Next]_vars
      => [Ledger!Next]_<<LedgerFate, bracket # "none",
                         pc \in {"restoring", "rejected", "failed"}>>
  BY StepMoves, MovesLedger DEF IsOpen, IsRefused
<1>. QED
  BY <1>1, <1>2, PlacesCorrect, PTL DEF Spec, KeepsLedger, Ledger!Spec

=============================================================================
