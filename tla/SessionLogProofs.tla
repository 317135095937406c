-------------------------- MODULE SessionLogProofs --------------------------
(***************************************************************************)
(* Theorems about SessionLog, for any number of processes, events, faults, *)
(* crashes and opens.  First the kernel lock: a handle that is still       *)
(* attached and holds a lease object holds the lock, and a mutation begins *)
(* only with a lease object, so no two processes mutate a log together.    *)
(* Then, where no handle is let go with events in its buffer, what the     *)
(* file holds: the log stays readable, a handle's picture of it is true, a *)
(* flush covers what was published before it, and the file keeps what the  *)
(* durable log promises.                                                   *)
(***************************************************************************)
EXTENDS SessionLog, SequenceTheorems, WellFoundedInduction, TLAPS

-----------------------------------------------------------------------------
(* The kernel lock.                                                          *)

States == {"shut", "reading", "open", "closing", "releasing", "stray"}

\* The part of the types that the argument needs.
Shape == /\ state \in [Proc -> States]
         /\ step \in [Proc -> {"idle", "lease", "mutate"}]
         /\ DOMAIN handle = Proc
         /\ \A q \in Proc : /\ "lease" \in DOMAIN handle[q]
                            /\ handle[q].lease \in {"none", "held", "released"}

\* A lease object stands for the kernel lock until its handle is detached.
LeaseIsLock == \A q \in Proc :
  handle[q].lease = "held" /\ state[q] # "stray" => owner = q

\* Only a detached handle has a lease it released.
ReleasedIsStray == \A q \in Proc : handle[q].lease = "released" => state[q] = "stray"

\* An open reads the log under the lock.
ReadsUnderLock == \A q \in Proc : state[q] = "reading" => owner = q

\* A mutation begins with a lease object.
MutatesWithLease == \A q \in Proc : step[q] = "mutate" => handle[q].lease # "none"

LockInv == Shape /\ LeaseIsLock /\ ReleasedIsStray /\ ReadsUnderLock /\ MutatesWithLease

\* Init, the first lock-free moment, satisfies the invariant.
LEMMA InitLock == Init => LockInv
  BY DEF Init, LockInv, Shape, LeaseIsLock, ReleasedIsStray, ReadsUnderLock,
         MutatesWithLease, NoHandle, States

\* Steps that neither take nor give up anything: the owner and every lease stay,
\* nobody becomes a stray or begins to read, and no mutation begins without a
\* lease.
Calm == /\ owner' = owner
        /\ state' \in [Proc -> States]
        /\ step' \in [Proc -> {"idle", "lease", "mutate"}]
        /\ DOMAIN handle' = Proc
        /\ \A q \in Proc :
             /\ "lease" \in DOMAIN handle'[q]
             /\ handle'[q].lease = handle[q].lease
             /\ state'[q] = "stray" <=> state[q] = "stray"
             /\ state'[q] = "reading" => state[q] = "reading"
             /\ step'[q] = "mutate" => step[q] = "mutate" \/ handle[q].lease # "none"

\* Such steps keep the invariant, which speaks of nothing else.
LEMMA CalmKeeps == LockInv /\ Calm => LockInv'
  BY DEF LockInv, Shape, LeaseIsLock, ReleasedIsStray, ReadsUnderLock,
         MutatesWithLease, Calm

\* A process that forgets its session lets go of the lock if it holds it.
LEMMA ForgetsKeeps ==
  ASSUME LockInv, NEW p \in Proc, Forgets(p), owner' = Unlocked(p)
  PROVE  LockInv'
<1>1. /\ state' = [state EXCEPT ![p] = "shut"]
      /\ handle' = [handle EXCEPT ![p] = NoHandle]
      /\ step' = [step EXCEPT ![p] = "idle"]
  BY DEF Forgets
<1>2. handle'[p].lease = "none" /\ "lease" \in DOMAIN handle'[p] /\ DOMAIN handle' = Proc
  BY <1>1 DEF LockInv, Shape, NoHandle
<1>3. \A q \in Proc \ {p} : /\ handle'[q] = handle[q] /\ state'[q] = state[q]
                            /\ step'[q] = step[q]
  BY <1>1 DEF LockInv, Shape
<1>4. \A q \in Proc \ {p} : owner = q => owner' = q
  BY DEF Unlocked
<1>5. Shape'
  BY <1>1, <1>2, <1>3 DEF LockInv, Shape, States
<1>6. state'[p] = "shut" /\ step'[p] = "idle"
  BY <1>1 DEF LockInv, Shape
<1> QED
  BY <1>2, <1>3, <1>4, <1>5, <1>6
     DEF LockInv, LeaseIsLock, ReleasedIsStray, ReadsUnderLock, MutatesWithLease

\* How a refused or failed operation leaves the processes.
LEMMA RejectsShape ==
  ASSUME Shape, NEW p \in Proc, Rejects(p)
  PROVE  /\ state' \in [Proc -> States]
         /\ step' = [step EXCEPT ![p] = "idle"]
         /\ \A q \in Proc : /\ state'[q] = "stray" <=> state[q] = "stray"
                            /\ state'[q] = "reading" => state[q] = "reading"
  BY DEF Rejects, DrainRejects, AppendRejects, FlushEnds, Leaves, Shape, States

\* The steps that leave owner, handle and step alone, but for an operation that
\* ends or begins with what the handle has.
LEMMA CalmSteps ==
  ASSUME LockInv, NEW p \in Proc,
         \/ Create(p) \/ GoLive(p) \/ Publish(p) \/ AppendSeed(p) \/ Timer(p)
         \/ Flush(p) \/ Close(p) \/ BeginDrain(p) \/ BeginAppend(p) \/ BeginFlush(p)
         \/ CloseLoops(p) \/ CloseLetsGo(p)
  PROVE  Calm
<1> USE DEF LockInv, Shape, Calm, States
<1>1. CASE Create(p)      BY <1>1 DEF Create
<1>2. CASE GoLive(p)      BY <1>2 DEF GoLive
<1>3. CASE Publish(p)     BY <1>3 DEF Publish
<1>4. CASE AppendSeed(p)  BY <1>4 DEF AppendSeed
<1>5. CASE Timer(p)       BY <1>5 DEF Timer
<1>6. CASE Flush(p)       BY <1>6 DEF Flush
<1>7. CASE Close(p)       BY <1>7 DEF Close
<1>8. CASE BeginDrain(p)  BY <1>8 DEF BeginDrain, FirstStep
<1>9. CASE BeginAppend(p)
  BY <1>9 DEF BeginAppend, FirstStep, AppendRejects, Leaves
<1>10. CASE BeginFlush(p)
  BY <1>10 DEF BeginFlush, FirstStep, FlushEnds, Leaves
<1>11. CASE CloseLoops(p)  BY <1>11 DEF CloseLoops
<1>12. CASE CloseLetsGo(p) BY <1>12 DEF CloseLetsGo, Resumes
<1> QED
  BY <1>1, <1>2, <1>3, <1>4, <1>5, <1>6, <1>7, <1>8, <1>9, <1>10, <1>11, <1>12

\* The steps of a running mutation, whatever becomes of the file.
LEMMA FileSteps ==
  ASSUME LockInv, NEW p \in Proc,
         \/ TruncateTail(p) \/ RewriteTail(p) \/ WriteBatch(p) \/ RefuseWrite(p)
         \/ FileOpFails(p) \/ AppendStays(p) \/ PublishUnsynced(p)
  PROVE  Calm
<1>0. Shape
  BY DEF LockInv
<1>1. ASSUME Rejects(p), owner' = owner, handle' = handle  PROVE Calm
  BY <1>0, <1>1, RejectsShape DEF Calm, Shape
<1>2. CASE TruncateTail(p)
  BY <1>0, <1>2 DEF TruncateTail, Calm, Shape
<1>3. CASE RewriteTail(p)
  BY <1>0, <1>3 DEF RewriteTail, Calm, Shape
<1>4. CASE WriteBatch(p)
  <2>1. /\ owner' = owner /\ step' = [step EXCEPT ![p] = "idle"]
        /\ state' = state
    BY <1>4 DEF WriteBatch, DrainResolves, AppendResolves, FlushEnds, Leaves
  <2>2. handle' = [handle EXCEPT ![p].materialized = TRUE,
                                 ![p].cursor = @ + Len(batch[p])]
    BY <1>4 DEF WriteBatch
  <2>3. /\ DOMAIN handle' = Proc
        /\ \A q \in Proc : /\ "lease" \in DOMAIN handle'[q]
                           /\ handle'[q].lease = handle[q].lease
    BY <1>0, <2>2 DEF Shape
  <2> QED
    BY <1>0, <2>1, <2>3 DEF Calm, Shape
<1>5. CASE RefuseWrite(p)     BY <1>1, <1>5 DEF RefuseWrite
<1>6. CASE FileOpFails(p)     BY <1>1, <1>6 DEF FileOpFails
<1>7. CASE PublishUnsynced(p) BY <1>1, <1>7 DEF PublishUnsynced
<1>8. CASE AppendStays(p)
  <2>1. /\ Rejects(p) /\ owner' = owner
        /\ handle' = [handle EXCEPT ![p].left = TRUE]
    BY <1>8 DEF AppendStays
  <2>2. /\ DOMAIN handle' = Proc
        /\ \A q \in Proc : /\ "lease" \in DOMAIN handle'[q]
                           /\ handle'[q].lease = handle[q].lease
    BY <1>0, <2>1 DEF Shape
  <2> QED
    BY <1>0, <2>1, <2>2, RejectsShape DEF Calm, Shape
<1> QED
  BY <1>2, <1>3, <1>4, <1>5, <1>6, <1>7, <1>8

\* Taking the lock: only when nobody has it, and then with a lease object.
LEMMA LockSteps ==
  ASSUME SessionAssumption, LockInv, NEW p \in Proc,
         OpenWrite(p) \/ ReadLog(p) \/ TakeLease(p) \/ Release(p)
  PROVE  LockInv'
<1>0. /\ Shape /\ NoProc \notin Proc
      /\ LeaseIsLock /\ ReleasedIsStray /\ ReadsUnderLock /\ MutatesWithLease
  BY DEF LockInv, SessionAssumption
<1> USE DEF LockInv, Shape, LeaseIsLock, ReleasedIsStray, ReadsUnderLock,
            MutatesWithLease, States
<1>1. CASE OpenWrite(p)
  BY <1>0, <1>1 DEF OpenWrite
<1>2. CASE ReadLog(p)
  <2>1. /\ DOMAIN handle' = Proc /\ "lease" \in DOMAIN handle'[p]
        /\ handle'[p].lease = "held"
        /\ \A q \in Proc \ {p} : handle'[q] = handle[q]
    BY <1>0, <1>2 DEF ReadLog
  <2> QED
    BY <1>0, <1>2, <2>1 DEF ReadLog
<1>3. CASE TakeLease(p)
  <2>1. CASE owner = NoProc
    <3>1. /\ DOMAIN handle' = Proc /\ "lease" \in DOMAIN handle'[p]
          /\ handle'[p].lease = "held"
          /\ \A q \in Proc \ {p} : handle'[q] = handle[q]
      BY <1>0, <1>3, <2>1 DEF TakeLease
    <3> QED
      BY <1>0, <1>3, <2>1, <3>1 DEF TakeLease
  <2>2. CASE owner # NoProc
    <3>1. Rejects(p) /\ owner' = owner /\ handle' = handle
      BY <1>3, <2>2 DEF TakeLease
    <3>2. Calm
      BY <1>0, <3>1, RejectsShape DEF Calm
    <3> QED
      BY <3>2, CalmKeeps
  <2> QED BY <2>1, <2>2
<1>4. CASE Release(p)
  <2>1. CASE buffer[p].timer \/ Busy(p)
    <3>1. /\ state' = [state EXCEPT ![p] = "stray"] /\ step' = step
          /\ owner' = Unlocked(p)
          /\ handle' = [handle EXCEPT ![p].lease = IF @ = "held" THEN "released" ELSE @]
      BY <1>4, <2>1 DEF Release
    <3>2. /\ DOMAIN handle' = Proc /\ "lease" \in DOMAIN handle'[p]
          /\ handle'[p].lease \in {"none", "released"}
          /\ handle'[p].lease = "none" => handle[p].lease = "none"
          /\ \A q \in Proc \ {p} : handle'[q] = handle[q]
      BY <1>0, <3>1
    <3>3. \A q \in Proc \ {p} : owner = q => owner' = q
      BY <3>1 DEF Unlocked
    <3> QED
      BY <1>0, <3>1, <3>2, <3>3
  <2>2. CASE ~(buffer[p].timer \/ Busy(p))
    <3>1. Forgets(p) /\ owner' = Unlocked(p)
      BY <1>4, <2>2 DEF Release
    <3> QED
      BY <3>1, ForgetsKeeps
  <2> QED BY <2>1, <2>2
<1> QED
  BY <1>1, <1>2, <1>3, <1>4

\* The ends of a handle that leave nothing: a refused open, the last of a
\* stray, a crash.
LEMMA ForgettingSteps ==
  ASSUME SessionAssumption, LockInv, NEW p \in Proc,
         RefuseOpen(p) \/ StrayEnds(p) \/ Crash(p)
  PROVE  LockInv'
<1>1. CASE RefuseOpen(p)
  BY <1>1, ForgetsKeeps DEF RefuseOpen
<1>2. CASE Crash(p)
  BY <1>2, ForgetsKeeps DEF Crash
<1>3. CASE StrayEnds(p)
  <2>1. Forgets(p) /\ owner' = owner
    BY <1>3 DEF StrayEnds
  <2>2. /\ state' = [state EXCEPT ![p] = "shut"]
        /\ handle' = [handle EXCEPT ![p] = NoHandle]
        /\ step' = [step EXCEPT ![p] = "idle"]
    BY <2>1 DEF Forgets
  <2>3. handle'[p].lease = "none" /\ "lease" \in DOMAIN handle'[p] /\ DOMAIN handle' = Proc
    BY <2>2 DEF LockInv, Shape, NoHandle
  <2> QED
    BY <2>1, <2>2, <2>3
       DEF LockInv, Shape, LeaseIsLock, ReleasedIsStray, ReadsUnderLock,
           MutatesWithLease, States
<1> QED
  BY <1>1, <1>2, <1>3

\* Every step of every process keeps the invariant.
LEMMA StepKeepsLock == SessionAssumption /\ LockInv /\ [Next]_vars => LockInv'
<1> SUFFICES ASSUME SessionAssumption, LockInv, [Next]_vars
             PROVE  LockInv'
  OBVIOUS
<1>1. CASE UNCHANGED vars
  BY <1>1 DEF LockInv, Shape, LeaseIsLock, ReleasedIsStray, ReadsUnderLock,
              MutatesWithLease, vars, file, memory, history, counters
<1>2. CASE Next
  <2>1. PICK p \in Proc :
          \/ Create(p) \/ OpenWrite(p) \/ GoLive(p) \/ Publish(p) \/ AppendSeed(p)
          \/ Timer(p) \/ Flush(p) \/ Close(p) \/ Crash(p)
          \/ Proceeds(p)
    BY <1>2 DEF Next
  <2> QED
    BY <2>1, CalmSteps, FileSteps, CalmKeeps, LockSteps, ForgettingSteps DEF Proceeds
<1> QED
  BY <1>1, <1>2

\* The lease of every attached handle stands for the kernel lock, always.
THEOREM LockHeld == Spec => []LockInv
  BY InitLock, StepKeepsLock, SessionAssumption, PTL DEF Spec

\* Until its close() resolves, no handle changes the log without the kernel
\* lock; so no two processes ever do it together.
THEOREM OwnerWritesCorrect == Spec => []OwnerWrites
<1>1. LockInv => OwnerWrites
  BY DEF LockInv, Shape, LeaseIsLock, ReleasedIsStray, MutatesWithLease,
         OwnerWrites, Mutating, Truncating, Rewriting, Writing
<1> QED
  BY <1>1, LockHeld, PTL

-----------------------------------------------------------------------------
(* Sequences.                                                                *)

\* What holds of 0, and of n + 1 where it holds of n, holds of every number.
LEMMA FromZero ==
  ASSUME NEW S, 0 \in S, \A n \in Nat : n \in S => n + 1 \in S
  PROVE  Nat \subseteq S
<1> SUFFICES ASSUME Nat \ S # {} PROVE FALSE
  OBVIOUS
<1> DEFINE R == OpToRel(<, Nat)
<1>1. IsWellFoundedOn(R, Nat)
  BY NatLessThanWellFounded, Zenon
<1>2. \A n \in Nat \ {0} : n - 1 \in Nat /\ (n - 1) + 1 = n /\ <<n - 1, n>> \in R
  BY SMT DEF OpToRel
<1> HIDE DEF R
<1>3. PICK n \in Nat \ S : \A m \in Nat \ S : ~(<<m, n>> \in R)
  BY <1>1, WFMin, Zenon
<1>4. n \in Nat \ {0}
  BY <1>3
<1>5. n - 1 \in S
  BY <1>2, <1>3, <1>4
<1> QED
  BY <1>2, <1>3, <1>4, <1>5

\* The first n of the sequences s, one behind the other, as FlattenSeq counts them.
Flat(f, s, n) == f = [i \in 1 .. n |-> IF i = 1 THEN s[i] ELSE f[i - 1] \o s[i]]

\* There is such a concatenation of any length.
LEMMA FlatExists ==
  ASSUME NEW s
  PROVE  \A n \in Nat : \E f : Flat(f, s, n)
<1> DEFINE S == {n \in Nat : \E f : Flat(f, s, n)}
<1>1. 0 \in S
  <2>1. Flat([i \in 1 .. 0 |-> i], s, 0)
    BY DEF Flat
  <2> QED
    BY <2>1
<1>2. ASSUME NEW n \in Nat, n \in S PROVE n + 1 \in S
  <2>1. PICK f : Flat(f, s, n)
    BY <1>2
  <2> DEFINE g == [i \in 1 .. n + 1 |-> IF i = n + 1
                      THEN (IF i = 1 THEN s[i] ELSE f[n] \o s[i]) ELSE f[i]]
  <2>2. ASSUME NEW i \in 1 .. n + 1 PROVE g[i] = IF i = 1 THEN s[i] ELSE g[i - 1] \o s[i]
    <3>1. CASE i = n + 1
      <4>1. i # 1 => g[i - 1] = f[n]
        BY <3>1
      <4> QED
        BY <3>1, <4>1
    <3>2. CASE i # n + 1
      <4>1. i \in 1 .. n
        BY <3>2
      <4>2. f[i] = IF i = 1 THEN s[i] ELSE f[i - 1] \o s[i]
        BY <2>1, <4>1 DEF Flat
      <4>3. g[i] = f[i] /\ (i # 1 => g[i - 1] = f[i - 1])
        BY <4>1
      <4> QED
        BY <4>2, <4>3
    <3> QED
      BY <3>1, <3>2
  <2>3. DOMAIN g = 1 .. n + 1 /\ g = [i \in 1 .. n + 1 |-> g[i]]
    OBVIOUS
  <2> HIDE DEF g
  <2>4. Flat(g, s, n + 1)
    BY <2>2, <2>3 DEF Flat
  <2> QED
    BY <2>4
<1> HIDE DEF S
<1>3. Nat \subseteq S
  BY <1>1, <1>2, FromZero
<1> QED
  BY <1>3 DEF S

\* Where two sequences agree, so do their concatenations, whose elements are those
\* of the sequences.
LEMMA FlatAgrees ==
  ASSUME NEW m \in Nat, NEW n \in Nat, NEW s, NEW t, NEW f, NEW g, NEW S,
         Flat(f, s, m), Flat(g, t, n), m <= n,
         \A i \in 1 .. m : s[i] = t[i] /\ s[i] \in Seq(S)
  PROVE  \A i \in 1 .. m : f[i] = g[i] /\ f[i] \in Seq(S)
<1> DEFINE I == {i \in Nat : i \in 1 .. m => f[i] = g[i] /\ f[i] \in Seq(S)}
<1>1. ASSUME NEW i \in 1 .. m
      PROVE  /\ f[i] = IF i = 1 THEN s[i] ELSE f[i - 1] \o s[i]
             /\ g[i] = IF i = 1 THEN t[i] ELSE g[i - 1] \o t[i]
  <2>1. f[i] = IF i = 1 THEN s[i] ELSE f[i - 1] \o s[i]
    BY DEF Flat
  <2>2. i \in 1 .. n
    OBVIOUS
  <2>3. g[i] = IF i = 1 THEN t[i] ELSE g[i - 1] \o t[i]
    BY <2>2 DEF Flat
  <2> QED
    BY <2>1, <2>3
<1>2. 0 \in I
  OBVIOUS
<1>3. ASSUME NEW i \in Nat, i \in I PROVE i + 1 \in I
  <2> SUFFICES ASSUME i + 1 \in 1 .. m PROVE f[i + 1] = g[i + 1] /\ f[i + 1] \in Seq(S)
    OBVIOUS
  <2>1. CASE i = 0
    BY <1>1, <2>1
  <2>2. CASE i # 0
    <3>1. i \in 1 .. m /\ (i + 1) - 1 = i /\ i + 1 # 1
      BY <2>2
    <3>2. f[i] = g[i] /\ f[i] \in Seq(S)
      BY <1>3, <3>1
    <3>3. f[i + 1] = f[i] \o s[i + 1] /\ g[i + 1] = g[i] \o s[i + 1]
      BY <1>1, <3>1
    <3>4. s[i + 1] \in Seq(S)
      OBVIOUS
    <3> QED
      BY <3>2, <3>3, <3>4, ConcatProperties
  <2> QED
    BY <2>1, <2>2
<1> HIDE DEF I
<1>4. Nat \subseteq I
  BY <1>2, <1>3, FromZero
<1> QED
  BY <1>4 DEF I

\* A flattened sequence is a sequence, and grows by what is appended.
LEMMA Flattens ==
  ASSUME NEW S, NEW s \in Seq(Seq(S)), NEW e \in Seq(S)
  PROVE  /\ FlattenSeq(<<>>) = <<>>
         /\ FlattenSeq(s) \in Seq(S)
         /\ FlattenSeq(Append(s, e)) = FlattenSeq(s) \o e
<1> DEFINE fl(z) == CHOOSE f : Flat(f, z, Len(z))
<1>1. \A z : FlattenSeq(z) = IF Len(z) = 0 THEN z ELSE fl(z)[Len(z)]
  BY DEF FlattenSeq, Flat
<1>2. \A z : Len(z) \in Nat => Flat(fl(z), z, Len(z))
  BY FlatExists
<1> HIDE DEF fl
<1>3. Len(<<>>) = 0
  OBVIOUS
<1>4. FlattenSeq(<<>>) = <<>>
  BY <1>1, <1>3
<1> DEFINE n == Len(s)
           t == Append(s, e)
<1>5. /\ n \in Nat /\ t \in Seq(Seq(S)) /\ Len(t) = n + 1 /\ t[n + 1] = e
      /\ \A i \in 1 .. n : t[i] = s[i] /\ s[i] \in Seq(S)
  BY AppendProperties, LenProperties, ElementOfSeq
<1>6. s = <<>> <=> n = 0
  BY EmptySeq
<1> HIDE DEF n, t
<1>7. Len(s) = n
  BY DEF n
<1>8. Flat(fl(s), s, n) /\ Flat(fl(t), t, n + 1)
  BY <1>2, <1>5, <1>7
<1>9. \A i \in 1 .. n : fl(s)[i] = fl(t)[i] /\ fl(s)[i] \in Seq(S)
  <2>1. n <= n + 1 /\ n + 1 \in Nat
    BY <1>5
  <2>2. \A i \in 1 .. n : s[i] = t[i] /\ s[i] \in Seq(S)
    BY <1>5
  <2>3. n \in Nat
    BY <1>5
  <2>4. ASSUME NEW f, NEW g, Flat(f, s, n), Flat(g, t, n + 1)
        PROVE  \A i \in 1 .. n : f[i] = g[i] /\ f[i] \in Seq(S)
    BY <2>1, <2>2, <2>3, <2>4, FlatAgrees
  <2> QED
    BY <1>8, <2>4
<1>10. FlattenSeq(t) = fl(t)[n + 1] /\ FlattenSeq(s) = IF n = 0 THEN <<>> ELSE fl(s)[n]
  BY <1>1, <1>5, <1>6, <1>7
<1>11. fl(t)[n + 1] = IF n = 0 THEN e ELSE fl(t)[n] \o e
  <2>1. n + 1 \in 1 .. n + 1 /\ (n + 1 = 1 <=> n = 0) /\ (n + 1) - 1 = n
    BY <1>5
  <2>2. fl(t)[n + 1] = IF n + 1 = 1 THEN t[n + 1] ELSE fl(t)[(n + 1) - 1] \o t[n + 1]
    BY <1>8, <2>1 DEF Flat
  <2> QED
    BY <1>5, <2>1, <2>2
<1>12. CASE n = 0
  BY <1>4, <1>10, <1>11, <1>12, ConcatEmptySeq, EmptySeq DEF t
<1>13. CASE n # 0
  <2>1. n \in 1 .. n
    BY <1>5, <1>13
  <2>2. fl(s)[n] = fl(t)[n] /\ fl(s)[n] \in Seq(S)
    BY <1>9, <2>1
  <2> QED
    BY <1>4, <1>10, <1>11, <1>13, <2>2 DEF t
<1> QED
  BY <1>12, <1>13

\* What the reader gets from frames: records, those of the last frame at the end.
LEMMA DecodeFacts ==
  ASSUME NEW fs \in Seq(Frame), NEW fr \in Frame
  PROVE  /\ Decode(<<>>) = <<>>
         /\ Decode(fs) \in Seq(Event)
         /\ Decode(Append(fs, fr)) = Decode(fs) \o fr.events
<1> DEFINE ev(z) == [i \in DOMAIN z |-> z[i].events]
           n == Len(fs)
           t == Append(fs, fr)
<1>1. \A z : Decode(z) = FlattenSeq(ev(z))
  BY DEF Decode
<1>2. /\ n \in Nat /\ DOMAIN fs = 1 .. n /\ \A i \in 1 .. n : fs[i] \in Frame
      /\ t \in Seq(Frame) /\ Len(t) = n + 1 /\ t[n + 1] = fr
      /\ \A i \in 1 .. n : t[i] = fs[i]
  BY AppendProperties, LenProperties, ElementOfSeq
<1>3. DOMAIN t = 1 .. n + 1
  BY <1>2, LenProperties
<1>4. \A f \in Frame : f.events \in Seq(Event)
  BY DEF Frame
<1>5. ev(<<>>) = <<>>
  OBVIOUS
<1> HIDE DEF n, t
<1>6. ev(fs) \in Seq(Seq(Event)) /\ Len(ev(fs)) = n
  <2>1. ev(fs) = [i \in 1 .. n |-> fs[i].events]
    BY <1>2
  <2>2. \A i \in 1 .. n : fs[i].events \in Seq(Event)
    BY <1>2, <1>4
  <2> QED
    BY <1>2, <2>1, <2>2
<1>7. ev(t) \in Seq(Seq(Event)) /\ Len(ev(t)) = n + 1
  <2>1. ev(t) = [i \in 1 .. n + 1 |-> t[i].events]
    BY <1>3
  <2>2. \A i \in 1 .. n + 1 : t[i] \in Frame
    BY <1>2, <1>3, ElementOfSeq
  <2>3. \A i \in 1 .. n + 1 : t[i].events \in Seq(Event)
    BY <1>4, <2>2
  <2>4. n + 1 \in Nat
    BY <1>2
  <2> QED
    BY <2>1, <2>3, <2>4
<1>8. Append(ev(fs), fr.events) \in Seq(Seq(Event)) /\ Len(Append(ev(fs), fr.events)) = n + 1
      /\ \A i \in 1 .. n : Append(ev(fs), fr.events)[i] = ev(fs)[i]
      /\ Append(ev(fs), fr.events)[n + 1] = fr.events
  BY <1>4, <1>6, AppendProperties
<1>9. ev(t) = Append(ev(fs), fr.events)
  <2>1. ASSUME NEW i \in 1 .. n + 1
        PROVE  ev(t)[i] = Append(ev(fs), fr.events)[i]
    <3>1. CASE i = n + 1
      BY <1>2, <1>3, <1>8, <3>1
    <3>2. CASE i # n + 1
      <4>1. i \in 1 .. n
        BY <1>2, <3>2
      <4>2. ev(t)[i] = t[i].events /\ ev(fs)[i] = fs[i].events
        BY <1>2, <1>3, <4>1
      <4> QED
        BY <1>2, <1>8, <4>1, <4>2
    <3> QED
      BY <3>1, <3>2
  <2> HIDE DEF ev
  <2> QED
    BY <1>7, <1>8, <2>1, SeqEqual
<1> HIDE DEF ev
<1>10. fr.events \in Seq(Event)
  BY <1>4
<1>11. /\ FlattenSeq(<<>>) = <<>> /\ FlattenSeq(ev(fs)) \in Seq(Event)
       /\ FlattenSeq(Append(ev(fs), fr.events)) = FlattenSeq(ev(fs)) \o fr.events
  BY <1>6, <1>10, Flattens
<1> QED
  BY <1>1, <1>5, <1>9, <1>11 DEF t

\* A log that is not empty ends in its last frame.
LEMMA DecodeLast ==
  ASSUME NEW fs \in Seq(Frame), fs # <<>>
  PROVE  /\ Len(fs) \in Nat \ {0} /\ fs[Len(fs)] \in Frame
         /\ SubSeq(fs, 1, Len(fs) - 1) \in Seq(Frame)
         /\ Len(SubSeq(fs, 1, Len(fs) - 1)) = Len(fs) - 1
         /\ \A i \in 1 .. Len(fs) - 1 : SubSeq(fs, 1, Len(fs) - 1)[i] = fs[i]
         /\ Decode(fs) = Decode(SubSeq(fs, 1, Len(fs) - 1)) \o fs[Len(fs)].events
<1> DEFINE n == Len(fs)
           h == SubSeq(fs, 1, n - 1)
<1>1. n \in Nat \ {0} /\ \A i \in 1 .. n : fs[i] \in Frame
  BY EmptySeq, ElementOfSeq
<1>2. h \in Seq(Frame) /\ Len(h) = n - 1 /\ \A i \in 1 .. n - 1 : h[i] = fs[i]
  <2>1. \A i \in 1 .. n - 1 : fs[i] \in Frame
    BY <1>1
  <2>2. 1 \in Int /\ n - 1 \in Int
    BY <1>1
  <2>3. /\ h \in Seq(Frame) /\ Len(h) = (IF 1 <= n - 1 THEN n - 1 - 1 + 1 ELSE 0)
        /\ \A i \in 1 .. n - 1 - 1 + 1 : h[i] = fs[1 + i - 1]
    BY <2>1, <2>2, SubSeqProperties
  <2> HIDE DEF n, h
  <2>4. (1 <= n - 1 \/ n - 1 = 0) /\ n - 1 - 1 + 1 = n - 1
    BY <1>1
  <2>5. \A i \in 1 .. n - 1 : 1 + i - 1 = i
    BY <1>1
  <2> QED
    BY <2>3, <2>4, <2>5
<1>3. fs = Append(h, fs[n])
  <2> DEFINE a == Append(h, fs[n])
  <2>1. /\ a \in Seq(Frame) /\ Len(a) = n /\ a[n] = fs[n]
        /\ \A i \in 1 .. n - 1 : a[i] = h[i]
    <3>1. fs[n] \in Frame
      BY <1>1
    <3> HIDE DEF h
    <3> QED
      BY <1>1, <1>2, <3>1, AppendProperties
  <2>2. \A i \in 1 .. n : i = n \/ i \in 1 .. n - 1
    BY <1>1
  <2> HIDE DEF a
  <2>3. \A i \in 1 .. Len(fs) : fs[i] = a[i]
    BY <1>2, <2>1, <2>2
  <2>4. fs = a
    BY <2>1, <2>3, SeqEqual
  <2> QED
    BY <2>4 DEF a
<1>4. Decode(Append(h, fs[n])) = Decode(h) \o fs[n].events
  <2>1. fs[n] \in Frame
    BY <1>1
  <2> QED
    BY <1>2, <2>1, DecodeFacts
<1>5. Decode(fs) = Decode(h) \o fs[n].events
  BY <1>3, <1>4
<1> QED
  BY <1>1, <1>2, <1>5

-----------------------------------------------------------------------------
(* The strengthening.  Control first: what a process is doing, whatever the  *)
(* file holds.                                                               *)

\* A handle that is let go has nothing left to write.  close() may let go of one
\* whose last drain has failed, and an event may still be published to one that
\* has been let go; CleanClose leaves both out.
LetsGoEmpty == \A p \in Proc : LettingGo(p) => buffer[p].events = <<>>

\* The mutation chain: an append comes before the session is live; at most one
\* flush and one drain are queued, and the flush was first.
Appending == {<<"append">>, <<"append", "flush">>}
Draining == {<<"drain">>, <<"flush", "drain">>}
Flushing == {<<"append", "flush">>, <<"flush">>, <<"flush", "drain">>}
Chains == {<<>>} \cup Appending \cup Draining \cup Flushing

Attached(p) == state[p] \in {"open", "closing", "releasing"}

\* A process without a handle keeps nothing.
Blank(p) ==
  /\ live[p] = <<>> /\ on[p] = FALSE /\ handle[p] = NoHandle /\ buffer[p] = NoBuffer
  /\ chain[p] = <<>> /\ step[p] = "idle" /\ batch[p] = <<>>
  /\ closer[p] = NotClosing /\ flushing[p] = NoFlush

\* Flags and places agree with the chain.
ChainInv(p) ==
  /\ chain[p] \in Chains
  /\ state[p] \in {"shut", "reading"} => Blank(p)
  /\ buffer[p].draining <=> chain[p] \in Draining
  /\ flushing[p].at = "barrier" <=> chain[p] \in Flushing
  /\ flushing[p].at = "drain" => chain[p] \in Draining
  /\ step[p] # "idle" => chain[p] # <<>>

\* A drain under way: it found something to write, and holds it from its first
\* step on.
Begun(p) == chain[p] = <<"drain">> /\ step[p] # "idle"

WorkInv(p) ==
  /\ chain[p] \in Draining /\ ~Begun(p) => buffer[p].events # <<>>
  /\ batch[p] # <<>> => chain[p] \in Appending \/ Begun(p)
  /\ Begun(p) => batch[p] # <<>>
  /\ chain[p] \in Appending \/ (state[p] = "open" /\ ~on[p]) => buffer[p].events = <<>>
  /\ chain[p] \in Appending => ~on[p]
  /\ state[p] = "open" /\ ~on[p] => chain[p] \notin Draining
  /\ Runs(p, "flush") /\ step[p] # "idle" => ~handle[p].materialized

\* A handle that has looked at its buffer for the last time has nothing left, and
\* nothing begins before close() goes on.
CloseInv(p) ==
  /\ state[p] \in {"closing", "releasing"} <=> closer[p].at # "no"
  /\ closer[p].at = "drain" => chain[p] \in Draining
  /\ closer[p].at = "chain" /\ closer[p].ahead = 0 => ~Begun(p)
  /\ closer[p].at = "last" =>
       closer[p].ahead = Len(chain[p]) /\ buffer[p].events = <<>> /\ chain[p] \notin Draining
  /\ closer[p].at = "failed" =>
       state[p] = "closing" /\ closer[p].ahead = 0 /\ buffer[p].events # <<>>
  /\ state[p] \in {"releasing", "stray"} => chain[p] = <<>> /\ buffer[p].events = <<>>

\* What a process is doing.
Control(p) == ChainInv(p) /\ WorkInv(p) /\ CloseInv(p)

\* Where a handle would cut the file is in it, or right behind it.
TornInv(p) == Attached(p) /\ handle[p].torn # 0 =>
                handle[p].lease = "held" /\ handle[p].torn <= Len(frames) + 1

\* What a flush is to cover has been published.
FlushBound(p) == flushing[p].at # "no" => flushing[p].upTo <= Len(live[p])

\* This much holds whatever becomes of the file.
CoreInv ==
  /\ TypeOK /\ LockInv
  /\ \A p \in Proc : Control(p) /\ TornInv(p) /\ FlushBound(p)


(* Now the data.                                                             *)

\* The records that the handle counts and the file lacks, and all that it counts.
Owed(p) == IF handle[p].torn \in DOMAIN frames THEN <<>> ELSE handle[p].recovered
Base(p) == IF handle[p].materialized THEN Decode(Told(p)) \o Owed(p) ELSE <<>>

Waiting(p) == (IF Runs(p, "drain") THEN batch[p] ELSE <<>>) \o buffer[p].events

\* The file: its frames are whole but for the last, whose records nobody has been
\* promised; its records are numbered, and not more than there were events.
Sound == IF TornAt = 0 THEN frames ELSE SubSeq(frames, 1, Len(frames) - 1)

FileInv ==
  /\ ~exists => frames = <<>>
  /\ \A i \in 1 .. Len(frames) - 1 : frames[i].whole
  /\ Numbered(Records, 0) /\ Len(Records) <= made
  /\ stored <= Len(Decode(Sound))

\* The handle's picture of the file: where it is torn, and whether it still is; or
\* that there is a frame behind the ones it knows.
Pictured(h) ==
  \/ h.torn = TornAt /\ (TornAt # 0 => h.recovered = frames[TornAt].events)
  \/ h.torn = Len(frames) + 1 /\ TornAt = 0

HandleInv(p) ==
  /\ handle[p].materialized => /\ handle[p].lease = "held" /\ exists
                               /\ ~handle[p].left => Pictured(handle[p])
                               /\ handle[p].left => handle[p].torn = 0 /\ frames # <<>>
  /\ ~handle[p].materialized =>
       handle[p].torn = 0 /\ handle[p].recovered = <<>> /\ ~handle[p].left

\* The session is what the file holds or will hold, and what waits.
TrackInv(p) ==
  /\ live[p] = Base(p) \o Waiting(p)
  /\ handle[p].cursor = Len(Base(p))
  /\ Numbered(Base(p), 0)
  /\ Len(live[p]) <= made
  /\ Runs(p, "append") => Len(live[p]) + Len(batch[p]) <= made

\* What a flush promises is counted when its turn comes; and what is owed is
\* written before a handle has nothing more to write.
PromiseInv(p) ==
  /\ Owed(p) # <<>> /\ state[p] = "open" => Runs(p, "append") \/ Waiting(p) # <<>>
  /\ flushing[p].at = "drain" => flushing[p].upTo <= Len(live[p])
  /\ flushing[p].at = "barrier" /\ state[p] = "open" =>
       flushing[p].upTo <= handle[p].cursor /\ (Owed(p) = <<>> \/ Runs(p, "append"))

DataInv(p) == /\ state[p] = "reading" => exists
              /\ Attached(p) => HandleInv(p) /\ TrackInv(p) /\ PromiseInv(p)

\* A flush that is being written writes the file for the first time, so nothing
\* was published before it was asked for.
FlushInv(p) == Runs(p, "flush") /\ step[p] # "idle" => flushing[p].upTo = 0

\* And this as long as no rejected append has been sent again.
DataKept == FileInv /\ \A p \in Proc : DataInv(p) /\ FlushInv(p)

IInv == CoreInv /\ (resent \/ DataKept)

-----------------------------------------------------------------------------
(* Tuples, and the six chains.                                               *)

\* How the shortest tuples are put together and taken apart.
LEMMA Tuples ==
  \A a, b :
    /\ Tail(<<a>>) = <<>> /\ Tail(<<a, b>>) = <<b>>
    /\ Append(<<>>, a) = <<a>> /\ Append(<<a>>, b) = <<a, b>>
    /\ Head(<<a>>) = a /\ Head(<<a, b>>) = a
    /\ Len(<<>>) = 0 /\ Len(<<a>>) = 1 /\ Len(<<a, b>>) = 2
    /\ <<a>> # <<>> /\ <<a, b>> # <<>>
    /\ <<>> \o <<a>> = <<a>> /\ <<>> \o <<>> = <<>> /\ <<a>> \o <<>> = <<a>>
    /\ <<a>> \o <<b>> = <<a, b>>
<1> TAKE a, b
<1> DEFINE S == {a, b}
<1>0. <<a>> \in Seq(S) /\ <<b>> \in Seq(S) /\ <<a, b>> \in Seq(S)
  OBVIOUS
<1>1. Tail(<<a>>) = <<>>       OBVIOUS
<1>2. Tail(<<a, b>>) = <<b>>   OBVIOUS
<1>3. Append(<<>>, a) = <<a>>  OBVIOUS
<1>4. <<a>> \o <<b>> = <<a, b>>
  <2>1. DEFINE s == <<a>> \o <<b>>
  <2>2. /\ s \in Seq(S) /\ Len(s) = Len(<<a>>) + Len(<<b>>)
        /\ \A i \in 1 .. Len(<<a>>) + Len(<<b>>) :
             s[i] = IF i <= Len(<<a>>) THEN <<a>>[i] ELSE <<b>>[i - Len(<<a>>)]
    BY <1>0, ConcatProperties
  <2>3. Len(<<a>>) = 1 /\ Len(<<b>>) = 1 /\ Len(<<a, b>>) = 2
    OBVIOUS
  <2>4. /\ Len(s) = 2 /\ s[1] = <<a>>[1] /\ s[2] = <<b>>[1]
    BY <2>2, <2>3
  <2> HIDE DEF s
  <2>5. s[1] = a /\ s[2] = b /\ <<a, b>>[1] = a /\ <<a, b>>[2] = b
    BY <2>4
  <2>6. \A i \in 1 .. 2 : s[i] = <<a, b>>[i]
    BY <2>5
  <2>7. s = <<a, b>>
    BY <1>0, <2>2, <2>3, <2>4, <2>6, SeqEqual
  <2> QED
    BY <2>7 DEF s
<1>5. Append(<<a>>, b) = <<a, b>>
  BY <1>0, <1>4, AppendIsConcat
<1>6. Head(<<a>>) = a /\ Head(<<a, b>>) = a
  OBVIOUS
<1>7. Len(<<>>) = 0 /\ Len(<<a>>) = 1 /\ Len(<<a, b>>) = 2
  OBVIOUS
<1>8. <<a>> # <<>> /\ <<a, b>> # <<>>
  OBVIOUS
<1>9. <<>> \o <<a>> = <<a>>    OBVIOUS
<1>10. <<>> \o <<>> = <<>>     OBVIOUS
<1>11. <<a>> \o <<>> = <<a>>   OBVIOUS
<1> QED
  BY <1>1, <1>2, <1>3, <1>4, <1>5, <1>6, <1>7, <1>8, <1>9, <1>10, <1>11

\* Tuples are equal when their lengths and members are.
LEMMA TuplesDiffer ==
  \A a, b, c, d : /\ <<a, b>> = <<c, d>> <=> a = c /\ b = d
                  /\ <<a>> = <<c>> <=> a = c
                  /\ <<a>> # <<c, d>> /\ <<a, b>> # <<c>>
  OBVIOUS

\* What is at the head of a chain, and what is behind it.
LEMMA ChainHeads ==
  \A c \in Chains :
    /\ c \in Seq(Op) /\ Len(c) \in Nat /\ (Len(c) = 0 <=> c = <<>>)
    /\ c \in Appending => c # <<>> /\ Head(c) = "append" /\ c \notin Draining
    /\ c \in Draining \/ c \in Flushing => c # <<>>
    /\ c \in Draining => c = <<"drain">> \/ Head(c) = "flush"
    /\ c = <<"drain">> => c \in Draining /\ c \notin Flushing
    /\ c # <<>> /\ Head(c) = "drain" => c = <<"drain">>
    /\ c # <<>> /\ Head(c) = "append" => c \in Appending
    /\ c # <<>> /\ Head(c) = "flush" => c \in Flushing /\ c \notin Appending
    /\ c # <<>> => Head(c) \in Op
<1> TAKE c \in Chains
<1> USE DEF Chains, Appending, Draining, Flushing, Op
<1>1. CASE c = <<>>
  BY <1>1, Tuples, TuplesDiffer
<1>2. CASE c = <<"append">>
  BY <1>2, Tuples, TuplesDiffer
<1>3. CASE c = <<"append", "flush">>
  BY <1>3, Tuples, TuplesDiffer
<1>4. CASE c = <<"drain">>
  BY <1>4, Tuples, TuplesDiffer
<1>5. CASE c = <<"flush">>
  BY <1>5, Tuples, TuplesDiffer
<1>6. CASE c = <<"flush", "drain">>
  BY <1>6, Tuples, TuplesDiffer
<1> QED
  BY <1>1, <1>2, <1>3, <1>4, <1>5, <1>6

\* What is left when the head of a chain has ended.
LEMMA ChainTails ==
  \A c \in Chains : c # <<>> =>
    /\ Tail(c) \in Chains /\ Len(Tail(c)) = Len(c) - 1 /\ Tail(c) \notin Appending
    /\ Tail(c) \o <<>> = Tail(c)
    /\ Head(c) = "drain" => Tail(c) = <<>>
    /\ Head(c) = "append" => Tail(c) \notin Draining
                             /\ (Tail(c) \in Flushing <=> c \in Flushing)
    /\ Head(c) = "flush" => Tail(c) \notin Flushing
                            /\ (Tail(c) \in Draining <=> c \in Draining)
                            /\ (c \in Draining => Tail(c) = <<"drain">>)
                            /\ (c \notin Draining => Tail(c) = <<>>)
<1> TAKE c \in Chains
<1> USE DEF Chains, Appending, Draining, Flushing, Op
<1>1. CASE c = <<>>
  BY <1>1, Tuples, TuplesDiffer
<1>2. CASE c = <<"append">>
  BY <1>2, Tuples, TuplesDiffer
<1>3. CASE c = <<"append", "flush">>
  BY <1>3, Tuples, TuplesDiffer
<1>4. CASE c = <<"drain">>
  BY <1>4, Tuples, TuplesDiffer
<1>5. CASE c = <<"flush">>
  BY <1>5, Tuples, TuplesDiffer
<1>6. CASE c = <<"flush", "drain">>
  BY <1>6, Tuples, TuplesDiffer
<1> QED
  BY <1>1, <1>2, <1>3, <1>4, <1>5, <1>6

\* A drain or a flush is queued.
LEMMA ChainGrows ==
  \A c \in Chains :
    /\ c \notin Appending \cup Draining =>
         /\ Append(c, "drain") \in Chains /\ Append(c, "drain") \in Draining
         /\ Append(c, "drain") \notin Appending /\ Append(c, "drain") # <<>>
         /\ Append(c, "drain") \in Flushing <=> c \in Flushing
         /\ Append(c, "drain") = <<"drain">> => c = <<>>
         /\ c # <<>> => Head(Append(c, "drain")) = Head(c)
         /\ c = <<>> => Append(c, "drain") = <<"drain">>
    /\ c \notin Flushing \cup Draining =>
         /\ Append(c, "flush") \in Chains /\ Append(c, "flush") \in Flushing
         /\ Append(c, "flush") \notin Draining /\ Append(c, "flush") # <<>>
         /\ Append(c, "flush") \in Appending <=> c \in Appending
         /\ c # <<>> => Head(Append(c, "flush")) = Head(c)
         /\ c = <<>> => Append(c, "flush") = <<"flush">>
<1> TAKE c \in Chains
<1> USE DEF Chains, Appending, Draining, Flushing, Op
<1>1. CASE c = <<>>
  BY <1>1, Tuples, TuplesDiffer
<1>2. CASE c = <<"append">>
  BY <1>2, Tuples, TuplesDiffer
<1>3. CASE c = <<"append", "flush">>
  BY <1>3, Tuples, TuplesDiffer
<1>4. CASE c = <<"drain">>
  BY <1>4, Tuples, TuplesDiffer
<1>5. CASE c = <<"flush">>
  BY <1>5, Tuples, TuplesDiffer
<1>6. CASE c = <<"flush", "drain">>
  BY <1>6, Tuples, TuplesDiffer
<1> QED
  BY <1>1, <1>2, <1>3, <1>4, <1>5, <1>6

\* The chains that begin one.
LEMMA ChainStarts ==
  /\ <<>> \in Chains /\ <<>> \notin Appending \cup Draining \cup Flushing
  /\ <<"drain">> \in Chains /\ <<"drain">> \in Draining
  /\ <<"drain">> \notin Flushing /\ <<"drain">> \notin Appending
  /\ <<"flush">> \in Chains /\ <<"flush">> \in Flushing
  /\ <<"flush">> \notin Draining /\ <<"flush">> \notin Appending
  /\ <<"append">> \in Chains /\ <<"append">> \in Appending
  /\ <<"append">> \notin Draining /\ <<"append">> \notin Flushing
  /\ <<>> \o <<"drain">> = <<"drain">> /\ <<>> \o <<"flush">> = <<"flush">>
  /\ Head(<<"drain">>) = "drain" /\ Head(<<"flush">>) = "flush"
  /\ Head(<<"append">>) = "append"
  /\ <<"drain">> # <<>> /\ <<"flush">> # <<>> /\ <<"append">> # <<>>
  /\ Len(<<"drain">>) = 1 /\ Len(<<"flush">>) = 1 /\ Len(<<"append">>) = 1
  BY Tuples, TuplesDiffer DEF Chains, Appending, Draining, Flushing, Op

-----------------------------------------------------------------------------
(* Control: what one step does to the process that takes it, and that it     *)
(* does nothing to the others.                                               *)

\* Nothing that a process remembers changes.
Same(q) ==
  /\ state'[q] = state[q] /\ live'[q] = live[q] /\ on'[q] = on[q]
  /\ handle'[q] = handle[q] /\ buffer'[q] = buffer[q] /\ chain'[q] = chain[q]
  /\ step'[q] = step[q] /\ batch'[q] = batch[q] /\ closer'[q] = closer[q]
  /\ flushing'[q] = flushing[q]

\* Then its control stays as it is.
LEMMA SameControl ==
  ASSUME NEW q \in Proc, Same(q), Control(q)
  PROVE  Control(q)'
  BY DEF Same, Control, ChainInv, WorkInv, CloseInv, Blank, Begun, Runs

\* drainLive queues one drain at most, and none behind an append.
LEMMA DrainsDoes ==
  ASSUME TypeOK, NEW p \in Proc, ChainInv(p), WorkInv(p), Drains(p)
  PROVE  /\ buffer'[p].events = buffer[p].events
         /\ chain'[p] \in Chains
         /\ buffer'[p].draining <=> chain'[p] \in Draining
         /\ chain'[p] \in Flushing <=> chain[p] \in Flushing
         /\ chain'[p] \in Appending <=> chain[p] \in Appending
         /\ buffer[p].events # <<>> \/ Busy(p) <=> chain'[p] \in Draining
         /\ \/ chain'[p] = chain[p]
            \/ /\ chain[p] \notin Draining /\ chain'[p] = Append(chain[p], "drain")
               /\ buffer[p].events # <<>> /\ chain[p] \notin Appending
               /\ chain[p] = <<>> => chain'[p] = <<"drain">>
               /\ chain[p] # <<>> => Head(chain'[p]) = Head(chain[p])
               /\ chain'[p] # <<>>
               /\ chain'[p] = <<"drain">> => chain[p] = <<>>
<1>0. /\ buffer \in [Proc -> Buffer] /\ chain \in [Proc -> Seq(Op)]
      /\ chain[p] \in Chains /\ (Busy(p) <=> chain[p] \in Draining)
      /\ chain[p] \in Appending => buffer[p].events = <<>>
  BY DEF TypeOK, ChainInv, WorkInv, Busy
<1>1. CASE Busy(p) \/ buffer[p].events = <<>>
  <2>1. chain'[p] = chain[p] /\ buffer'[p].events = buffer[p].events
        /\ buffer'[p].draining = buffer[p].draining
    BY <1>0, <1>1 DEF Drains, Busy, Buffer
  <2> QED
    BY <1>0, <1>1, <2>1 DEF Busy
<1>2. CASE ~Busy(p) /\ buffer[p].events # <<>>
  <2>1. chain'[p] = Append(chain[p], "drain") /\ buffer'[p].events = buffer[p].events
        /\ buffer'[p].draining = TRUE
    BY <1>0, <1>2 DEF Drains, Buffer
  <2>2. chain[p] \notin Appending \cup Draining
    BY <1>0, <1>2
  <2> QED
    BY <1>0, <1>2, <2>1, <2>2, ChainGrows
<1> QED
  BY <1>1, <1>2

\* Asking for a drain keeps the work of a process in order.
LEMMA DrainsWork ==
  ASSUME TypeOK, NEW p \in Proc, ChainInv(p), WorkInv(p), Drains(p),
         step'[p] = step[p], batch'[p] = batch[p], handle'[p] = handle[p],
         on'[p] \in {on[p], FALSE},
         state'[p] = state[p] \/ (state[p] = "open" /\ state'[p] = "closing"),
         on'[p] = on[p] \/ state'[p] = "closing"
  PROVE  /\ WorkInv(p)'
         /\ step[p] # "idle" => chain'[p] # <<>>
         /\ Begun(p)' <=> Begun(p)
<1>1. /\ buffer'[p].events = buffer[p].events
      /\ chain'[p] \in Appending <=> chain[p] \in Appending
      /\ buffer[p].events # <<>> \/ Busy(p) <=> chain'[p] \in Draining
      /\ chain'[p] = chain[p] \/ chain'[p] # <<>>
      /\ \/ chain'[p] = chain[p]
         \/ /\ chain[p] \notin Draining /\ buffer[p].events # <<>> /\ chain[p] \notin Appending
            /\ chain[p] = <<>> => chain'[p] = <<"drain">>
            /\ chain[p] # <<>> => Head(chain'[p]) = Head(chain[p])
            /\ chain'[p] = <<"drain">> => chain[p] = <<>>
  BY DrainsDoes
<1>2. /\ chain[p] \in Chains
      /\ step[p] # "idle" => chain[p] # <<>>
      /\ buffer[p].draining <=> chain[p] \in Draining
  BY DEF ChainInv
<1>3. /\ chain[p] \in Draining /\ ~Begun(p) => buffer[p].events # <<>>
      /\ batch[p] # <<>> => chain[p] \in Appending \/ Begun(p)
      /\ Begun(p) => batch[p] # <<>>
      /\ chain[p] \in Appending \/ (state[p] = "open" /\ ~on[p]) => buffer[p].events = <<>>
      /\ chain[p] \in Appending => ~on[p]
      /\ state[p] = "open" /\ ~on[p] => chain[p] \notin Draining
      /\ Runs(p, "flush") /\ step[p] # "idle" => ~handle[p].materialized
  BY DEF WorkInv
<1>4. Begun(p)' <=> Begun(p)
  BY <1>1, <1>2, ChainHeads DEF Begun
<1>5. Runs(p, "flush")' /\ step[p] # "idle" => Runs(p, "flush")
  BY <1>1, <1>2 DEF Runs
<1>6. step[p] # "idle" => chain'[p] # <<>>
  BY <1>1, <1>2
<1>7. chain'[p] \in Draining /\ ~Begun(p) => buffer[p].events # <<>>
  BY <1>1, <1>2, <1>3
<1>8. on \in [Proc -> BOOLEAN]
  BY DEF TypeOK
<1>9. chain'[p] \in Appending => ~on'[p]
  BY <1>1, <1>3, <1>8
<1>10. batch[p] # <<>> => chain'[p] \in Appending \/ Begun(p)
  BY <1>1, <1>3
<1>11. chain'[p] \in Appending \/ (state'[p] = "open" /\ ~on'[p]) => buffer[p].events = <<>>
  BY <1>1, <1>3
<1>12. state'[p] = "open" /\ ~on'[p] => chain'[p] \notin Draining
  BY <1>1, <1>3
<1> QED
  BY <1>1, <1>3, <1>4, <1>5, <1>6, <1>7, <1>9, <1>10, <1>11, <1>12 DEF WorkInv

\* The timer asks for a drain, or finds one under way.
LEMMA TimerControl ==
  ASSUME TypeOK, NEW p \in Proc, Control(p), Timer(p)
  PROVE  Control(p)'
<1>0. ChainInv(p) /\ WorkInv(p) /\ CloseInv(p)
  BY DEF Control
<1>1. /\ state' = state /\ live' = live /\ on' = on /\ handle' = handle /\ step' = step
      /\ batch' = batch /\ closer' = closer /\ flushing' = flushing
      /\ ~Resumes(p) /\ buffer[p].timer
  BY DEF Timer
<1>t. buffer \in [Proc -> Buffer]
  BY DEF TypeOK
<1>2. CASE Busy(p)
  <2>1. chain'[p] = chain[p] /\ buffer'[p].events = buffer[p].events
        /\ buffer'[p].draining = buffer[p].draining
    BY <1>t, <1>2 DEF Timer, Buffer
  <2>2. state[p] \notin {"shut", "reading"}
    BY <1>0, <1>1 DEF ChainInv, Blank, NoBuffer
  <2> QED
    BY <1>0, <1>1, <2>1, <2>2 DEF Control, ChainInv, WorkInv, CloseInv, Begun, Runs
<1>3. CASE ~Busy(p)
  <2>1. Drains(p)
    BY <1>3 DEF Timer
  <2>2. /\ WorkInv(p)'
        /\ step[p] # "idle" => chain'[p] # <<>>
        /\ Begun(p)' <=> Begun(p)
    BY <1>0, <1>1, <2>1, DrainsWork
  <2>3. state[p] \notin {"shut", "reading"}
    BY <1>0, <1>1 DEF ChainInv, Blank, NoBuffer
  <2>4. /\ buffer'[p].events = buffer[p].events
        /\ chain'[p] \in Chains
        /\ buffer'[p].draining <=> chain'[p] \in Draining
        /\ chain'[p] \in Flushing <=> chain[p] \in Flushing
        /\ buffer[p].events # <<>> \/ Busy(p) <=> chain'[p] \in Draining
        /\ chain'[p] = chain[p] \/ (chain[p] \notin Draining /\ buffer[p].events # <<>>)
    BY <1>0, <2>1, DrainsDoes
  <2>5. ChainInv(p)'
    BY <1>0, <1>1, <2>2, <2>3, <2>4 DEF ChainInv
  <2>6. CloseInv(p)'
    BY <1>0, <1>1, <2>2, <2>4 DEF CloseInv
  <2> QED
    BY <2>2, <2>5, <2>6 DEF Control
<1> QED
  BY <1>2, <1>3

\* A flush queues itself behind the drain it asked for, or by itself.
LEMMA FlushControl ==
  ASSUME TypeOK, NEW p \in Proc, Control(p), Flush(p)
  PROVE  Control(p)'
<1>0. ChainInv(p) /\ WorkInv(p) /\ CloseInv(p)
  BY DEF Control
<1>1. /\ state' = state /\ live' = live /\ on' = on /\ handle' = handle /\ step' = step
      /\ batch' = batch /\ closer' = closer
      /\ state[p] = "open" /\ flushing[p] = NoFlush
  BY DEF Flush
<1>t. /\ buffer \in [Proc -> Buffer] /\ chain \in [Proc -> Seq(Op)]
      /\ flushing \in [Proc -> [at : {"no", "drain", "barrier"}, upTo : Nat]]
  BY DEF TypeOK
<1>c. closer'[p].at = "no"
  BY <1>0, <1>1 DEF CloseInv, TypeOK
<1>f. chain[p] \notin Flushing /\ chain[p] \in Chains
  BY <1>0, <1>1 DEF ChainInv, NoFlush
<1>2. CASE buffer[p].events = <<>> /\ ~Busy(p)
  <2>1. /\ chain'[p] = Append(chain[p], "flush") /\ buffer'[p].events = buffer[p].events
        /\ buffer'[p].draining = buffer[p].draining /\ flushing'[p].at = "barrier"
    BY <1>t, <1>2 DEF Flush, Buffer
  <2>2. chain[p] \notin Draining
    BY <1>0, <1>2 DEF ChainInv, Busy
  <2>3. /\ chain'[p] \in Chains /\ chain'[p] \in Flushing
        /\ chain'[p] \notin Draining /\ chain'[p] # <<>>
        /\ chain'[p] \in Appending <=> chain[p] \in Appending
        /\ chain[p] # <<>> => Head(chain'[p]) = Head(chain[p])
    BY <1>f, <2>1, <2>2, ChainGrows
  <2>4. ChainInv(p)'
    BY <1>0, <1>1, <2>1, <2>2, <2>3 DEF ChainInv
  <2>5. step[p] # "idle" => chain[p] # <<>>
    BY <1>0 DEF ChainInv
  <2>6. Runs(p, "flush")' /\ step[p] # "idle" => Runs(p, "flush")
    BY <2>3, <2>5 DEF Runs
  <2>7. WorkInv(p)'
    <3>1. ~Begun(p)
      BY <2>2, ChainStarts DEF Begun
    <3>2. buffer'[p].events = <<>>
      BY <1>2, <2>1
    <3>3. /\ batch[p] # <<>> => chain[p] \in Appending
          /\ chain[p] \in Appending => ~on[p]
      BY <1>0, <3>1 DEF WorkInv
    <3>4. Runs(p, "flush")' /\ step'[p] # "idle" => ~handle'[p].materialized
      BY <1>0, <1>1, <2>6 DEF WorkInv
    <3>5. ~Begun(p)'
      BY <2>3, ChainStarts DEF Begun
    <3> QED
      BY <1>1, <2>3, <3>2, <3>3, <3>4, <3>5 DEF WorkInv
  <2>8. CloseInv(p)'
    BY <1>1, <1>c DEF CloseInv
  <2> QED
    BY <2>4, <2>7, <2>8 DEF Control
<1>3. CASE ~(buffer[p].events = <<>> /\ ~Busy(p))
  <2>1. Drains(p) /\ flushing'[p].at = "drain"
    BY <1>t, <1>3 DEF Flush
  <2>2. /\ WorkInv(p)'
        /\ step[p] # "idle" => chain'[p] # <<>>
    BY <1>0, <1>1, <2>1, DrainsWork
  <2>3. /\ chain'[p] \in Chains
        /\ buffer'[p].draining <=> chain'[p] \in Draining
        /\ chain'[p] \in Flushing <=> chain[p] \in Flushing
        /\ chain'[p] \in Draining
    BY <1>0, <1>3, <2>1, DrainsDoes
  <2>4. ChainInv(p)'
    BY <1>0, <1>1, <1>f, <2>1, <2>2, <2>3 DEF ChainInv
  <2>5. CloseInv(p)'
    BY <1>1, <1>c DEF CloseInv
  <2> QED
    BY <2>2, <2>4, <2>5 DEF Control
<1> QED
  BY <1>2, <1>3

\* close() asks for a drain and waits for it, or for the chain.
LEMMA CloseControl ==
  ASSUME TypeOK, NEW p \in Proc, Control(p), Close(p)
  PROVE  Control(p)'
<1>0. ChainInv(p) /\ WorkInv(p) /\ CloseInv(p)
  BY DEF Control
<1>t. /\ state \in [Proc -> {"shut", "reading", "open", "closing", "releasing", "stray"}]
      /\ on \in [Proc -> BOOLEAN] /\ chain \in [Proc -> Seq(Op)]
      /\ closer \in [Proc -> [at : {"no", "drain", "failed", "chain", "last"}, ahead : Nat]]
  BY DEF TypeOK
<1>1. /\ handle' = handle /\ step' = step /\ batch' = batch /\ flushing' = flushing
      /\ state[p] = "open" /\ state'[p] = "closing" /\ on'[p] \in {on[p], FALSE}
      /\ Drains(p)
      /\ closer'[p] = IF Busy(p) \/ buffer[p].events # <<>> THEN [at |-> "drain", ahead |-> 0]
                      ELSE [at |-> "chain", ahead |-> Len(chain[p])]
  BY <1>t DEF Close
<1>2. /\ WorkInv(p)'
      /\ step[p] # "idle" => chain'[p] # <<>>
  BY <1>0, <1>1, DrainsWork
<1>3. /\ chain'[p] \in Chains
      /\ buffer'[p].draining <=> chain'[p] \in Draining
      /\ chain'[p] \in Flushing <=> chain[p] \in Flushing
      /\ buffer[p].events # <<>> \/ Busy(p) <=> chain'[p] \in Draining
      /\ chain'[p] = chain[p] \/ chain[p] \notin Draining
  BY <1>0, <1>1, DrainsDoes
<1>4. ChainInv(p)'
  BY <1>0, <1>1, <1>2, <1>3 DEF ChainInv
<1>5. /\ closer'[p].at \in {"drain", "chain"}
      /\ closer'[p].at = "drain" => chain'[p] \in Draining
      /\ closer'[p].at = "chain" => chain'[p] \notin Draining
  BY <1>1, <1>3
<1>6. closer'[p].at = "chain" => ~Begun(p)'
  BY <1>5, ChainStarts DEF Begun
<1>7. CloseInv(p)'
  BY <1>1, <1>5, <1>6 DEF CloseInv
<1> QED
  BY <1>2, <1>4, <1>7 DEF Control

\* close() looks again: the buffer is drained once more, or it was the last look.
LEMMA CloseLoopsControl ==
  ASSUME TypeOK, NEW p \in Proc, Control(p), CloseLoops(p)
  PROVE  Control(p)'
<1>0. ChainInv(p) /\ WorkInv(p) /\ CloseInv(p)
  BY DEF Control
<1>t. /\ closer \in [Proc -> [at : {"no", "drain", "failed", "chain", "last"}, ahead : Nat]]
      /\ chain \in [Proc -> Seq(Op)]
  BY DEF TypeOK
<1>1. /\ state' = state /\ on' = on /\ handle' = handle /\ step' = step /\ batch' = batch
      /\ flushing' = flushing
      /\ state[p] = "closing" /\ closer[p].at = "chain" /\ closer[p].ahead = 0
  BY DEF CloseLoops, Resumes
<1>2. CASE buffer[p].events = <<>>
  <2>1. /\ closer'[p] = [at |-> "last", ahead |-> Len(chain[p])]
        /\ buffer' = buffer /\ chain' = chain
    BY <1>t, <1>2 DEF CloseLoops
  <2>2. ChainInv(p)' /\ WorkInv(p)'
    BY <1>0, <1>1, <2>1 DEF ChainInv, WorkInv, Begun, Runs
  <2>3. ~Begun(p)
    BY <1>0, <1>1 DEF CloseInv
  <2>4. chain[p] \notin Draining
    BY <1>0, <1>2, <2>3 DEF WorkInv
  <2>5. CloseInv(p)'
    BY <1>0, <1>1, <1>2, <2>1, <2>3, <2>4 DEF CloseInv
  <2> QED
    BY <2>2, <2>5 DEF Control
<1>3. CASE buffer[p].events # <<>>
  <2>1. Drains(p) /\ closer'[p] = [at |-> "drain", ahead |-> 0]
    BY <1>t, <1>3 DEF CloseLoops
  <2>2. /\ WorkInv(p)'
        /\ step[p] # "idle" => chain'[p] # <<>>
    BY <1>0, <1>1, <2>1, DrainsWork
  <2>3. /\ chain'[p] \in Chains
        /\ buffer'[p].draining <=> chain'[p] \in Draining
        /\ chain'[p] \in Flushing <=> chain[p] \in Flushing
        /\ chain'[p] \in Draining
        /\ chain'[p] = chain[p] \/ chain[p] \notin Draining
    BY <1>0, <1>3, <2>1, DrainsDoes
  <2>4. ChainInv(p)'
    BY <1>0, <1>1, <2>2, <2>3 DEF ChainInv
  <2>5. CloseInv(p)'
    BY <1>0, <1>1, <2>1, <2>3 DEF CloseInv
  <2> QED
    BY <2>2, <2>4, <2>5 DEF Control
<1> QED
  BY <1>2, <1>3

\* The end of an operation leaves its process between two operations.
LEMMA LeavesDoes ==
  ASSUME TypeOK, NEW p \in Proc, NEW more, Leaves(p, more)
  PROVE  /\ chain'[p] = Tail(chain[p]) \o more
         /\ step'[p] = "idle" /\ batch'[p] = <<>>
  BY DEF TypeOK, Leaves

\* A drain that has written its batch.
LEMMA DrainResolvesControl ==
  ASSUME TypeOK, NEW p \in Proc, Control(p), step[p] # "idle", Runs(p, "drain"),
         DrainResolves(p)
  PROVE  Control(p)'
<1>0. ChainInv(p) /\ WorkInv(p) /\ CloseInv(p)
  BY DEF Control
<1>t. /\ closer \in [Proc -> [at : {"no", "drain", "failed", "chain", "last"}, ahead : Nat]]
      /\ buffer \in [Proc -> Buffer]
      /\ flushing \in [Proc -> [at : {"no", "drain", "barrier"}, upTo : Nat]]
  BY DEF TypeOK
<1>1. chain[p] = <<"drain">> /\ Tail(chain[p]) = <<>> /\ Len(chain[p]) - 1 = 0
  <2>1. chain[p] \in Chains /\ chain[p] # <<>> /\ Head(chain[p]) = "drain"
    BY <1>0 DEF Runs, ChainInv
  <2> QED
    BY <2>1, ChainHeads, ChainTails, ChainStarts
<1>2. /\ state' = state /\ live' = live /\ on' = on
      /\ state[p] \in {"open", "closing"} /\ state' [p] \in {"open", "closing"}
      /\ flushing[p].at \in {"no", "drain"} /\ closer[p].at # "last"
  <2>1. state[p] \notin {"shut", "reading", "releasing", "stray"}
    BY <1>0, <1>1, ChainStarts DEF ChainInv, CloseInv, Blank
  <2>2. flushing[p].at # "barrier" /\ closer[p].at # "last"
    BY <1>0, <1>1, ChainStarts DEF ChainInv, CloseInv
  <2> QED
    BY <1>t, <2>1, <2>2 DEF DrainResolves, TypeOK
<1>3. CASE buffer[p].events # <<>>
  <2>1. MoreBuffered(p)
    BY <1>3 DEF MoreBuffered
  <2>2. /\ Leaves(p, <<"drain">>)
        /\ buffer' = [buffer EXCEPT ![p].draining = TRUE]
        /\ flushing' = [flushing EXCEPT ![p] = @]
        /\ closer' = [closer EXCEPT ![p] = Nearer(@)]
    BY <2>1 DEF DrainResolves
  <2>3. /\ chain'[p] = <<"drain">> /\ step'[p] = "idle" /\ batch'[p] = <<>>
        /\ buffer'[p].draining = TRUE /\ buffer'[p].events = buffer[p].events
        /\ flushing'[p] = flushing[p] /\ closer'[p].at = closer[p].at
        /\ closer[p].ahead = 0 => closer'[p].ahead = 0
    <3>1. chain'[p] = <<"drain">> /\ step'[p] = "idle" /\ batch'[p] = <<>>
      BY <1>1, <2>2, LeavesDoes, ChainStarts
    <3>2. buffer'[p].draining = TRUE /\ buffer'[p].events = buffer[p].events
      BY <1>t, <2>2 DEF Buffer
    <3>3. /\ flushing'[p] = flushing[p] /\ closer'[p].at = closer[p].at
          /\ closer[p].ahead = 0 => closer'[p].ahead = 0
      BY <1>t, <2>2 DEF Nearer
    <3> QED
      BY <3>1, <3>2, <3>3
  <2>4. ChainInv(p)'
    BY <1>2, <2>3, ChainStarts DEF ChainInv
  <2>5. WorkInv(p)'
    BY <1>0, <1>1, <1>2, <1>3, <2>3, ChainStarts DEF WorkInv, Begun
  <2>6. CloseInv(p)'
    BY <1>0, <1>2, <2>3, ChainStarts DEF CloseInv, Begun
  <2> QED
    BY <2>4, <2>5, <2>6 DEF Control
<1>4. CASE buffer[p].events = <<>>
  <2>1. ~MoreBuffered(p)
    BY <1>4 DEF MoreBuffered
  <2> DEFINE next == IF flushing[p].at = "drain" /\ state[p] = "open" THEN <<"flush">> ELSE <<>>
  <2>2. /\ Leaves(p, next)
        /\ buffer' = [buffer EXCEPT ![p].draining = FALSE]
        /\ flushing' = [flushing EXCEPT ![p] =
             IF flushing[p].at # "drain" THEN @
             ELSE IF state[p] = "open" THEN [@ EXCEPT !.at = "barrier"] ELSE NoFlush]
        /\ closer' = [closer EXCEPT ![p] =
             IF closer[p].at = "drain" THEN [at |-> "chain", ahead |-> Len(chain[p]) - 1]
             ELSE Nearer(@)]
    <3>1. Leaves(p, next)
      <4>1. CASE flushing[p].at = "drain" /\ state[p] = "open"
        BY <2>1, <4>1 DEF DrainResolves
      <4>2. CASE ~(flushing[p].at = "drain" /\ state[p] = "open")
        BY <2>1, <4>2 DEF DrainResolves
      <4> QED
        BY <4>1, <4>2
    <3>2. buffer' = [buffer EXCEPT ![p].draining = FALSE]
      <4>1. (buffer[p].events # <<>>) = FALSE
        BY <1>4
      <4>2. buffer' = [buffer EXCEPT ![p].draining = (buffer[p].events # <<>>)]
        BY ZenonT(20) DEF DrainResolves, MoreBuffered
      <4> QED
        BY <4>1, <4>2
    <3>3. flushing' = [flushing EXCEPT ![p] =
             IF flushing[p].at # "drain" THEN @
             ELSE IF state[p] = "open" THEN [@ EXCEPT !.at = "barrier"] ELSE NoFlush]
      BY <2>1 DEF DrainResolves
    <3>4. closer' = [closer EXCEPT ![p] =
             IF closer[p].at = "drain" THEN [at |-> "chain", ahead |-> Len(chain[p]) - 1]
             ELSE Nearer(@)]
      BY <2>1 DEF DrainResolves
    <3> HIDE DEF next
    <3> QED
      BY <3>1, <3>2, <3>3, <3>4
  <2>3. /\ chain'[p] = next
        /\ step'[p] = "idle" /\ batch'[p] = <<>>
        /\ buffer'[p].draining = FALSE /\ buffer'[p].events = <<>>
    <3>1. next = <<>> \/ next = <<"flush">>
      OBVIOUS
    <3>2. Leaves(p, next)
      BY <2>2
    <3>3. buffer'[p].draining = FALSE /\ buffer'[p].events = <<>>
      BY <1>t, <1>4, <2>2 DEF Buffer
    <3> HIDE DEF next
    <3>4. chain'[p] = Tail(chain[p]) \o next /\ step'[p] = "idle" /\ batch'[p] = <<>>
      BY <3>2, LeavesDoes
    <3>5. Tail(chain[p]) \o next = next
      BY <1>1, <3>1, ChainStarts, Tuples
    <3> QED
      BY <3>3, <3>4, <3>5
  <2>4. /\ flushing'[p].at = "barrier" <=> chain'[p] \in Flushing
        /\ flushing'[p].at # "drain"
    BY <1>t, <1>2, <2>2, <2>3, ChainStarts DEF NoFlush
  <2>5. /\ closer'[p].at \notin {"drain", "last", "failed"}
        /\ closer'[p].at = "no" <=> closer[p].at = "no"
    <3>1. closer[p].at # "failed"
      BY <1>0, <1>4 DEF CloseInv
    <3> QED
      BY <1>t, <1>2, <2>2, <3>1 DEF Nearer
  <2>6. chain'[p] \in Chains /\ chain'[p] \notin Draining /\ chain'[p] \notin Appending
    BY <2>3, ChainStarts
  <2>7. ChainInv(p)'
    BY <1>2, <2>3, <2>4, <2>6 DEF ChainInv
  <2>8. WorkInv(p)'
    BY <2>3, <2>6 DEF WorkInv, Begun
  <2>9. CloseInv(p)'
    BY <1>0, <1>2, <2>3, <2>5 DEF CloseInv, Begun
  <2> QED
    BY <2>7, <2>8, <2>9 DEF Control
<1> QED
  BY <1>3, <1>4

\* A drain that failed keeps what it could not write.
LEMMA DrainRejectsControl ==
  ASSUME TypeOK, NEW p \in Proc, Control(p), step[p] # "idle", Runs(p, "drain"),
         DrainRejects(p)
  PROVE  Control(p)'
<1>0. ChainInv(p) /\ WorkInv(p) /\ CloseInv(p)
  BY DEF Control
<1>t. /\ closer \in [Proc -> [at : {"no", "drain", "failed", "chain", "last"}, ahead : Nat]]
      /\ buffer \in [Proc -> Buffer]
      /\ flushing \in [Proc -> [at : {"no", "drain", "barrier"}, upTo : Nat]]
  BY DEF TypeOK
<1>1. chain[p] = <<"drain">> /\ Tail(chain[p]) = <<>> /\ Len(chain[p]) - 1 = 0
  <2>1. chain[p] \in Chains /\ chain[p] # <<>> /\ Head(chain[p]) = "drain"
    BY <1>0 DEF Runs, ChainInv
  <2> QED
    BY <2>1, ChainHeads, ChainTails, ChainStarts
<1>2. /\ state' = state /\ live' = live /\ on' = on
      /\ state[p] \in {"open", "closing"} /\ state'[p] \in {"open", "closing"}
      /\ flushing[p].at \in {"no", "drain"} /\ closer[p].at # "last"
      /\ ~(state[p] = "open" /\ ~on[p])
  <2>1. state[p] \notin {"shut", "reading", "releasing", "stray"}
    BY <1>0, <1>1, ChainStarts DEF ChainInv, CloseInv, Blank
  <2>2. flushing[p].at # "barrier" /\ closer[p].at # "last" /\ ~(state[p] = "open" /\ ~on[p])
    BY <1>0, <1>1, ChainStarts DEF ChainInv, CloseInv, WorkInv
  <2> QED
    BY <1>t, <2>1, <2>2 DEF DrainRejects, TypeOK
<1>3. /\ chain'[p] = <<>> /\ step'[p] = "idle" /\ batch'[p] = <<>>
      /\ buffer'[p].draining = FALSE
      /\ flushing'[p].at = "no"
      /\ closer'[p].at \notin {"drain", "last"}
      /\ closer'[p].at = "no" <=> closer[p].at = "no"
      /\ closer'[p].at = "failed" => closer'[p].ahead = 0
      /\ buffer'[p].events = batch[p] \o buffer[p].events
  <2>1. /\ Leaves(p, <<>>)
        /\ buffer' = [buffer EXCEPT ![p] = Retained(p)]
        /\ flushing' = [flushing EXCEPT ![p] = IF @.at = "drain" THEN NoFlush ELSE @]
        /\ closer' = [closer EXCEPT ![p] = GoesOn(p)]
    BY DEF DrainRejects
  <2>2. chain'[p] = <<>> /\ step'[p] = "idle" /\ batch'[p] = <<>>
    BY <1>1, <2>1, LeavesDoes, Tuples
  <2>3. buffer'[p].draining = FALSE /\ buffer'[p].events = batch[p] \o buffer[p].events
    BY <1>t, <2>1 DEF Retained, Buffer
  <2>4. flushing'[p].at = "no"
    BY <1>t, <1>2, <2>1 DEF NoFlush
  <2>5. /\ closer'[p].at \notin {"drain", "last"}
        /\ closer'[p].at = "no" <=> closer[p].at = "no"
        /\ closer'[p].at = "failed" => closer'[p].ahead = 0
    <3>1. closer'[p] = GoesOn(p) /\ (closer[p].at = "failed" => closer[p].ahead = 0)
      BY <1>0, <1>t, <2>1 DEF CloseInv
    <3> QED
      BY <1>t, <1>1, <1>2, <3>1 DEF GoesOn, Nearer
  <2> QED
    BY <2>2, <2>3, <2>4, <2>5
<1>7. buffer'[p].events # <<>>
  <2>1. batch[p] # <<>>
    BY <1>0, <1>1 DEF WorkInv, Begun
  <2>2. batch[p] \in Seq(Event) /\ buffer[p].events \in Seq(Event)
    BY <1>t DEF TypeOK, Buffer
  <2>3. Len(batch[p]) # 0 /\ Len(batch[p]) \in Nat /\ Len(buffer[p].events) \in Nat
    BY <2>1, <2>2, EmptySeq, LenProperties
  <2>4. Len(batch[p] \o buffer[p].events) = Len(batch[p]) + Len(buffer[p].events)
    BY <2>2, ConcatProperties
  <2> QED
    BY <1>3, <2>3, <2>4, EmptySeq
<1>4. ChainInv(p)'
  BY <1>2, <1>3, ChainStarts DEF ChainInv
<1>5. WorkInv(p)'
  BY <1>2, <1>3, ChainStarts DEF WorkInv, Begun
<1>6. CloseInv(p)'
  <2>1. closer'[p].at = "failed" => state'[p] = "closing"
    BY <1>0, <1>2, <1>3 DEF CloseInv
  <2> QED
    BY <1>0, <1>2, <1>3, <1>7, <2>1 DEF CloseInv, Begun
<1> QED
  BY <1>4, <1>5, <1>6 DEF Control

\* An append or a flush that is over, and an append that failed: nothing is left
\* of it on the chain.
LEMMA CallEndsControl ==
  ASSUME TypeOK, NEW p \in Proc, Control(p),
         \/ Runs(p, "append") /\ (AppendResolves(p) \/ AppendRejects(p))
         \/ Runs(p, "flush") /\ FlushEnds(p)
  PROVE  Control(p)'
<1>0. ChainInv(p) /\ WorkInv(p) /\ CloseInv(p)
  BY DEF Control
<1>t. /\ closer \in [Proc -> [at : {"no", "drain", "failed", "chain", "last"}, ahead : Nat]]
      /\ state \in [Proc -> {"shut", "reading", "open", "closing", "releasing", "stray"}]
      /\ flushing \in [Proc -> [at : {"no", "drain", "barrier"}, upTo : Nat]]
  BY DEF TypeOK
<1>1. /\ chain[p] \in Chains /\ chain[p] # <<>>
      /\ Runs(p, "append") <=> Head(chain[p]) = "append"
      /\ Runs(p, "flush") <=> Head(chain[p]) = "flush"
      /\ Len(chain[p]) \in Nat \ {0}
  BY <1>0, ChainHeads DEF ChainInv, Runs
<1>2. state[p] \in {"open", "closing"}
  BY <1>0, <1>1, <1>t DEF ChainInv, CloseInv, Blank
<1>3. /\ chain'[p] = Tail(chain[p]) /\ step'[p] = "idle" /\ batch'[p] = <<>>
      /\ on' = on /\ buffer' = buffer
  <2>1. Leaves(p, <<>>) /\ on' = on /\ buffer' = buffer
    BY DEF AppendResolves, AppendRejects, FlushEnds
  <2> QED
    BY <1>1, <2>1, LeavesDoes, ChainTails
<1>4. \/ state' = state /\ closer'[p] = Nearer(closer[p])
      \/ /\ Runs(p, "append") /\ state[p] = "open" /\ state'[p] = "closing"
         /\ closer'[p] = [at |-> "chain", ahead |-> Len(chain[p]) - 1]
  <2>1. CASE Runs(p, "append") /\ AppendResolves(p)
    BY <1>t, <2>1 DEF AppendResolves
  <2>2. CASE Runs(p, "append") /\ AppendRejects(p)
    BY <1>t, <2>2 DEF AppendRejects
  <2>3. CASE Runs(p, "flush") /\ FlushEnds(p)
    BY <1>t, <2>3 DEF FlushEnds
  <2> QED
    BY <2>1, <2>2, <2>3
<1>5. /\ Runs(p, "append") => flushing' = flushing
      /\ Runs(p, "flush") => flushing'[p].at = "no"
  <2>1. CASE Runs(p, "append") /\ (AppendResolves(p) \/ AppendRejects(p))
    BY <1>1, <2>1 DEF AppendResolves, AppendRejects
  <2>2. CASE Runs(p, "flush") /\ FlushEnds(p)
    <3>1. flushing' = [flushing EXCEPT ![p] = NoFlush]
      BY <2>2 DEF FlushEnds
    <3>2. flushing'[p].at = "no"
      BY <1>t, <3>1 DEF NoFlush
    <3> QED
      BY <1>1, <2>2, <3>2
  <2> QED
    BY <2>1, <2>2
<1>6. /\ chain'[p] \in Chains /\ Len(chain'[p]) = Len(chain[p]) - 1
      /\ chain'[p] \notin Appending
      /\ chain'[p] \in Draining <=> chain[p] \in Draining
      /\ chain'[p] \in Flushing <=> Runs(p, "append") /\ chain[p] \in Flushing
  BY <1>1, <1>3, ChainHeads, ChainTails
<1>7. ~Begun(p) /\ ~Begun(p)'
  BY <1>1, <1>3, ChainStarts DEF Begun
<1>8. state'[p] \in {"open", "closing"}
  BY <1>2, <1>4
<1>9. ChainInv(p)'
  <2>1. flushing'[p].at = "barrier" <=> chain'[p] \in Flushing
    BY <1>0, <1>1, <1>5, <1>6 DEF ChainInv
  <2>2. flushing'[p].at = "drain" => chain'[p] \in Draining
    BY <1>0, <1>1, <1>5, <1>6 DEF ChainInv
  <2>3. buffer'[p].draining <=> chain'[p] \in Draining
    BY <1>0, <1>3, <1>6 DEF ChainInv
  <2> QED
    BY <1>3, <1>6, <1>8, <2>1, <2>2, <2>3 DEF ChainInv
<1>10. WorkInv(p)'
  <2>1. chain[p] \in Draining => buffer[p].events # <<>>
    BY <1>0, <1>7 DEF WorkInv
  <2>2. state'[p] = "open" => state[p] = "open"
    BY <1>4
  <2>3. /\ state[p] = "open" /\ ~on[p] => buffer[p].events = <<>>
        /\ state[p] = "open" /\ ~on[p] => chain[p] \notin Draining
    BY <1>0 DEF WorkInv
  <2> QED
    BY <1>3, <1>6, <1>7, <2>1, <2>2, <2>3 DEF WorkInv
<1>11. CloseInv(p)'
  <2>1. CASE state' = state /\ closer'[p] = Nearer(closer[p])
    <3>1. /\ closer'[p].at = closer[p].at
          /\ closer'[p].ahead = IF closer[p].ahead = 0 THEN 0 ELSE closer[p].ahead - 1
      BY <1>t, <2>1 DEF Nearer
    <3>2. closer[p].at = "last" =>
            closer'[p].ahead = Len(chain'[p]) /\ buffer[p].events = <<>> /\ chain[p] \notin Draining
      BY <1>0, <1>1, <1>6, <3>1 DEF CloseInv
    <3>3. /\ state[p] \in {"closing", "releasing"} <=> closer[p].at # "no"
          /\ closer[p].at = "drain" => chain[p] \in Draining
      BY <1>0 DEF CloseInv
    <3>4. closer[p].at = "failed" =>
            state[p] = "closing" /\ closer'[p].ahead = 0 /\ buffer[p].events # <<>>
      BY <1>0, <3>1 DEF CloseInv
    <3> QED
      BY <1>3, <1>6, <1>7, <1>8, <2>1, <3>1, <3>2, <3>3, <3>4 DEF CloseInv
  <2>2. CASE /\ Runs(p, "append") /\ state[p] = "open" /\ state'[p] = "closing"
             /\ closer'[p] = [at |-> "chain", ahead |-> Len(chain[p]) - 1]
    BY <1>7, <2>2 DEF CloseInv
  <2> QED
    BY <1>4, <2>1, <2>2
<1> QED
  BY <1>9, <1>10, <1>11 DEF Control

\* However a running operation fails, or a drain or flush or append that has
\* begun resolves.
LEMMA EndsControl ==
  ASSUME TypeOK, NEW p \in Proc, Control(p), step[p] # "idle",
         \/ Rejects(p)
         \/ Runs(p, "drain") /\ DrainResolves(p)
         \/ Runs(p, "append") /\ AppendResolves(p)
         \/ Runs(p, "flush") /\ FlushEnds(p)
  PROVE  Control(p)'
  BY DrainResolvesControl, DrainRejectsControl, CallEndsControl DEF Rejects

\* A process that forgets its session is in control of nothing.
LEMMA ForgetsControl ==
  ASSUME TypeOK, NEW p \in Proc, Forgets(p)
  PROVE  /\ Control(p)' /\ Blank(p)' /\ state'[p] = "shut"
<1>1. Blank(p)' /\ state'[p] = "shut"
  BY DEF TypeOK, Forgets, Blank
<1>2. /\ chain'[p] = <<>> /\ step'[p] = "idle" /\ batch'[p] = <<>> /\ on'[p] = FALSE
      /\ buffer'[p].draining = FALSE /\ buffer'[p].events = <<>>
      /\ closer'[p].at = "no" /\ flushing'[p].at = "no"
  BY <1>1 DEF Blank, NoBuffer, NotClosing, NoFlush
<1> QED
  BY <1>1, <1>2, ChainStarts DEF Control, ChainInv, WorkInv, CloseInv, Begun, Runs

\* An event is buffered, while nobody lets the handle go.
LEMMA PublishControl ==
  ASSUME CleanClose \/ LetsGoEmpty', TypeOK, NEW p \in Proc, Control(p), Publish(p)
  PROVE  Control(p)'
<1>0. ChainInv(p) /\ WorkInv(p) /\ CloseInv(p) /\ on[p]
  BY DEF Control, Publish
<1>t. buffer \in [Proc -> Buffer]
  BY DEF TypeOK
<1>1. /\ state' = state /\ on' = on /\ handle' = handle /\ chain' = chain /\ step' = step
      /\ batch' = batch /\ closer' = closer /\ flushing' = flushing
      /\ state[p] \in {"open", "closing", "releasing"}
  BY DEF Publish
<1>2. /\ buffer'[p].events = Append(buffer[p].events, NewEvent(p))
      /\ buffer'[p].draining = buffer[p].draining
  <2>1. buffer' = [buffer EXCEPT ![p].events = Append(@, NewEvent(p)),
                                 ![p].timer = @ \/ ~buffer[p].paused]
    BY DEF Publish
  <2> HIDE DEF NewEvent
  <2> QED
    BY <1>t, <2>1 DEF Buffer
<1>3. buffer'[p].events # <<>>
  <2>1. buffer[p].events \in Seq(Event)
    BY <1>t DEF Buffer
  <2> QED
    BY <1>2, <2>1
<1>4. state[p] \in {"open", "closing"} /\ closer[p].at # "last"
  <2>1. ~LettingGo(p)
    BY <1>1, <1>3 DEF Publish, LetsGoEmpty, LettingGo
  <2> QED
    BY <1>1, <2>1 DEF LettingGo
<1>5. ChainInv(p)'
  BY <1>0, <1>1, <1>2, <1>4 DEF ChainInv
<1>6. WorkInv(p)'
  BY <1>0, <1>1, <1>3 DEF WorkInv, Begun, Runs
<1>7. CloseInv(p)'
  BY <1>0, <1>1, <1>3, <1>4 DEF CloseInv, Begun
<1> QED
  BY <1>5, <1>6, <1>7 DEF Control

\* A record is appended before the session is live.
LEMMA AppendSeedControl ==
  ASSUME TypeOK, NEW p \in Proc, Control(p), AppendSeed(p)
  PROVE  Control(p)'
<1>0. ChainInv(p) /\ WorkInv(p) /\ CloseInv(p)
  BY DEF Control
<1>t. chain \in [Proc -> Seq(Op)]
  BY DEF TypeOK
<1>1. /\ state' = state /\ on' = on /\ handle' = handle /\ buffer' = buffer /\ step' = step
      /\ closer' = closer /\ flushing' = flushing
      /\ state[p] = "open" /\ ~on[p] /\ chain[p] = <<>> /\ chain'[p] = <<"append">>
  BY <1>t DEF AppendSeed
<1>2. step[p] = "idle" /\ flushing[p].at = "no" /\ closer[p].at = "no"
      /\ buffer[p].events = <<>> /\ ~buffer[p].draining
  <2>1. step[p] = "idle" /\ ~buffer[p].draining /\ flushing[p].at \notin {"drain", "barrier"}
    BY <1>0, <1>1, ChainStarts DEF ChainInv
  <2>2. closer[p].at = "no" /\ buffer[p].events = <<>>
    BY <1>0, <1>1 DEF CloseInv, WorkInv
  <2> QED
    BY <2>1, <2>2 DEF TypeOK
<1>3. ChainInv(p)'
  BY <1>1, <1>2, ChainStarts DEF ChainInv
<1>4. WorkInv(p)'
  BY <1>1, <1>2, ChainStarts DEF WorkInv, Begun
<1>5. CloseInv(p)'
  BY <1>1, <1>2 DEF CloseInv
<1> QED
  BY <1>3, <1>4, <1>5 DEF Control

\* A drain captures the buffer.
LEMMA BeginDrainControl ==
  ASSUME TypeOK, NEW p \in Proc, Control(p), BeginDrain(p)
  PROVE  Control(p)'
<1>0. ChainInv(p) /\ WorkInv(p) /\ CloseInv(p)
  BY DEF Control
<1>t. buffer \in [Proc -> Buffer] /\ step \in [Proc -> {"idle", "lease", "mutate"}]
  BY DEF TypeOK
<1>1. /\ state' = state /\ on' = on /\ handle' = handle /\ chain' = chain
      /\ closer' = closer /\ flushing' = flushing
      /\ Runs(p, "drain") /\ step[p] = "idle" /\ ~Resumes(p)
      /\ step'[p] # "idle" /\ buffer'[p].events = <<>>
      /\ buffer'[p].draining = buffer[p].draining
  BY <1>t DEF BeginDrain, FirstStep, Buffer
<1>2. chain[p] = <<"drain">>
  BY <1>0, <1>1, ChainHeads DEF Runs, ChainInv
<1>3. state[p] \in {"open", "closing"} /\ closer[p].at \notin {"last", "failed"}
      /\ ~(closer[p].at = "chain" /\ closer[p].ahead = 0)
  <2>1. state[p] \notin {"shut", "reading", "releasing", "stray"}
    BY <1>0, <1>2, ChainStarts DEF ChainInv, CloseInv, Blank
  <2>2. state[p] \in {"open", "closing"}
    BY <2>1 DEF TypeOK
  <2>3. closer[p].at # "no" => state[p] = "closing"
    BY <1>0, <2>2 DEF CloseInv
  <2> QED
    BY <1>0, <1>1, <1>2, <2>2, <2>3, ChainStarts DEF CloseInv, Resumes
<1>4. ChainInv(p)'
  BY <1>0, <1>1, <1>2, <1>3, ChainStarts DEF ChainInv
<1>5. WorkInv(p)'
  <2>1. Begun(p)' /\ batch'[p] # <<>> /\ chain[p] \in Draining /\ chain[p] \notin Appending
    <3>1. chain[p] \in Draining /\ ~Begun(p) /\ batch' = [batch EXCEPT ![p] = buffer[p].events]
      BY <1>1, <1>2, ChainStarts DEF Begun, BeginDrain
    <3>2. buffer[p].events # <<>>
      BY <1>0, <3>1 DEF WorkInv
    <3>3. batch'[p] = buffer[p].events
      BY <3>1 DEF TypeOK
    <3> QED
      BY <1>1, <1>2, <3>2, <3>3, ChainStarts DEF Begun
  <2> QED
    BY <1>0, <1>1, <1>2, <2>1, ChainStarts DEF WorkInv, Runs
<1>6. CloseInv(p)'
  BY <1>0, <1>1, <1>3 DEF CloseInv
<1> QED
  BY <1>4, <1>5, <1>6 DEF Control

\* A call of the handle has its turn: it begins, is refused, or has nothing to do.
LEMMA BeginCallControl ==
  ASSUME TypeOK, NEW p \in Proc, Control(p), BeginAppend(p) \/ BeginFlush(p)
  PROVE  Control(p)'
<1>0. ChainInv(p) /\ WorkInv(p) /\ CloseInv(p)
  BY DEF Control
<1>t. step \in [Proc -> {"idle", "lease", "mutate"}]
  BY DEF TypeOK
<1>1. ASSUME step'[p] # "idle", step[p] = "idle", chain[p] # <<>>,
             Head(chain[p]) # "drain", state[p] = "open",
             Head(chain[p]) = "flush" => ~handle[p].materialized,
             state' = state, on' = on, handle' = handle, chain' = chain, batch' = batch,
             buffer' = buffer, closer' = closer, flushing' = flushing
      PROVE  Control(p)'
  <2>1. ~Begun(p) /\ ~Begun(p)'
    BY <1>1, ChainStarts DEF Begun
  <2>2. ChainInv(p)' /\ CloseInv(p)'
    BY <1>0, <1>1, <2>1 DEF ChainInv, CloseInv
  <2>3. WorkInv(p)'
    BY <1>0, <1>1, <2>1 DEF WorkInv, Runs
  <2> QED
    BY <2>2, <2>3 DEF Control
<1>2. CASE BeginAppend(p)
  <2>1. CASE state[p] = "open"
    BY <1>1, <1>2, <1>t, <2>1 DEF BeginAppend, FirstStep, Runs
  <2>2. CASE state[p] # "open"
    BY <1>2, <2>2, CallEndsControl DEF BeginAppend
  <2> QED
    BY <2>1, <2>2
<1>3. CASE BeginFlush(p)
  <2>1. CASE state[p] = "open" /\ ~handle[p].materialized
    BY <1>1, <1>3, <1>t, <2>1 DEF BeginFlush, FirstStep, Runs
  <2>2. CASE ~(state[p] = "open" /\ ~handle[p].materialized)
    BY <1>3, <2>2, CallEndsControl DEF BeginFlush
  <2> QED
    BY <2>1, <2>2
<1> QED
  BY <1>2, <1>3

\* Steps that touch a process's handle, its lock or the file, and nothing that it
\* is doing but for the place of the operation that runs.
LEMMA QuietControl ==
  ASSUME NEW p \in Proc, Control(p), state[p] \notin {"shut", "reading"},
         state'[p] = state[p], on'[p] = on[p], buffer'[p] = buffer[p], chain'[p] = chain[p],
         batch'[p] = batch[p], closer'[p] = closer[p], flushing'[p] = flushing[p],
         step'[p] = "idle" <=> step[p] = "idle",
         handle'[p].materialized = handle[p].materialized
  PROVE  Control(p)'
<1>0. ChainInv(p) /\ WorkInv(p) /\ CloseInv(p)
  BY DEF Control
<1>1. ChainInv(p)'
  BY <1>0 DEF ChainInv
<1>2. WorkInv(p)'
  BY <1>0 DEF WorkInv, Begun, Runs
<1>3. CloseInv(p)'
  BY <1>0 DEF CloseInv, Begun
<1> QED
  BY <1>1, <1>2, <1>3 DEF Control

\* A process that has something to do has a handle.
LEMMA BusyHasHandle ==
  ASSUME NEW p \in Proc, Control(p), step[p] # "idle"
  PROVE  state[p] \notin {"shut", "reading"} /\ chain[p] # <<>>
  BY DEF Control, ChainInv, Blank

\* The lease is taken, or the operation fails.
LEMMA TakeLeaseControl ==
  ASSUME TypeOK, NEW p \in Proc, Control(p), TakeLease(p)
  PROVE  Control(p)'
<1>t. handle \in [Proc -> Handle] /\ step \in [Proc -> {"idle", "lease", "mutate"}]
  BY DEF TypeOK
<1>1. step[p] = "lease"
  BY DEF TakeLease
<1>2. CASE owner = NoProc
  <2>1. /\ state' = state /\ on' = on /\ buffer' = buffer /\ chain' = chain /\ batch' = batch
        /\ closer' = closer /\ flushing' = flushing
        /\ step'[p] = "mutate" /\ handle' = [handle EXCEPT ![p].lease = "held"]
    BY <1>t, <1>2 DEF TakeLease
  <2>2. handle'[p].materialized = handle[p].materialized
    BY <1>t, <2>1 DEF Handle
  <2> QED
    BY <1>1, <2>1, <2>2, BusyHasHandle, QuietControl
<1>3. CASE owner # NoProc
  BY <1>1, <1>3, EndsControl DEF TakeLease
<1> QED
  BY <1>2, <1>3

\* What happens to the file, whatever it is.
LEMMA FileControl ==
  ASSUME TypeOK, NEW p \in Proc, Control(p),
         \/ TruncateTail(p) \/ RewriteTail(p) \/ WriteBatch(p) \/ RefuseWrite(p)
         \/ FileOpFails(p) \/ AppendStays(p) \/ PublishUnsynced(p)
  PROVE  Control(p)'
<1>t. handle \in [Proc -> Handle]
  BY DEF TypeOK
<1>1. step[p] = "mutate"
  BY DEF TruncateTail, RewriteTail, WriteBatch, RefuseWrite, FileOpFails, AppendStays,
         PublishUnsynced, Truncating, Rewriting, Writing
<1>2. CASE TruncateTail(p) \/ RewriteTail(p)
  <2>1. /\ state' = state /\ on' = on /\ buffer' = buffer /\ chain' = chain /\ batch' = batch
        /\ closer' = closer /\ flushing' = flushing /\ step' = step
    BY <1>2 DEF TruncateTail, RewriteTail
  <2>2. handle'[p].materialized = handle[p].materialized
    BY <1>t, <1>2 DEF TruncateTail, RewriteTail, Handle
  <2> QED
    BY <1>1, <2>1, <2>2, BusyHasHandle, QuietControl
<1>3. CASE WriteBatch(p)
  BY <1>1, <1>3, EndsControl DEF WriteBatch
<1>4. CASE RefuseWrite(p) \/ FileOpFails(p) \/ AppendStays(p) \/ PublishUnsynced(p)
  BY <1>1, <1>4, EndsControl DEF RefuseWrite, FileOpFails, AppendStays, PublishUnsynced
<1> QED
  BY <1>2, <1>3, <1>4

\* A handle is asked for, or the log it was opened on has been read.
LEMMA OpeningControl ==
  ASSUME TypeOK, NEW p \in Proc, Control(p), Create(p) \/ OpenWrite(p) \/ ReadLog(p)
  PROVE  Control(p)'
<1>0. ChainInv(p) /\ WorkInv(p) /\ CloseInv(p)
  BY DEF Control
<1>t. state \in [Proc -> {"shut", "reading", "open", "closing", "releasing", "stray"}]
  BY DEF TypeOK
<1>1. /\ on' = on /\ buffer' = buffer /\ chain' = chain /\ batch' = batch
      /\ closer' = closer /\ flushing' = flushing /\ step' = step
      /\ state[p] \in {"shut", "reading"}
      /\ state'[p] \in {"reading", "open"}
      /\ state'[p] = "reading" => handle' = handle /\ live' = live
  BY <1>t DEF Create, OpenWrite, ReadLog
<1>2. Blank(p)
  BY <1>0, <1>1 DEF ChainInv
<1>3. /\ chain[p] = <<>> /\ step[p] = "idle" /\ batch[p] = <<>> /\ on[p] = FALSE
      /\ ~buffer[p].draining /\ buffer[p].events = <<>>
      /\ closer[p].at = "no" /\ flushing[p].at = "no"
  BY <1>2 DEF Blank, NoBuffer, NotClosing, NoFlush
<1>4. ChainInv(p)'
  BY <1>1, <1>2, <1>3, ChainStarts DEF ChainInv, Blank
<1>5. WorkInv(p)' /\ CloseInv(p)'
  BY <1>1, <1>3, ChainStarts DEF WorkInv, CloseInv, Begun, Runs
<1> QED
  BY <1>4, <1>5 DEF Control

\* The session is announced.
LEMMA GoLiveControl ==
  ASSUME TypeOK, NEW p \in Proc, Control(p), GoLive(p)
  PROVE  Control(p)'
<1>0. ChainInv(p) /\ WorkInv(p) /\ CloseInv(p)
  BY DEF Control
<1>t. on \in [Proc -> BOOLEAN]
  BY DEF TypeOK
<1>1. /\ state' = state /\ handle' = handle /\ buffer' = buffer /\ chain' = chain
      /\ batch' = batch /\ closer' = closer /\ flushing' = flushing /\ step' = step
      /\ state[p] = "open" /\ on'[p] = TRUE /\ chain[p] = <<>>
  BY <1>t DEF GoLive
<1>2. ChainInv(p)'
  BY <1>0, <1>1 DEF ChainInv
<1>3. WorkInv(p)'
  BY <1>0, <1>1, ChainStarts DEF WorkInv, Begun, Runs
<1>4. CloseInv(p)'
  BY <1>0, <1>1 DEF CloseInv, Begun
<1> QED
  BY <1>2, <1>3, <1>4 DEF Control

\* close() has looked at an empty buffer for the last time.
LEMMA CloseLetsGoControl ==
  ASSUME CleanClose \/ LetsGoEmpty', TypeOK, NEW p \in Proc, Control(p), CloseLetsGo(p)
  PROVE  Control(p)'
<1>0. ChainInv(p) /\ WorkInv(p) /\ CloseInv(p)
  BY DEF Control
<1>t. state \in [Proc -> {"shut", "reading", "open", "closing", "releasing", "stray"}]
  BY DEF TypeOK
<1>1. /\ on' = on /\ handle' = handle /\ buffer' = buffer /\ chain' = chain
      /\ batch' = batch /\ closer' = closer /\ flushing' = flushing /\ step' = step
      /\ state[p] = "closing" /\ state'[p] = "releasing"
      /\ closer[p].at \in {"last", "failed"} /\ closer[p].ahead = 0
  BY <1>t DEF CloseLetsGo, Resumes
<1>5. closer[p].at = "last"
  <2>1. CASE CleanClose
    BY <2>1 DEF CloseLetsGo
  <2>2. CASE LetsGoEmpty'
    BY <1>0, <1>1, <2>2 DEF LetsGoEmpty, LettingGo, CloseInv
  <2> QED
    BY <2>1, <2>2
<1>2. chain[p] = <<>> /\ buffer[p].events = <<>>
  BY <1>0, <1>1, <1>5, ChainHeads DEF CloseInv, ChainInv
<1>3. ChainInv(p)'
  BY <1>0, <1>1 DEF ChainInv
<1>4. WorkInv(p)'
  BY <1>0, <1>1, <1>2, ChainStarts DEF WorkInv, Begun, Runs
<1>6. CloseInv(p)'
  BY <1>0, <1>1, <1>2, <1>5 DEF CloseInv, Begun
<1> QED
  BY <1>3, <1>4, <1>6 DEF Control

\* The handle is gone, or a timer keeps its object.
LEMMA ReleaseControl ==
  ASSUME TypeOK, NEW p \in Proc, Control(p), Release(p)
  PROVE  Control(p)'
<1>0. ChainInv(p) /\ WorkInv(p) /\ CloseInv(p)
  BY DEF Control
<1>t. /\ state \in [Proc -> {"shut", "reading", "open", "closing", "releasing", "stray"}]
      /\ on \in [Proc -> BOOLEAN]
      /\ closer \in [Proc -> [at : {"no", "drain", "failed", "chain", "last"}, ahead : Nat]]
  BY DEF TypeOK
<1>1. CASE buffer[p].timer \/ Busy(p)
  <2>1. /\ state[p] = "releasing" /\ state'[p] = "stray" /\ on'[p] = FALSE
        /\ closer'[p] = NotClosing
        /\ buffer' = buffer /\ chain' = chain /\ batch' = batch /\ flushing' = flushing
        /\ step' = step
    BY <1>t, <1>1 DEF Release
  <2>2. chain[p] = <<>> /\ buffer[p].events = <<>>
    BY <1>0, <2>1 DEF CloseInv
  <2>3. ChainInv(p)'
    BY <1>0, <2>1 DEF ChainInv
  <2>4. WorkInv(p)'
    BY <1>0, <2>1, <2>2, ChainStarts DEF WorkInv, Begun, Runs
  <2>5. CloseInv(p)'
    BY <2>1, <2>2 DEF CloseInv, Begun, NotClosing
  <2> QED
    BY <2>3, <2>4, <2>5 DEF Control
<1>2. CASE ~(buffer[p].timer \/ Busy(p))
  BY <1>2, ForgetsControl DEF Release
<1> QED
  BY <1>1, <1>2

\* What a process may do.
Acts(p) == \/ Create(p) \/ OpenWrite(p) \/ GoLive(p) \/ Publish(p) \/ AppendSeed(p)
           \/ Timer(p) \/ Flush(p) \/ Close(p) \/ Crash(p)
           \/ Proceeds(p)

\* Every step keeps the control of the process that takes it.
LEMMA ActsControl ==
  ASSUME CleanClose \/ LetsGoEmpty', TypeOK, NEW p \in Proc, Control(p), Acts(p)
  PROVE  Control(p)'
<1>1. CASE Create(p) \/ OpenWrite(p) \/ GoLive(p) \/ Publish(p) \/ AppendSeed(p)
  BY <1>1, OpeningControl, GoLiveControl, PublishControl, AppendSeedControl
<1>2. CASE Timer(p) \/ Flush(p) \/ Close(p)
  BY <1>2, TimerControl, FlushControl, CloseControl
<1>3. CASE Crash(p) \/ RefuseOpen(p) \/ StrayEnds(p)
  BY <1>3, ForgetsControl DEF Crash, RefuseOpen, StrayEnds
<1>4. CASE ReadLog(p) \/ BeginDrain(p) \/ BeginAppend(p) \/ BeginFlush(p) \/ TakeLease(p)
  BY <1>4, OpeningControl, BeginDrainControl, BeginCallControl, TakeLeaseControl
<1>5. CASE \/ TruncateTail(p) \/ RewriteTail(p) \/ WriteBatch(p) \/ RefuseWrite(p)
           \/ FileOpFails(p) \/ AppendStays(p) \/ PublishUnsynced(p)
  BY <1>5, FileControl
<1>6. CASE CloseLoops(p) \/ CloseLetsGo(p) \/ Release(p)
  BY <1>6, CloseLoopsControl, CloseLetsGoControl, ReleaseControl
<1> QED
  BY <1>1, <1>2, <1>3, <1>4, <1>5, <1>6 DEF Acts, Proceeds

\* And no step touches what another process remembers.
LEMMA OthersSame ==
  ASSUME TypeOK, NEW p \in Proc, NEW q \in Proc, q # p, Acts(p)
  PROVE  Same(q)
<1>t. /\ state \in [Proc -> {"shut", "reading", "open", "closing", "releasing", "stray"}]
      /\ live \in [Proc -> Seq(Event)] /\ on \in [Proc -> BOOLEAN]
      /\ handle \in [Proc -> Handle] /\ buffer \in [Proc -> Buffer]
      /\ chain \in [Proc -> Seq(Op)] /\ batch \in [Proc -> Seq(Event)]
      /\ step \in [Proc -> {"idle", "lease", "mutate"}]
      /\ closer \in [Proc -> [at : {"no", "drain", "failed", "chain", "last"}, ahead : Nat]]
      /\ flushing \in [Proc -> [at : {"no", "drain", "barrier"}, upTo : Nat]]
  BY DEF TypeOK
<1> USE <1>t DEF Same
<1>l. ASSUME NEW more, Leaves(p, more)
      PROVE  chain'[q] = chain[q] /\ step'[q] = step[q] /\ batch'[q] = batch[q]
  BY <1>l DEF Leaves
<1>d. ASSUME Drains(p)
      PROVE  buffer'[q] = buffer[q] /\ chain'[q] = chain[q]
  BY <1>d DEF Drains
<1>e. ASSUME handle'[q] = handle[q],
             DrainResolves(p) \/ DrainRejects(p) \/ AppendResolves(p)
               \/ AppendRejects(p) \/ FlushEnds(p)
      PROVE  Same(q)
  <2>1. CASE DrainResolves(p)
    BY <1>e, <1>l, <2>1 DEF DrainResolves
  <2>2. CASE DrainRejects(p)
    BY <1>e, <1>l, <2>2 DEF DrainRejects
  <2>3. CASE AppendResolves(p)
    BY <1>e, <1>l, <2>3 DEF AppendResolves
  <2>4. CASE AppendRejects(p)
    BY <1>e, <1>l, <2>4 DEF AppendRejects
  <2>5. CASE FlushEnds(p)
    BY <1>e, <1>l, <2>5 DEF FlushEnds
  <2> QED
    BY <1>e, <2>1, <2>2, <2>3, <2>4, <2>5
<1>f. ASSUME Forgets(p) PROVE Same(q)
  BY <1>f DEF Forgets
<1>1. CASE Create(p)      BY <1>1 DEF Create
<1>2. CASE OpenWrite(p)   BY <1>2 DEF OpenWrite
<1>3. CASE GoLive(p)      BY <1>3 DEF GoLive
<1>4. CASE Publish(p)     BY <1>4 DEF Publish
<1>5. CASE AppendSeed(p)  BY <1>5 DEF AppendSeed
<1>6. CASE Timer(p)       BY <1>6, <1>d DEF Timer
<1>7. CASE Flush(p)       BY <1>7, <1>d DEF Flush
<1>8. CASE Close(p)       BY <1>8, <1>d DEF Close
<1>9. CASE Crash(p)       BY <1>9, <1>f DEF Crash
<1>10. CASE ReadLog(p)    BY <1>10 DEF ReadLog
<1>11. CASE RefuseOpen(p) \/ StrayEnds(p)
  BY <1>11, <1>f DEF RefuseOpen, StrayEnds
<1>12. CASE BeginDrain(p)   BY <1>12 DEF BeginDrain
<1>13. CASE BeginAppend(p)  BY <1>13, <1>e DEF BeginAppend
<1>14. CASE BeginFlush(p)   BY <1>14, <1>e DEF BeginFlush
<1>15. CASE TakeLease(p)    BY <1>15, <1>e DEF TakeLease, Rejects
<1>16. CASE TruncateTail(p) BY <1>16 DEF TruncateTail
<1>17. CASE RewriteTail(p)  BY <1>17 DEF RewriteTail
<1>18. CASE WriteBatch(p)   BY <1>18, <1>e DEF WriteBatch
<1>19. CASE RefuseWrite(p) \/ FileOpFails(p) \/ AppendStays(p) \/ PublishUnsynced(p)
  BY <1>19, <1>e DEF RefuseWrite, FileOpFails, AppendStays, PublishUnsynced, Rejects
<1>20. CASE CloseLoops(p)   BY <1>20, <1>d DEF CloseLoops
<1>21. CASE CloseLetsGo(p)  BY <1>21 DEF CloseLetsGo
<1>22. CASE Release(p)      BY <1>22, <1>f DEF Release
<1> QED
  BY <1>1, <1>2, <1>3, <1>4, <1>5, <1>6, <1>7, <1>8, <1>9, <1>10, <1>11, <1>12, <1>13,
     <1>14, <1>15, <1>16, <1>17, <1>18, <1>19, <1>20, <1>21, <1>22 DEF Acts, Proceeds

-----------------------------------------------------------------------------
(* The watch over the buffer, however handles are let go.                    *)

\* The part of the types that this needs: a buffer has its four places, whatever
\* events it holds.
Buffers(b) == /\ "events" \in DOMAIN b /\ "timer" \in DOMAIN b
              /\ "paused" \in DOMAIN b /\ "draining" \in DOMAIN b

WatchShape == /\ state \in [Proc -> States]
              /\ chain = [q \in Proc |-> chain[q]] /\ buffer = [q \in Proc |-> buffer[q]]
              /\ \A q \in Proc : Buffers(buffer[q])

\* Without a handle nothing is buffered, queued or timed; with one, a buffered
\* event is watched.
Watch(s, c, b) ==
  /\ s \in {"shut", "reading"} => c = <<>> /\ b.events = <<>> /\ ~b.timer
  /\ s = "open" /\ b.events # <<>> => b.timer \/ b.draining \/ b.paused

WatchInv == WatchShape /\ \A q \in Proc : Watch(state[q], chain[q], buffer[q])

\* A step of one process keeps it, if it leaves that process watched.
LEMMA WatchedStep ==
  ASSUME WatchInv, NEW p \in Proc, NEW s \in States, NEW c, NEW b, Buffers(b), Watch(s, c, b),
         state' = [state EXCEPT ![p] = s], chain' = [chain EXCEPT ![p] = c],
         buffer' = [buffer EXCEPT ![p] = b]
  PROVE  WatchInv'
<1>1. /\ state' \in [Proc -> States]
      /\ chain' = [q \in Proc |-> chain'[q]] /\ buffer' = [q \in Proc |-> buffer'[q]]
  BY DEF WatchInv, WatchShape
<1>2. /\ state'[p] = s /\ chain'[p] = c /\ buffer'[p] = b
      /\ \A q \in Proc \ {p} : state'[q] = state[q] /\ chain'[q] = chain[q] /\ buffer'[q] = buffer[q]
  BY DEF WatchInv, WatchShape
<1>3. ASSUME NEW q \in Proc
      PROVE  Buffers(buffer'[q]) /\ Watch(state'[q], chain'[q], buffer'[q])
  <2>1. CASE q = p
    BY <1>2, <2>1
  <2>2. CASE q # p
    BY <1>2, <2>2 DEF WatchInv, WatchShape
  <2> QED
    BY <2>1, <2>2
<1> QED
  BY <1>1, <1>3 DEF WatchInv, WatchShape

\* A drain that is asked for.
LEMMA DrainsWatch ==
  ASSUME WatchInv, NEW p \in Proc, Drains(p), NEW s \in States, s \notin {"shut", "reading"},
         state' = [state EXCEPT ![p] = s], s = state[p] \/ s # "open"
  PROVE  WatchInv'
<1>1. /\ Buffers(buffer[p]) /\ Watch(state[p], chain[p], buffer[p])
      /\ chain = [q \in Proc |-> chain[q]] /\ buffer = [q \in Proc |-> buffer[q]]
  BY DEF WatchInv, WatchShape
<1>2. CASE Busy(p)
  <2>1. buffer' = [buffer EXCEPT ![p] = buffer[p]] /\ chain' = [chain EXCEPT ![p] = chain[p]]
    BY <1>1, <1>2 DEF Drains
  <2>2. Watch(s, chain[p], buffer[p])
    BY <1>2 DEF Watch, Busy
  <2> QED
    BY <1>1, <2>1, <2>2, WatchedStep
<1>3. CASE ~Busy(p)
  <2> DEFINE some == buffer[p].events # <<>>
             b == [buffer[p] EXCEPT !.timer = FALSE, !.paused = FALSE, !.draining = some]
             c == IF some THEN Append(chain[p], "drain") ELSE chain[p]
  <2>1. buffer' = [buffer EXCEPT ![p] = b] /\ chain' = [chain EXCEPT ![p] = c]
    BY <1>1, <1>3 DEF Drains
  <2>2. some \in BOOLEAN /\ (some <=> buffer[p].events # <<>>)
    OBVIOUS
  <2> HIDE DEF some
  <2>3. Buffers(b) /\ b.events = buffer[p].events /\ b.draining = some
    BY <1>1, <2>2 DEF Buffers
  <2> HIDE DEF b, c
  <2>4. Watch(s, c, b)
    BY <2>2, <2>3 DEF Watch
  <2> QED
    BY <2>1, <2>3, <2>4, WatchedStep
<1> QED
  BY <1>2, <1>3

\* The end of an operation: a drain that goes on has a drain under way, and one
\* that failed has said so.
LEMMA EndsWatch ==
  ASSUME WatchInv, NEW p \in Proc, chain[p] # <<>>,
         \/ DrainResolves(p) \/ DrainRejects(p) \/ AppendResolves(p)
         \/ AppendRejects(p) \/ FlushEnds(p)
  PROVE  WatchInv'
<1>1. /\ Buffers(buffer[p]) /\ Watch(state[p], chain[p], buffer[p]) /\ state[p] \in States
      /\ chain = [q \in Proc |-> chain[q]] /\ buffer = [q \in Proc |-> buffer[q]]
      /\ state = [q \in Proc |-> state[q]]
  BY DEF WatchInv, WatchShape
<1>2. state[p] \notin {"shut", "reading"}
  BY <1>1 DEF Watch
<1>3. ASSUME NEW more, Leaves(p, more)
      PROVE  \E c : chain' = [chain EXCEPT ![p] = c]
  BY <1>1, <1>3 DEF Leaves
<1>4. CASE DrainResolves(p)
  <2> DEFINE m == MoreBuffered(p)
             b == [buffer[p] EXCEPT !.draining = m]
  <2>1. /\ buffer' = [buffer EXCEPT ![p] = b] /\ state' = [state EXCEPT ![p] = state[p]]
    BY <1>1, <1>4 DEF DrainResolves
  <2>2. \E c : chain' = [chain EXCEPT ![p] = c]
    BY <1>3, <1>4 DEF DrainResolves
  <2>3. m \in BOOLEAN /\ (m <=> buffer[p].events # <<>>)
    BY DEF MoreBuffered
  <2> HIDE DEF m
  <2>4. Buffers(b) /\ b.events = buffer[p].events /\ b.draining = m
    BY <1>1, <2>3 DEF Buffers
  <2> HIDE DEF b
  <2>5. \A c : Watch(state[p], c, b)
    BY <1>2, <2>3, <2>4 DEF Watch
  <2> QED
    BY <1>1, <2>1, <2>2, <2>4, <2>5, WatchedStep
<1>5. CASE DrainRejects(p)
  <2> DEFINE e == batch[p] \o buffer[p].events
             b == [buffer[p] EXCEPT !.events = e, !.paused = TRUE, !.draining = FALSE]
  <2>1. /\ buffer' = [buffer EXCEPT ![p] = b] /\ state' = [state EXCEPT ![p] = state[p]]
    BY <1>1, <1>5 DEF DrainRejects, Retained
  <2>2. \E c : chain' = [chain EXCEPT ![p] = c]
    BY <1>3, <1>5 DEF DrainRejects
  <2> HIDE DEF e
  <2>4. Buffers(b) /\ b.paused
    BY <1>1 DEF Buffers
  <2> HIDE DEF b
  <2>5. \A c : Watch(state[p], c, b)
    BY <1>2, <2>4 DEF Watch
  <2> QED
    BY <1>1, <2>1, <2>2, <2>4, <2>5, WatchedStep
<1>6. CASE AppendResolves(p) \/ AppendRejects(p) \/ FlushEnds(p)
  <2>1. \E c : chain' = [chain EXCEPT ![p] = c]
    BY <1>3, <1>6 DEF AppendResolves, AppendRejects, FlushEnds
  <2>2. buffer' = [buffer EXCEPT ![p] = buffer[p]]
    BY <1>1, <1>6 DEF AppendResolves, AppendRejects, FlushEnds
  <2>3. \E s \in States : /\ state' = [state EXCEPT ![p] = s]
                          /\ s = state[p] \/ s = "closing"
    BY <1>1, <1>6 DEF AppendResolves, AppendRejects, FlushEnds, States
  <2>4. ASSUME NEW s, s = state[p] \/ s = "closing", NEW c
        PROVE  Watch(s, c, buffer[p])
    BY <1>1, <1>2, <2>4 DEF Watch
  <2> QED
    BY <1>1, <2>1, <2>2, <2>3, <2>4, WatchedStep
<1> QED
  BY <1>4, <1>5, <1>6

\* Every step keeps the watch.
LEMMA ActsWatch ==
  ASSUME WatchInv, NEW p \in Proc, Acts(p)
  PROVE  WatchInv'
<1>1. /\ Buffers(buffer[p]) /\ Watch(state[p], chain[p], buffer[p]) /\ state[p] \in States
      /\ chain = [q \in Proc |-> chain[q]] /\ buffer = [q \in Proc |-> buffer[q]]
      /\ state = [q \in Proc |-> state[q]]
  BY DEF WatchInv, WatchShape
<1>2. ASSUME UNCHANGED <<chain, buffer>>, NEW s \in States, state' = [state EXCEPT ![p] = s],
             Watch(s, chain[p], buffer[p])
      PROVE  WatchInv'
  <2>1. chain' = [chain EXCEPT ![p] = chain[p]] /\ buffer' = [buffer EXCEPT ![p] = buffer[p]]
    BY <1>1, <1>2
  <2> QED
    BY <1>1, <1>2, <2>1, WatchedStep
<1>3. ASSUME UNCHANGED <<chain, buffer, state>> PROVE WatchInv'
  <2>1. state' = [state EXCEPT ![p] = state[p]]
    BY <1>1, <1>3
  <2> QED
    BY <1>1, <1>2, <1>3, <2>1
<1>4. ASSUME Forgets(p) PROVE WatchInv'
  <2>1. /\ state' = [state EXCEPT ![p] = "shut"] /\ chain' = [chain EXCEPT ![p] = <<>>]
        /\ buffer' = [buffer EXCEPT ![p] = NoBuffer]
    BY <1>4 DEF Forgets
  <2>2. Buffers(NoBuffer) /\ Watch("shut", <<>>, NoBuffer) /\ "shut" \in States
    BY <1>1 DEF Watch, States, Buffers, NoBuffer
  <2> QED
    BY <2>1, <2>2, WatchedStep
<1>5. CASE Create(p)
  <2>1. /\ UNCHANGED <<chain, buffer>> /\ state' = [state EXCEPT ![p] = "open"]
        /\ state[p] = "shut"
    BY <1>5 DEF Create
  <2>2. Watch("open", chain[p], buffer[p]) /\ "open" \in States
    BY <1>1, <2>1 DEF Watch, States
  <2> QED
    BY <1>2, <2>1, <2>2
<1>6. CASE OpenWrite(p)
  <2>1. /\ UNCHANGED <<chain, buffer>> /\ state' = [state EXCEPT ![p] = "reading"]
        /\ state[p] = "shut"
    BY <1>6 DEF OpenWrite
  <2>2. Watch("reading", chain[p], buffer[p]) /\ "reading" \in States
    BY <1>1, <2>1 DEF Watch, States
  <2> QED
    BY <1>2, <2>1, <2>2
<1>7. CASE ReadLog(p)
  <2>1. /\ UNCHANGED <<chain, buffer>> /\ state' = [state EXCEPT ![p] = "open"]
        /\ state[p] = "reading"
    BY <1>7 DEF ReadLog
  <2>2. Watch("open", chain[p], buffer[p]) /\ "open" \in States
    BY <1>1, <2>1 DEF Watch, States
  <2> QED
    BY <1>2, <2>1, <2>2
<1>8. CASE CloseLetsGo(p)
  <2>1. /\ UNCHANGED <<chain, buffer>> /\ state' = [state EXCEPT ![p] = "releasing"]
    BY <1>8 DEF CloseLetsGo
  <2>2. Watch("releasing", chain[p], buffer[p]) /\ "releasing" \in States
    BY DEF Watch, States
  <2> QED
    BY <1>2, <2>1, <2>2
<1>9. CASE Release(p)
  <2>1. CASE buffer[p].timer \/ Busy(p)
    <3>1. /\ UNCHANGED <<chain, buffer>> /\ state' = [state EXCEPT ![p] = "stray"]
      BY <1>9, <2>1 DEF Release
    <3>2. Watch("stray", chain[p], buffer[p]) /\ "stray" \in States
      BY DEF Watch, States
    <3> QED
      BY <1>2, <3>1, <3>2
  <2>2. CASE ~(buffer[p].timer \/ Busy(p))
    BY <1>4, <1>9, <2>2 DEF Release
  <2> QED
    BY <2>1, <2>2
<1>10. CASE RefuseOpen(p) \/ StrayEnds(p) \/ Crash(p)
  BY <1>4, <1>10 DEF RefuseOpen, StrayEnds, Crash
<1>11. CASE GoLive(p) \/ TruncateTail(p) \/ RewriteTail(p)
  BY <1>3, <1>11 DEF GoLive, TruncateTail, RewriteTail
<1>12. CASE Publish(p)
  <2> DEFINE e == Append(buffer[p].events, NewEvent(p))
             t == buffer[p].timer \/ ~buffer[p].paused
             b == [buffer[p] EXCEPT !.events = e, !.timer = t]
  <2>1. /\ buffer' = [buffer EXCEPT ![p] = b] /\ state[p] \in {"open", "closing", "releasing"}
        /\ chain' = [chain EXCEPT ![p] = chain[p]] /\ state' = [state EXCEPT ![p] = state[p]]
    BY <1>1, <1>12 DEF Publish
  <2>2. t \in BOOLEAN /\ (t <=> buffer[p].timer \/ ~buffer[p].paused)
    OBVIOUS
  <2> HIDE DEF e, t
  <2>3. Buffers(b) /\ b.timer = t /\ b.paused = buffer[p].paused
    BY <1>1, <2>2 DEF Buffers
  <2> HIDE DEF b
  <2>4. Watch(state[p], chain[p], b)
    BY <2>1, <2>2, <2>3 DEF Watch
  <2> QED
    BY <1>1, <2>1, <2>3, <2>4, WatchedStep
<1>13. CASE AppendSeed(p)
  <2>1. /\ buffer' = [buffer EXCEPT ![p] = buffer[p]] /\ state[p] = "open"
        /\ chain' = [chain EXCEPT ![p] = <<"append">>] /\ state' = [state EXCEPT ![p] = state[p]]
    BY <1>1, <1>13 DEF AppendSeed
  <2>2. Watch(state[p], <<"append">>, buffer[p])
    BY <1>1, <2>1 DEF Watch
  <2> QED
    BY <1>1, <2>1, <2>2, WatchedStep
<1>14. CASE Timer(p)
  <2>1. state[p] \notin {"shut", "reading"} /\ state' = [state EXCEPT ![p] = state[p]]
    BY <1>1, <1>14 DEF Timer, Watch
  <2>2. CASE Busy(p)
    <3> DEFINE b == [buffer[p] EXCEPT !.timer = FALSE]
    <3>1. buffer' = [buffer EXCEPT ![p] = b] /\ chain' = [chain EXCEPT ![p] = chain[p]]
      BY <1>1, <1>14, <2>2 DEF Timer
    <3>2. Buffers(b) /\ b.draining = buffer[p].draining
      BY <1>1 DEF Buffers
    <3> HIDE DEF b
    <3>3. Watch(state[p], chain[p], b)
      BY <2>1, <2>2, <3>2 DEF Watch, Busy
    <3> QED
      BY <1>1, <2>1, <3>1, <3>2, <3>3, WatchedStep
  <2>3. CASE ~Busy(p)
    BY <1>1, <1>14, <2>1, <2>3, DrainsWatch DEF Timer
  <2> QED
    BY <2>2, <2>3
<1>15. CASE Flush(p)
  <2>1. state[p] = "open" /\ state' = [state EXCEPT ![p] = state[p]]
    BY <1>1, <1>15 DEF Flush
  <2>2. CASE buffer[p].events = <<>> /\ ~Busy(p)
    <3> DEFINE b == [buffer[p] EXCEPT !.timer = FALSE, !.paused = FALSE]
               c == Append(chain[p], "flush")
    <3>1. buffer' = [buffer EXCEPT ![p] = b] /\ chain' = [chain EXCEPT ![p] = c]
      BY <1>1, <1>15, <2>2 DEF Flush
    <3>2. Buffers(b) /\ b.events = buffer[p].events
      BY <1>1 DEF Buffers
    <3> HIDE DEF b, c
    <3>3. Watch(state[p], c, b)
      BY <2>1, <2>2, <3>2 DEF Watch
    <3> QED
      BY <1>1, <2>1, <3>1, <3>2, <3>3, WatchedStep
  <2>3. CASE ~(buffer[p].events = <<>> /\ ~Busy(p))
    BY <1>1, <1>15, <2>1, <2>3, DrainsWatch DEF Flush
  <2> QED
    BY <2>2, <2>3
<1>16. CASE Close(p)
  <2>1. Drains(p) /\ state' = [state EXCEPT ![p] = "closing"] /\ "closing" \in States
    BY <1>16 DEF Close, States
  <2> QED
    BY <2>1, DrainsWatch
<1>17. CASE CloseLoops(p)
  <2>1. state[p] = "closing" /\ state' = [state EXCEPT ![p] = state[p]] /\ state' = state
    BY <1>1, <1>17 DEF CloseLoops, Resumes
  <2>2. Drains(p) \/ UNCHANGED <<buffer, chain>>
    BY <1>17 DEF CloseLoops
  <2> QED
    BY <1>1, <1>3, <2>1, <2>2, DrainsWatch
<1>18. CASE BeginDrain(p)
  <2> DEFINE b == [buffer[p] EXCEPT !.events = <<>>]
  <2>1. /\ buffer' = [buffer EXCEPT ![p] = b] /\ chain' = [chain EXCEPT ![p] = chain[p]]
        /\ state' = [state EXCEPT ![p] = state[p]] /\ chain[p] # <<>>
    BY <1>1, <1>18 DEF BeginDrain, Runs
  <2>2. Buffers(b) /\ b.events = <<>>
    BY <1>1 DEF Buffers
  <2> HIDE DEF b
  <2>3. Watch(state[p], chain[p], b)
    BY <1>1, <2>1, <2>2 DEF Watch
  <2> QED
    BY <1>1, <2>1, <2>2, <2>3, WatchedStep
<1>19. ASSUME Rejects(p) PROVE WatchInv'
  BY <1>19, EndsWatch DEF Rejects, Runs
<1>20. CASE BeginAppend(p)
  BY <1>3, <1>20, EndsWatch DEF BeginAppend, Runs
<1>21. CASE BeginFlush(p)
  BY <1>3, <1>21, EndsWatch DEF BeginFlush, Runs
<1>22. CASE TakeLease(p)
  BY <1>3, <1>19, <1>22 DEF TakeLease
<1>23. CASE WriteBatch(p)
  BY <1>23, EndsWatch DEF WriteBatch, Runs
<1>24. CASE RefuseWrite(p) \/ FileOpFails(p) \/ AppendStays(p) \/ PublishUnsynced(p)
  BY <1>19, <1>24 DEF RefuseWrite, FileOpFails, AppendStays, PublishUnsynced
<1> QED
  BY <1>5, <1>6, <1>7, <1>8, <1>9, <1>10, <1>11, <1>12, <1>13, <1>14, <1>15, <1>16, <1>17,
     <1>18, <1>20, <1>21, <1>22, <1>23, <1>24 DEF Acts, Proceeds

\* A buffered event is never left with nobody to write it, however handles are
\* let go.
THEOREM WatchedCorrect == Spec => []BufferIsWatched
<1>1. Init => WatchInv
  <2> SUFFICES ASSUME Init PROVE WatchInv
    OBVIOUS
  <2>1. /\ state = [q \in Proc |-> "shut"] /\ chain = [q \in Proc |-> <<>>]
        /\ buffer = [q \in Proc |-> NoBuffer]
    BY DEF Init
  <2>2. Buffers(NoBuffer) /\ Watch("shut", <<>>, NoBuffer) /\ "shut" \in States
    BY DEF Buffers, NoBuffer, Watch, States
  <2> QED
    BY <2>1, <2>2 DEF WatchInv, WatchShape
<1>2. WatchInv /\ [Next]_vars => WatchInv'
  <2> SUFFICES ASSUME WatchInv, [Next]_vars PROVE WatchInv'
    OBVIOUS
  <2>1. CASE UNCHANGED vars
    BY <2>1 DEF vars, memory, WatchInv, WatchShape
  <2>2. CASE Next
    <3>1. PICK p \in Proc : Acts(p)
      BY <2>2 DEF Next, Acts
    <3> QED
      BY <3>1, ActsWatch
  <2> QED
    BY <2>1, <2>2
<1>3. WatchInv => BufferIsWatched
  BY DEF WatchInv, BufferIsWatched, Watch
<1> QED
  BY <1>1, <1>2, <1>3, PTL DEF Spec

-----------------------------------------------------------------------------
(* The file: what becomes of its records when a frame comes or goes.         *)

\* Numbering of a sequence put together, and of a beginning of one.
LEMMA NumberedConcat ==
  ASSUME NEW s \in Seq(Event), NEW t \in Seq(Event), NEW k \in Nat
  PROVE  Numbered(s \o t, k) <=> Numbered(s, k) /\ Numbered(t, k + Len(s))
<1> DEFINE u == s \o t
<1>1. /\ Len(s) \in Nat /\ Len(t) \in Nat /\ Len(u) = Len(s) + Len(t)
      /\ \A i \in 1 .. Len(s) : u[i] = s[i]
      /\ \A i \in 1 .. Len(t) : u[Len(s) + i] = t[i]
  <2>1. /\ Len(s) \in Nat /\ Len(t) \in Nat /\ Len(u) = Len(s) + Len(t)
        /\ \A i \in 1 .. Len(s) + Len(t) :
             u[i] = IF i <= Len(s) THEN s[i] ELSE t[i - Len(s)]
    BY ConcatProperties, LenProperties
  <2> HIDE DEF u
  <2>2. ASSUME NEW i \in 1 .. Len(t) PROVE u[Len(s) + i] = t[i]
    <3>1. Len(s) + i \in 1 .. Len(s) + Len(t) /\ ~(Len(s) + i <= Len(s)) /\ Len(s) + i - Len(s) = i
      BY <2>1
    <3> QED
      BY <2>1, <3>1
  <2> QED
    BY <2>1, <2>2
<1> HIDE DEF u
<1>2. ASSUME Numbered(u, k) PROVE Numbered(s, k) /\ Numbered(t, k + Len(s))
  <2>1. \A i \in 1 .. Len(s) : s[i].seq = k + i
    BY <1>1, <1>2 DEF Numbered
  <2>2. ASSUME NEW i \in 1 .. Len(t) PROVE t[i].seq = k + Len(s) + i
    <3>1. Len(s) + i \in 1 .. Len(u) /\ k + (Len(s) + i) = k + Len(s) + i
      BY <1>1
    <3> QED
      BY <1>1, <1>2, <3>1 DEF Numbered
  <2> QED
    BY <2>1, <2>2 DEF Numbered
<1>3. ASSUME Numbered(s, k), Numbered(t, k + Len(s)) PROVE Numbered(u, k)
  <2>1. ASSUME NEW i \in 1 .. Len(u) PROVE u[i].seq = k + i
    <3>1. CASE i <= Len(s)
      BY <1>1, <1>3, <3>1 DEF Numbered
    <3>2. CASE ~(i <= Len(s))
      <4> DEFINE j == i - Len(s)
      <4>1. j \in 1 .. Len(t) /\ Len(s) + j = i /\ k + Len(s) + j = k + i
        BY <1>1, <3>2
      <4> HIDE DEF j
      <4>2. t[j].seq = k + Len(s) + j
        BY <1>3, <4>1 DEF Numbered
      <4>3. u[Len(s) + j] = t[j]
        BY <1>1, <4>1
      <4> QED
        BY <4>1, <4>2, <4>3
    <3> QED
      BY <3>1, <3>2
  <2> QED
    BY <2>1 DEF Numbered
<1> QED
  BY <1>2, <1>3 DEF u

\* A first part of a numbered sequence is numbered in the same way.
LEMMA NumberedPart ==
  ASSUME NEW s \in Seq(Event), NEW n \in 0 .. Len(s), NEW k, Numbered(s, k)
  PROVE  /\ SubSeq(s, 1, n) \in Seq(Event) /\ Len(SubSeq(s, 1, n)) = n
         /\ Numbered(SubSeq(s, 1, n), k)
<1> DEFINE u == SubSeq(s, 1, n)
<1>1. Len(s) \in Nat /\ \A i \in 1 .. n : s[i] \in Event
  BY LenProperties, ElementOfSeq
<1>2. /\ u \in Seq(Event) /\ Len(u) = IF 1 <= n THEN n - 1 + 1 ELSE 0
      /\ \A i \in 1 .. n - 1 + 1 : u[i] = s[1 + i - 1]
  BY <1>1, SubSeqProperties
<1> HIDE DEF u
<1>3. Len(u) = n /\ n - 1 + 1 = n
  BY <1>1, <1>2
<1>4. \A i \in 1 .. n : u[i] = s[i]
  BY <1>2, <1>3
<1>5. Numbered(u, k)
  BY <1>1, <1>3, <1>4 DEF Numbered
<1> QED
  BY <1>2, <1>3, <1>5 DEF u

\* A file none of whose frames is torn.
AllWhole(fs) == \A i \in 1 .. Len(fs) : fs[i].whole

\* A frame at the end of such a file: the records behind those there were.
LEMMA FrameAdded ==
  ASSUME NEW fs \in Seq(Frame), AllWhole(fs), NEW fr \in Frame,
         NEW gs, gs = Append(fs, fr)
  PROVE  /\ gs \in Seq(Frame) /\ Decode(gs) = Decode(fs) \o fr.events
         /\ Len(gs) = Len(fs) + 1 /\ Len(fs) \in Nat /\ gs[Len(gs)] = fr
         /\ \A i \in 1 .. Len(gs) - 1 : gs[i].whole
         /\ SubSeq(gs, 1, Len(gs) - 1) = fs
         /\ gs # <<>>
<1>3. /\ gs \in Seq(Frame) /\ Len(gs) = Len(fs) + 1 /\ Len(fs) \in Nat
      /\ \A i \in 1 .. Len(fs) : gs[i] = fs[i]
      /\ gs[Len(fs) + 1] = fr /\ gs # <<>>
  BY AppendProperties, LenProperties
<1>4. Decode(gs) = Decode(fs) \o fr.events
  BY DecodeFacts
<1>5. Len(gs) - 1 = Len(fs) /\ gs[Len(gs)] = fr
  BY <1>3
<1>6. \A i \in 1 .. Len(gs) - 1 : gs[i].whole
  BY <1>3, <1>5 DEF AllWhole
<1>7. SubSeq(gs, 1, Len(gs) - 1) = fs
  <2>1. /\ SubSeq(gs, 1, Len(gs) - 1) \in Seq(Frame)
        /\ Len(SubSeq(gs, 1, Len(gs) - 1)) = Len(gs) - 1
        /\ \A i \in 1 .. Len(gs) - 1 : SubSeq(gs, 1, Len(gs) - 1)[i] = gs[i]
    BY <1>3, DecodeLast
  <2> DEFINE h == SubSeq(gs, 1, Len(gs) - 1)
  <2> HIDE DEF h
  <2>2. h \in Seq(Frame) /\ Len(h) = Len(fs) /\ \A i \in 1 .. Len(h) : h[i] = fs[i]
    BY <1>3, <1>5, <2>1 DEF h
  <2>3. h = fs
    BY <2>2, SeqEqual
  <2> QED
    BY <2>3 DEF h
<1> QED
  BY <1>3, <1>4, <1>5, <1>6, <1>7

\* A file whose last frame is cut off.
LEMMA FrameCut ==
  ASSUME NEW fs \in Seq(Frame), fs # <<>>,
         \A i \in 1 .. Len(fs) - 1 : fs[i].whole,
         NEW gs, gs = SubSeq(fs, 1, Len(fs) - 1)
  PROVE  /\ gs \in Seq(Frame) /\ AllWhole(gs) /\ Decode(gs) \in Seq(Event)
         /\ fs[Len(fs)].events \in Seq(Event)
         /\ Decode(fs) = Decode(gs) \o fs[Len(fs)].events
<1>1. /\ Len(fs) \in Nat \ {0} /\ fs[Len(fs)] \in Frame
      /\ gs \in Seq(Frame) /\ Len(gs) = Len(fs) - 1
      /\ \A i \in 1 .. Len(fs) - 1 : gs[i] = fs[i]
      /\ Decode(fs) = Decode(gs) \o fs[Len(fs)].events
  BY DecodeLast
<1>2. AllWhole(gs)
  BY <1>1 DEF AllWhole
<1>3. Decode(gs) \in Seq(Event)
  BY <1>1, DecodeFacts
<1> QED
  BY <1>1, <1>2, <1>3 DEF Frame

\* The types of what is read from the frames, whatever they are.
LEMMA TornTypes ==
  ASSUME NEW fs \in Seq(Frame), frames \in Seq(Frame)
  PROVE  /\ Decode(fs) \in Seq(Event) /\ Front(fs) \in Seq(Frame)
         /\ Len(frames) \in Nat /\ TornAt \in 0 .. Len(frames)
         /\ Records \in Seq(Event) /\ Len(Records) \in Nat
         /\ TornAt # 0 => frames # <<>> /\ frames[TornAt] \in Frame
<1>1. Len(frames) \in Nat /\ \A i \in 1 .. Len(frames) : frames[i] \in Frame
  BY LenProperties, ElementOfSeq
<1>2. TornAt = IF Len(frames) > 0 /\ ~frames[Len(frames)].whole THEN Len(frames) ELSE 0
  BY DEF TornAt
<1>3. Decode(fs) \in Seq(Event) /\ Records \in Seq(Event) /\ Len(Records) \in Nat
  <2>1. [events |-> <<>>, whole |-> TRUE] \in Frame
    BY EmptySeq DEF Frame
  <2>2. Decode(fs) \in Seq(Event) /\ Records \in Seq(Event)
    BY <2>1, DecodeFacts DEF Records
  <2> QED
    BY <2>2, LenProperties
<1>4. Front(fs) \in Seq(Frame)
  <2>1. CASE fs = <<>>
    BY <2>1, EmptySeq DEF Front
  <2>2. CASE fs # <<>>
    BY <2>2, DecodeLast DEF Front
  <2> QED
    BY <2>1, <2>2
<1>5. TornAt # 0 => frames # <<>> /\ frames[TornAt] \in Frame
  BY <1>1, <1>2, EmptySeq
<1> QED
  BY <1>1, <1>2, <1>3, <1>4, <1>5

\* The torn point is past the end of the whole frames, or there is none.
LEMMA TornFacts ==
  ASSUME frames \in Seq(Frame), FileInv
  PROVE  /\ TornAt \in Nat /\ Records \in Seq(Event) /\ Sound \in Seq(Frame)
         /\ Len(Records) \in Nat /\ Decode(Sound) \in Seq(Event)
         /\ TornAt = 0 => AllWhole(frames) /\ Sound = frames
         /\ TornAt # 0 => /\ TornAt = Len(frames) /\ frames # <<>>
                          /\ Sound = SubSeq(frames, 1, Len(frames) - 1)
                          /\ frames[TornAt] \in Frame
<1>1. Len(frames) \in Nat /\ \A i \in 1 .. Len(frames) : frames[i] \in Frame
  BY LenProperties, ElementOfSeq
<1>2. TornAt = IF Len(frames) > 0 /\ ~frames[Len(frames)].whole THEN Len(frames) ELSE 0
  BY DEF TornAt
<1>3. Records \in Seq(Event) /\ Len(Records) \in Nat
  <2>1. ASSUME NEW fr \in Frame PROVE Records \in Seq(Event)
    BY DecodeFacts DEF Records
  <2>2. [events |-> <<>>, whole |-> TRUE] \in Frame
    BY EmptySeq DEF Frame
  <2>3. Records \in Seq(Event)
    BY <2>1, <2>2
  <2> QED
    BY <2>3, LenProperties
<1>4. ASSUME TornAt = 0 PROVE AllWhole(frames) /\ Sound = frames
  <2>1. ASSUME NEW i \in 1 .. Len(frames) PROVE frames[i].whole
    <3>1. CASE i = Len(frames)
      BY <1>1, <1>2, <1>4, <3>1
    <3>2. CASE i # Len(frames)
      <4>1. i \in 1 .. Len(frames) - 1
        BY <1>1, <3>2
      <4> QED
        BY <4>1 DEF FileInv
    <3> QED
      BY <3>1, <3>2
  <2> QED
    BY <1>4, <2>1 DEF AllWhole, Sound
<1>5. ASSUME TornAt # 0
      PROVE  /\ TornAt = Len(frames) /\ frames # <<>>
             /\ Sound = SubSeq(frames, 1, Len(frames) - 1)
             /\ frames[TornAt] \in Frame
  <2>1. TornAt = Len(frames) /\ Len(frames) > 0
    BY <1>2, <1>5
  <2>2. frames # <<>> /\ TornAt \in 1 .. Len(frames)
    BY <1>1, <2>1, EmptySeq
  <2> QED
    BY <1>1, <1>5, <2>1, <2>2 DEF Sound
<1>6. TornAt \in Nat
  BY <1>1, <1>2
<1>7. Sound \in Seq(Frame)
  <2>1. CASE TornAt = 0
    BY <1>4, <2>1
  <2>2. CASE TornAt # 0
    BY <1>5, <2>2, DecodeLast
  <2> QED
    BY <2>1, <2>2
<1>8. Decode(Sound) \in Seq(Event)
  <2>1. ASSUME NEW fr \in Frame PROVE Decode(Sound) \in Seq(Event)
    BY <1>7, DecodeFacts
  <2>2. [events |-> <<>>, whole |-> TRUE] \in Frame
    BY EmptySeq DEF Frame
  <2> QED
    BY <2>1, <2>2
<1> QED
  BY <1>3, <1>4, <1>5, <1>6, <1>7, <1>8

\* A step that leaves the frames alone, or publishes a file without any.
LEMMA FileStays ==
  ASSUME TypeOK, FileInv, frames' = frames, exists => exists', made <= made',
         made' \in Nat,
         \/ stored' = stored
         \/ TornAt = 0 /\ stored' = Len(Records)
  PROVE  FileInv' /\ Records' = Records /\ TornAt' = TornAt /\ Sound' = Sound
<1>1. Records' = Records /\ TornAt' = TornAt /\ Sound' = Sound
  BY DEF Records, TornAt, Sound
<1>2. /\ frames \in Seq(Frame) /\ exists \in BOOLEAN /\ made \in Nat /\ stored \in Nat
  BY SessionAssumption DEF TypeOK, SessionAssumption
<1>3. Len(Records) \in Nat /\ (TornAt = 0 => Sound = frames)
  BY <1>2, TornFacts
<1>4. stored' <= Len(Decode(Sound))
  BY <1>2, <1>3 DEF FileInv, Records
<1>5. Len(Records) <= made'
  BY <1>2, <1>3 DEF FileInv
<1>6. Decode(Sound)' = Decode(Sound)
  BY <1>1 DEF Sound, TornAt
<1> QED
  BY <1>1, <1>2, <1>4, <1>5, <1>6 DEF FileInv, Numbered

\* A step that adds a frame to a file without a torn one.
LEMMA FileGrows ==
  ASSUME TypeOK, FileInv, TornAt = 0, exists', NEW fr \in Frame,
         frames' = Append(frames, fr),
         Numbered(fr.events, Len(Records)), Len(Records) + Len(fr.events) <= made', made' \in Nat,
         \/ stored' = stored
         \/ fr.whole /\ stored' = Len(Records')
  PROVE  /\ FileInv' /\ Records' = Records \o fr.events
         /\ TornAt' = IF fr.whole THEN 0 ELSE Len(frames')
<1>1. /\ frames \in Seq(Frame) /\ AllWhole(frames) /\ Sound = frames
      /\ Records \in Seq(Event) /\ Len(Records) \in Nat /\ stored \in Nat
      /\ fr.events \in Seq(Event) /\ Len(fr.events) \in Nat
  BY TornFacts, LenProperties DEF TypeOK, Frame
<1> DEFINE gs == frames'
<1>2. /\ gs \in Seq(Frame) /\ Decode(gs) = Decode(frames) \o fr.events
      /\ Len(gs) = Len(frames) + 1 /\ Len(frames) \in Nat /\ gs[Len(gs)] = fr
      /\ \A i \in 1 .. Len(gs) - 1 : gs[i].whole
      /\ SubSeq(gs, 1, Len(gs) - 1) = frames
  <2>1. gs = Append(frames, fr)
    OBVIOUS
  <2> HIDE DEF gs
  <2> QED
    <3>1. ASSUME NEW h, h = Append(frames, fr)
          PROVE  /\ h \in Seq(Frame) /\ Decode(h) = Decode(frames) \o fr.events
                 /\ Len(h) = Len(frames) + 1 /\ Len(frames) \in Nat /\ h[Len(h)] = fr
                 /\ \A i \in 1 .. Len(h) - 1 : h[i].whole
                 /\ SubSeq(h, 1, Len(h) - 1) = frames
      BY <1>1, <3>1, FrameAdded
    <3> QED
      BY <2>1, <3>1
<1>3. Records' = Records \o fr.events
  BY <1>2 DEF Records
<1>4. TornAt' = IF fr.whole THEN 0 ELSE Len(gs)
  BY <1>2 DEF TornAt
<1>5. Len(Records') = Len(Records) + Len(fr.events) /\ Records' \in Seq(Event)
  BY <1>1, <1>3, ConcatProperties
<1>6. Numbered(Records', 0)
  <2>1. Numbered(Records, 0) /\ 0 + Len(Records) = Len(Records)
    BY <1>1 DEF FileInv
  <2>2. Numbered(Records \o fr.events, 0) <=> Numbered(Records, 0) /\ Numbered(fr.events, 0 + Len(Records))
    BY <1>1, NumberedConcat
  <2> QED
    BY <1>3, <2>1, <2>2
<1>7. stored' <= Len(Decode(Sound'))
  <2>1. CASE fr.whole
    <3>1. Sound' = gs /\ Decode(Sound') = Records'
      BY <1>4, <2>1 DEF Sound, Records
    <3>2. stored <= Len(Records)
      BY <1>1 DEF FileInv, Records
    <3> QED
      BY <1>1, <1>5, <3>1, <3>2
  <2>2. CASE ~fr.whole
    <3>1. Sound' = frames
      <4>1. TornAt' # 0
        BY <1>2, <1>4, <2>2
      <4>2. Sound' = SubSeq(frames', 1, Len(frames') - 1)
        BY <4>1 DEF Sound
      <4> QED
        BY <1>2, <4>2
    <3> QED
      BY <1>1, <2>2, <3>1 DEF FileInv
  <2> QED
    BY <2>1, <2>2
<1>8. Len(Records') <= made'
  BY <1>1, <1>5
<1>9. Decode(Sound)' = Decode(Sound')
  BY DEF Decode
<1>10. /\ \A i \in 1 .. Len(frames') - 1 : frames'[i].whole
       /\ Numbered(Records, 0)'
  BY <1>2, <1>6 DEF Numbered
<1> QED
  BY <1>3, <1>4, <1>7, <1>8, <1>9, <1>10 DEF FileInv

\* A step that cuts off the torn frame.
LEMMA FileShrinks ==
  ASSUME TypeOK, FileInv, TornAt # 0, exists' = exists, made' = made, stored' = stored,
         frames' = SubSeq(frames, 1, TornAt - 1)
  PROVE  /\ FileInv' /\ Records = Records' \o frames[TornAt].events
         /\ TornAt' = 0 /\ Records' \in Seq(Event) /\ frames[TornAt].events \in Seq(Event)
         /\ Records' = Decode(Sound)
<1>1. /\ frames \in Seq(Frame) /\ TornAt = Len(frames) /\ frames # <<>>
      /\ Records \in Seq(Event) /\ Len(Records) \in Nat
      /\ Sound = SubSeq(frames, 1, Len(frames) - 1)
      /\ exists \in BOOLEAN /\ made \in Nat
  BY TornFacts, SessionAssumption DEF TypeOK, SessionAssumption
<1> DEFINE gs == frames'
<1>2. /\ gs \in Seq(Frame) /\ AllWhole(gs) /\ Decode(gs) \in Seq(Event)
      /\ frames[Len(frames)].events \in Seq(Event)
      /\ Decode(frames) = Decode(gs) \o frames[Len(frames)].events
  <2>1. gs = SubSeq(frames, 1, Len(frames) - 1)
    BY <1>1
  <2>2. \A i \in 1 .. Len(frames) - 1 : frames[i].whole
    BY DEF FileInv
  <2> HIDE DEF gs
  <2> QED
    BY <1>1, <2>1, <2>2, FrameCut
<1>3. Records' = Decode(gs) /\ Records = Decode(frames)
  BY DEF Records
<1>4. Len(gs) \in Nat
  BY <1>2, LenProperties
<1>5. TornAt' = 0
  <2>1. Len(gs) > 0 => gs[Len(gs)].whole
    BY <1>2, <1>4 DEF AllWhole
  <2> QED
    BY <2>1 DEF TornAt
<1>6. Sound' = gs /\ gs = Sound
  BY <1>1, <1>5 DEF Sound
<1>7. Numbered(Records', 0) /\ Len(Records') <= Len(Records)
  <2> DEFINE r == Decode(gs)
             e == frames[Len(frames)].events
  <2>1. r \in Seq(Event) /\ e \in Seq(Event) /\ Records = r \o e /\ Records' = r
    BY <1>2, <1>3
  <2>2. Numbered(Records, 0)
    BY DEF FileInv
  <2> HIDE DEF r, e
  <2>3. Numbered(r \o e, 0) <=> Numbered(r, 0) /\ Numbered(e, 0 + Len(r))
    BY <2>1, NumberedConcat
  <2>4. Len(r \o e) = Len(r) + Len(e) /\ Len(r) \in Nat /\ Len(e) \in Nat
    BY <2>1, ConcatProperties, LenProperties
  <2> QED
    BY <2>1, <2>2, <2>3, <2>4
<1>8. /\ ~exists' => frames' = <<>>
  BY <1>1 DEF FileInv
<1>9. \A i \in 1 .. Len(frames') - 1 : frames'[i].whole
  BY <1>2, <1>4 DEF AllWhole
<1>10. Len(Records') <= made'
  <2>1. Len(Records') \in Nat
    BY <1>2, <1>3, LenProperties
  <2> QED
    BY <1>1, <1>7, <2>1 DEF FileInv
<1>11. stored' <= Len(Decode(Sound)')
  <2>1. Decode(Sound)' = Decode(gs)
    BY <1>6 DEF Decode
  <2> QED
    BY <1>6, <2>1 DEF FileInv
<1> QED
  BY <1>1, <1>2, <1>3, <1>5, <1>6, <1>7, <1>8, <1>9, <1>10, <1>11 DEF FileInv, Numbered

-----------------------------------------------------------------------------
(* The data of the processes.                                                *)

\* Lengths are numbers, and so is their sum.
LEMMA LengthsAdd ==
  ASSUME NEW S, NEW a \in Seq(S), NEW b \in Seq(S)
  PROVE  Len(a) \in Nat /\ Len(b) \in Nat /\ Len(a) + Len(b) \in Nat
  OBVIOUS

\* What the invariant is made of are sequences of events.
LEMMA DataTypes ==
  ASSUME TypeOK, NEW p \in Proc
  PROVE  /\ Records \in Seq(Event) /\ Owed(p) \in Seq(Event) /\ Base(p) \in Seq(Event)
         /\ Waiting(p) \in Seq(Event) /\ live[p] \in Seq(Event) /\ batch[p] \in Seq(Event)
         /\ buffer[p].events \in Seq(Event) /\ handle[p].recovered \in Seq(Event)
         /\ handle[p].cursor \in Nat /\ handle[p].torn \in Nat
         /\ Len(live[p]) \in Nat /\ Len(batch[p]) \in Nat /\ Len(Base(p)) \in Nat
         /\ Len(Waiting(p)) \in Nat /\ flushing[p].upTo \in Nat
         /\ made \in Nat /\ stored \in Nat /\ promised \in Seq(Event)
<1>1. /\ live[p] \in Seq(Event) /\ batch[p] \in Seq(Event) /\ frames \in Seq(Frame)
      /\ buffer[p].events \in Seq(Event) /\ handle[p].recovered \in Seq(Event)
      /\ handle[p].cursor \in Nat /\ handle[p].torn \in Nat /\ flushing[p].upTo \in Nat
      /\ made \in Nat /\ stored \in Nat /\ promised \in Seq(Event)
  <2>1. /\ live[p] \in Seq(Event) /\ batch[p] \in Seq(Event) /\ frames \in Seq(Frame)
        /\ buffer[p] \in Buffer /\ handle[p] \in Handle
        /\ flushing[p].upTo \in Nat /\ stored \in Nat /\ promised \in Seq(Event)
    BY DEF TypeOK
  <2>2. made \in Nat
    BY SessionAssumption DEF TypeOK, SessionAssumption
  <2> QED
    BY <2>1, <2>2 DEF Buffer, Handle
<1>2. Records \in Seq(Event) /\ Decode(Told(p)) \in Seq(Event)
  <2>1. Told(p) \in Seq(Frame)
    BY <1>1, TornTypes DEF Told
  <2> QED
    BY <1>1, <2>1, TornTypes
<1>3. <<>> \in Seq(Event)
  BY EmptySeq
<1>4. Owed(p) \in Seq(Event)
  BY <1>1, <1>3 DEF Owed
<1>5. Base(p) \in Seq(Event)
  BY <1>2, <1>3, <1>4, ConcatProperties DEF Base
<1>6. Waiting(p) \in Seq(Event)
  BY <1>1, <1>3, ConcatProperties DEF Waiting
<1> QED
  BY <1>1, <1>2, <1>4, <1>5, <1>6, LenProperties

\* A handle that stays what it was, while the file it has written stays, has the
\* same picture of it.
LEMMA HandleStays ==
  ASSUME NEW p \in Proc, HandleInv(p),
         handle[p].materialized => frames' = frames /\ exists' = exists,
         handle'[p].materialized = handle[p].materialized,
         handle'[p].torn = handle[p].torn, handle'[p].recovered = handle[p].recovered,
         handle'[p].left = handle[p].left,
         handle'[p].lease \in {handle[p].lease, "held"}
  PROVE  HandleInv(p)' /\ Base(p)' = Base(p) /\ Owed(p)' = Owed(p)
<1>1. CASE handle[p].materialized
  <2>1. frames' = frames /\ exists' = exists /\ TornAt' = TornAt
    BY <1>1 DEF TornAt
  <2>2. Told(p)' = Told(p) /\ Owed(p)' = Owed(p)
    BY <2>1 DEF Told, Owed
  <2>3. Decode(Told(p))' = Decode(Told(p))
    BY <2>2 DEF Decode
  <2>4. Base(p)' = Base(p)
    BY <1>1, <2>2, <2>3 DEF Base
  <2>5. HandleInv(p)'
    BY <1>1, <2>1 DEF HandleInv, Pictured
  <2> QED
    BY <2>2, <2>4, <2>5
<1>2. CASE ~handle[p].materialized
  <2>1. handle[p].recovered = <<>> /\ Base(p) = <<>> /\ Base(p)' = <<>>
    BY <1>2 DEF HandleInv, Base
  <2>2. Owed(p) = <<>> /\ Owed(p)' = <<>>
    BY <2>1 DEF Owed
  <2> QED
    BY <1>2, <2>1, <2>2 DEF HandleInv
<1> QED
  BY <1>1, <1>2

\* A process that a step leaves alone keeps its data, if the file its handle has
\* written stays as it is.
LEMMA SameData ==
  ASSUME TypeOK, FileInv, NEW q \in Proc, Same(q), DataInv(q),
         made <= made', made' \in Nat, exists' \in BOOLEAN, exists => exists',
         Attached(q) /\ handle[q].materialized => frames' = frames
  PROVE  DataInv(q)'
<1>1. /\ live[q] \in Seq(Event) /\ batch[q] \in Seq(Event)
      /\ Len(live[q]) \in Nat /\ Len(batch[q]) \in Nat /\ made \in Nat
  BY DataTypes
<1>2. /\ state'[q] = state[q] /\ live'[q] = live[q] /\ handle'[q] = handle[q]
      /\ Waiting(q)' = Waiting(q) /\ flushing'[q] = flushing[q] /\ Runs(q, "append")' = Runs(q, "append")
      /\ batch'[q] = batch[q]
  BY DEF Same, Waiting, Runs
<1>3. CASE ~Attached(q)
  BY <1>2, <1>3 DEF DataInv, Attached
<1>4. CASE Attached(q)
  <2>0. HandleInv(q) /\ TrackInv(q) /\ PromiseInv(q)
    BY <1>4 DEF DataInv
  <2>1. HandleInv(q)' /\ Base(q)' = Base(q) /\ Owed(q)' = Owed(q)
    <3>1. handle[q].materialized => frames' = frames /\ exists' = exists
      <4>1. handle[q].materialized => exists
        BY <2>0 DEF HandleInv
      <4>2. exists \in BOOLEAN
        BY DEF TypeOK
      <4> QED
        BY <1>4, <4>1, <4>2
    <3> QED
      BY <1>2, <2>0, <3>1, HandleStays
  <2>2. TrackInv(q)'
    <3>1. /\ Len(live[q]) <= made'
          /\ Runs(q, "append") => Len(live[q]) + Len(batch[q]) <= made'
      <4>1. /\ Len(live[q]) <= made
            /\ Runs(q, "append") => Len(live[q]) + Len(batch[q]) <= made
        BY <2>0 DEF TrackInv
      <4>2. ASSUME NEW a \in Nat, a <= made PROVE a <= made'
        BY <1>1, <4>2
      <4>3. Len(live[q]) + Len(batch[q]) \in Nat
        BY <1>1, LengthsAdd
      <4>4. Len(live[q]) <= made'
        BY <1>1, <4>1, <4>2
      <4> QED
        BY <4>1, <4>2, <4>3, <4>4
    <3>2. Numbered(Base(q), 0)' <=> Numbered(Base(q), 0)
      BY <2>1 DEF Numbered
    <3> QED
      BY <1>2, <2>0, <2>1, <3>1, <3>2 DEF TrackInv
  <2>3. PromiseInv(q)'
    BY <1>2, <2>0, <2>1 DEF PromiseInv
  <2> QED
    BY <1>2, <2>0, <2>1, <2>2, <2>3 DEF DataInv, Attached
<1> QED
  BY <1>3, <1>4

\* A running operation belongs to an attached handle, and one that mutates the
\* file to the owner of the lock.
LEMMA RunningAttached ==
  ASSUME TypeOK, LockInv, NEW p \in Proc, Control(p), chain[p] # <<>>
  PROVE  /\ state[p] \in {"open", "closing"} /\ Attached(p)
         /\ step[p] = "mutate" => owner = p /\ handle[p].lease = "held"
<1>1. state[p] \in {"open", "closing"}
  BY DEF Control, ChainInv, CloseInv, Blank, TypeOK
<1>2. step[p] = "mutate" => owner = p /\ handle[p].lease = "held"
  BY <1>1 DEF LockInv, Shape, LeaseIsLock, ReleasedIsStray, MutatesWithLease
<1> QED
  BY <1>1, <1>2 DEF Attached

\* So the handles of the others have nothing in the file when it is mutated.
LEMMA OthersUnwritten ==
  ASSUME LockInv, NEW p \in Proc, NEW q \in Proc, q # p, owner = p,
         DataInv(q), Attached(q)
  PROVE  ~handle[q].materialized
  BY DEF LockInv, Shape, LeaseIsLock, DataInv, HandleInv, Attached

\* The members of the invariant of an attached process.
LEMMA AttachedData ==
  ASSUME NEW p \in Proc, DataInv(p), Attached(p)
  PROVE  HandleInv(p) /\ TrackInv(p) /\ PromiseInv(p)
  BY DEF DataInv

\* What a handle writes without a file it knows of has no length.
LEMMA NothingWritten ==
  ASSUME NEW p \in Proc, ~handle[p].materialized
  PROVE  Base(p) = <<>>
  BY DEF Base

\* A step after which a handle counts what it counted, and what waits waits still.
LEMMA KeptData ==
  ASSUME TypeOK, NEW p \in Proc, DataInv(p), Attached(p), Attached(p)',
         HandleInv(p)', Base(p)' = Base(p),
         \/ Owed(p)' = Owed(p)
         \/ state'[p] # "open"
         \/ Waiting(p) # <<>> /\ flushing'[p].at # "barrier"
         \/ Runs(p, "append")',
         handle'[p].cursor = handle[p].cursor,
         live'[p] = live[p], Waiting(p)' = Waiting(p), made' = made,
         Runs(p, "append")' => Runs(p, "append") /\ batch'[p] = batch[p],
         state'[p] = "open" => state[p] = "open" /\ (Runs(p, "append") => Runs(p, "append")'),
         \/ flushing'[p] = flushing[p] \/ flushing'[p] = NoFlush
         \/ flushing'[p].at = "drain" /\ flushing'[p].upTo <= Len(live[p])
         \/ flushing'[p].at = "barrier" /\ flushing'[p].upTo <= handle[p].cursor
            /\ (Owed(p) = <<>> \/ Runs(p, "append")')
  PROVE  DataInv(p)'
<1>0. HandleInv(p) /\ TrackInv(p) /\ PromiseInv(p)
  BY AttachedData
<1>1. TrackInv(p)'
  <2>1. Numbered(Base(p), 0)' <=> Numbered(Base(p), 0)
    BY DEF Numbered
  <2>2. /\ Len(live[p]) <= made
        /\ Runs(p, "append") => Len(live[p]) + Len(batch[p]) <= made
    BY <1>0 DEF TrackInv
  <2> QED
    BY <1>0, <2>1, <2>2 DEF TrackInv
<1>2. PromiseInv(p)'
  <2>1. Owed(p)' # <<>> /\ state'[p] = "open" => Runs(p, "append")' \/ Waiting(p)' # <<>>
    BY <1>0 DEF PromiseInv
  <2>2. flushing'[p].at = "drain" => flushing'[p].upTo <= Len(live'[p])
    BY <1>0 DEF PromiseInv, NoFlush
  <2>3. flushing'[p].at = "barrier" /\ state'[p] = "open" =>
          flushing'[p].upTo <= handle'[p].cursor /\ (Owed(p)' = <<>> \/ Runs(p, "append")')
    BY <1>0 DEF PromiseInv, NoFlush
  <2> QED
    BY <2>1, <2>2, <2>3 DEF PromiseInv
<1> QED
  BY <1>1, <1>2 DEF DataInv, Attached

\* And so it does when nothing about the handle and its file has changed.
LEMMA QuietData ==
  ASSUME TypeOK, FileInv, NEW p \in Proc, DataInv(p), Attached(p), Attached(p)',
         handle[p].materialized => frames' = frames /\ exists' = exists,
         handle'[p].materialized = handle[p].materialized,
         handle'[p].cursor = handle[p].cursor, handle'[p].torn = handle[p].torn,
         handle'[p].recovered = handle[p].recovered, handle'[p].left = handle[p].left,
         handle'[p].lease \in {handle[p].lease, "held"},
         live'[p] = live[p], Waiting(p)' = Waiting(p), made' = made,
         Runs(p, "append")' => Runs(p, "append") /\ batch'[p] = batch[p],
         state'[p] = "open" => state[p] = "open" /\ (Runs(p, "append") => Runs(p, "append")'),
         \/ flushing'[p] = flushing[p] \/ flushing'[p] = NoFlush
         \/ flushing'[p].at = "drain" /\ flushing'[p].upTo <= Len(live[p])
         \/ flushing'[p].at = "barrier" /\ flushing'[p].upTo <= handle[p].cursor
            /\ (Owed(p) = <<>> \/ Runs(p, "append")')
  PROVE  DataInv(p)'
<1>1. HandleInv(p)' /\ Base(p)' = Base(p) /\ Owed(p)' = Owed(p)
  BY AttachedData, HandleStays
<1> QED
  BY <1>1, KeptData

\* An operation that is rejected gives back what it took, whatever it has left in
\* the file, as long as what the handle counts is the same.
LEMMA RejectsKeeps ==
  ASSUME TypeOK, LockInv, NEW p \in Proc, Control(p), DataInv(p),
         \/ Rejects(p) /\ step[p] # "idle"
         \/ Runs(p, "append") /\ AppendRejects(p)
         \/ Runs(p, "flush") /\ FlushEnds(p),
         HandleInv(p)', Base(p)' = Base(p), Owed(p)' = Owed(p) \/ ~Runs(p, "flush"),
         handle'[p].cursor = handle[p].cursor, made' = made
  PROVE  DataInv(p)'
<1>0. ChainInv(p) /\ WorkInv(p) /\ CloseInv(p)
  BY DEF Control
<1>t. /\ state \in [Proc -> {"shut", "reading", "open", "closing", "releasing", "stray"}]
      /\ buffer \in [Proc -> Buffer] /\ live \in [Proc -> Seq(Event)]
      /\ batch \in [Proc -> Seq(Event)]
      /\ flushing \in [Proc -> [at : {"no", "drain", "barrier"}, upTo : Nat]]
  BY DEF TypeOK
<1>1. chain[p] \in Chains /\ chain[p] # <<>>
  BY <1>0 DEF ChainInv, Rejects, Runs
<1>2. state[p] \in {"open", "closing"} /\ Attached(p)
  BY <1>1, RunningAttached
<1>3. /\ batch[p] \in Seq(Event) /\ buffer[p].events \in Seq(Event)
      /\ <<>> \o buffer[p].events = buffer[p].events
      /\ <<>> \o (batch[p] \o buffer[p].events) = batch[p] \o buffer[p].events
  BY DataTypes, ConcatEmptySeq, ConcatProperties
<1>4. CASE Runs(p, "drain") /\ DrainRejects(p) /\ step[p] # "idle"
  <2>1. /\ Leaves(p, <<>>) /\ state' = state /\ live' = live
        /\ buffer' = [buffer EXCEPT ![p] = Retained(p)]
        /\ flushing' = [flushing EXCEPT ![p] = IF @.at = "drain" THEN NoFlush ELSE @]
    BY <1>4 DEF DrainRejects
  <2>2. Head(chain[p]) = "drain" /\ Tail(chain[p]) = <<>>
    BY <1>1, <1>4, ChainTails DEF Runs
  <2>3. chain'[p] = <<>>
    <3>1. chain'[p] = Tail(chain[p]) \o <<>>
      BY <2>1, LeavesDoes
    <3> QED
      BY <1>1, <2>2, <3>1, ChainTails
  <2>4. buffer'[p].events = batch[p] \o buffer[p].events
    <3>1. buffer'[p] = Retained(p)
      BY <1>t, <2>1
    <3> QED
      BY <1>t, <3>1 DEF Retained, Buffer
  <2>5. Waiting(p)' = Waiting(p)
    BY <1>3, <1>4, <2>3, <2>4 DEF Waiting, Runs
  <2>6. ~Runs(p, "append")' /\ ~Runs(p, "append")
    BY <2>2, <2>3 DEF Runs
  <2>7. flushing'[p] = flushing[p] \/ flushing'[p] = NoFlush
    BY <1>t, <2>1
  <2>8. Attached(p)'
    BY <1>2, <2>1 DEF Attached
  <2>9. chain[p] = <<"drain">>
    BY <1>1, <1>4, ChainHeads DEF Runs
  <2>10. batch[p] # <<>> /\ flushing[p].at # "barrier"
    BY <1>0, <1>4, <2>9, ChainStarts DEF WorkInv, ChainInv, Begun
  <2>11. Waiting(p) # <<>>
    <3>1. Waiting(p) = batch[p] \o buffer[p].events
      BY <1>4 DEF Waiting
    <3> QED
      BY <1>3, <2>10, <3>1, ConcatEqualIffEmpty
  <2>12. flushing'[p].at # "barrier"
    BY <2>7, <2>10 DEF NoFlush
  <2> QED
    BY <1>2, <2>1, <2>5, <2>6, <2>7, <2>8, <2>11, <2>12, KeptData
<1>5. CASE Runs(p, "append") /\ AppendRejects(p)
  <2>1. /\ Leaves(p, <<>>) /\ live' = live /\ buffer' = buffer /\ flushing' = flushing
        /\ state' = [state EXCEPT ![p] = IF @ = "open" THEN "closing" ELSE @]
    BY <1>5 DEF AppendRejects
  <2>2. Head(chain[p]) = "append"
    BY <1>5 DEF Runs
  <2>3. chain'[p] = Tail(chain[p]) /\ batch'[p] = <<>>
    BY <1>1, <2>1, LeavesDoes, ChainTails
  <2>4. /\ chain'[p] \in Chains /\ chain'[p] \notin Appending /\ chain'[p] \notin Draining
    BY <1>1, <2>2, <2>3, ChainTails
  <2>5. ~Runs(p, "append")' /\ ~Runs(p, "drain")' /\ ~Runs(p, "drain")
    BY <2>2, <2>4, ChainHeads DEF Runs
  <2>6. Waiting(p)' = Waiting(p)
    BY <2>1, <2>5 DEF Waiting
  <2>7. state'[p] = "closing"
    BY <1>t, <1>2, <2>1
  <2>8. Attached(p)'
    BY <2>7 DEF Attached
  <2> QED
    BY <1>2, <2>1, <2>5, <2>6, <2>7, <2>8, KeptData
<1>6. CASE Runs(p, "flush") /\ FlushEnds(p)
  <2>1. /\ Leaves(p, <<>>) /\ live' = live /\ buffer' = buffer /\ state' = state
        /\ flushing' = [flushing EXCEPT ![p] = NoFlush]
    BY <1>6 DEF FlushEnds
  <2>2. Head(chain[p]) = "flush"
    BY <1>6 DEF Runs
  <2>3. chain'[p] = Tail(chain[p]) /\ batch'[p] = <<>>
    BY <1>1, <2>1, LeavesDoes, ChainTails
  <2>4. chain'[p] \in Chains /\ chain'[p] \notin Appending
    BY <1>1, <2>3, ChainTails
  <2>5. ~Runs(p, "append")' /\ ~Runs(p, "append") /\ ~Runs(p, "drain")
    BY <2>2, <2>4, ChainHeads DEF Runs
  <2>6. Waiting(p)' = Waiting(p)
    BY <1>3, <2>1, <2>3, <2>5 DEF Waiting
  <2>7. flushing'[p] = NoFlush
    BY <1>t, <2>1
  <2>8. Attached(p)'
    BY <1>2, <2>1 DEF Attached
  <2> QED
    BY <1>2, <1>6, <2>1, <2>5, <2>6, <2>7, <2>8, KeptData
<1> QED
  BY <1>4, <1>5, <1>6 DEF Rejects

\* So does one that has not touched the file.
LEMMA RejectsData ==
  ASSUME TypeOK, LockInv, NEW p \in Proc, Control(p), DataInv(p),
         \/ Rejects(p) /\ step[p] # "idle"
         \/ Runs(p, "append") /\ AppendRejects(p)
         \/ Runs(p, "flush") /\ FlushEnds(p),
         handle'[p] = handle[p], made' = made,
         handle[p].materialized => frames' = frames /\ exists' = exists
  PROVE  DataInv(p)'
<1>1. chain[p] # <<>>
  BY DEF Control, ChainInv, Rejects, Runs
<1>2. HandleInv(p)
  BY <1>1, RunningAttached, AttachedData
<1>3. HandleInv(p)' /\ Base(p)' = Base(p) /\ Owed(p)' = Owed(p)
  BY <1>2, HandleStays
<1> QED
  BY <1>3, RejectsKeeps

\* Asking for a drain moves no event.
LEMMA DrainsWaiting ==
  ASSUME TypeOK, NEW p \in Proc, Control(p), Drains(p),
         batch'[p] = batch[p]
  PROVE  /\ Waiting(p)' = Waiting(p)
         /\ Runs(p, "append")' <=> Runs(p, "append")
<1>0. ChainInv(p) /\ WorkInv(p)
  BY DEF Control
<1>1. /\ buffer'[p].events = buffer[p].events
      /\ chain'[p] = chain[p]
         \/ (/\ chain[p] = <<>> => chain'[p] = <<"drain">>
             /\ chain[p] # <<>> => Head(chain'[p]) = Head(chain[p])
             /\ chain'[p] # <<>>)
  BY <1>0, DrainsDoes
<1>2. CASE chain'[p] = chain[p] \/ chain[p] # <<>>
  <2>1. /\ Runs(p, "drain")' <=> Runs(p, "drain")
        /\ Runs(p, "append")' <=> Runs(p, "append")
    BY <1>1, <1>2 DEF Runs
  <2> QED
    BY <1>1, <2>1 DEF Waiting
<1>3. CASE chain'[p] # chain[p] /\ chain[p] = <<>>
  <2>1. chain'[p] = <<"drain">>
    BY <1>1, <1>3
  <2>2. batch[p] = <<>>
    BY <1>0, <1>3, ChainStarts DEF WorkInv, Begun
  <2>3. ~Runs(p, "append")' /\ ~Runs(p, "append") /\ ~Runs(p, "drain")
    BY <1>3, <2>1, ChainStarts DEF Runs
  <2> QED
    BY <1>1, <2>2, <2>3 DEF Waiting
<1> QED
  BY <1>2, <1>3

\* What a drain, a timer or a close asks for.
LEMMA AsksData ==
  ASSUME TypeOK, FileInv, NEW p \in Proc, Control(p), DataInv(p),
         Timer(p) \/ Close(p) \/ CloseLoops(p)
  PROVE  DataInv(p)'
<1>t. /\ buffer \in [Proc -> Buffer]
      /\ state \in [Proc -> {"shut", "reading", "open", "closing", "releasing", "stray"}]
  BY DEF TypeOK
<1>1. /\ live' = live /\ handle' = handle /\ batch' = batch /\ flushing' = flushing
      /\ made' = made /\ frames' = frames /\ exists' = exists
      /\ state'[p] \in {state[p], "closing"}
      /\ Close(p) \/ CloseLoops(p) => Attached(p)
      /\ Attached(p) => Attached(p)'
      /\ ~Attached(p) => state' = state
  BY <1>t DEF Timer, Close, CloseLoops, Resumes, Attached, counters, file
<1>2. /\ Waiting(p)' = Waiting(p)
      /\ Runs(p, "append")' <=> Runs(p, "append")
  <2>1. CASE Drains(p)
    BY <1>1, <2>1, DrainsWaiting
  <2>2. CASE ~Drains(p)
    <3>1. /\ chain'[p] = chain[p] /\ buffer'[p].events = buffer[p].events
      <4>1. CASE Timer(p)
        BY <1>t, <2>2, <4>1 DEF Timer, Buffer
      <4>2. CASE Close(p)
        BY <2>2, <4>2 DEF Close
      <4>3. CASE CloseLoops(p)
        BY <2>2, <4>3 DEF CloseLoops
      <4> QED
        BY <4>1, <4>2, <4>3
    <3> QED
      BY <1>1, <3>1 DEF Waiting, Runs
  <2> QED
    BY <2>1, <2>2
<1>3. CASE Attached(p)
  BY <1>1, <1>2, <1>3, QuietData
<1>4. CASE ~Attached(p)
  BY <1>1, <1>4 DEF DataInv, Attached
<1> QED
  BY <1>3, <1>4

\* A flush promises what is there, and finds it counted when nothing waits.
LEMMA FlushData ==
  ASSUME TypeOK, FileInv, NEW p \in Proc, Control(p), DataInv(p), Flush(p)
  PROVE  DataInv(p)'
<1>t. /\ buffer \in [Proc -> Buffer] /\ chain \in [Proc -> Seq(Op)]
      /\ flushing \in [Proc -> [at : {"no", "drain", "barrier"}, upTo : Nat]]
  BY DEF TypeOK
<1>0. ChainInv(p) /\ WorkInv(p)
  BY DEF Control
<1>1. /\ live' = live /\ handle' = handle /\ batch' = batch /\ state' = state
      /\ made' = made /\ frames' = frames /\ exists' = exists
      /\ state[p] = "open" /\ flushing[p] = NoFlush
      /\ Attached(p) /\ Attached(p)'
  BY DEF Flush, Attached, counters, file
<1>2. HandleInv(p) /\ TrackInv(p) /\ PromiseInv(p)
  BY <1>1, AttachedData
<1>3. CASE buffer[p].events = <<>> /\ ~Busy(p)
  <2>1. /\ chain'[p] = Append(chain[p], "flush") /\ buffer'[p].events = buffer[p].events
        /\ flushing'[p] = [at |-> "barrier", upTo |-> Len(live[p])]
    BY <1>t, <1>3 DEF Flush, Buffer
  <2>2. chain[p] \in Chains /\ chain[p] \notin Draining /\ chain[p] \notin Flushing
    BY <1>0, <1>1, <1>3 DEF ChainInv, Busy, NoFlush
  <2>3. /\ chain'[p] \notin Draining /\ chain'[p] # <<>> /\ chain'[p] \in Chains
        /\ chain[p] # <<>> => Head(chain'[p]) = Head(chain[p])
        /\ chain[p] = <<>> => chain'[p] = <<"flush">>
    BY <2>1, <2>2, ChainGrows
  <2>4. /\ ~Runs(p, "drain") /\ ~Runs(p, "drain")'
        /\ Runs(p, "append")' <=> Runs(p, "append")
    <3>1. ~Runs(p, "drain")
      BY <2>2, ChainHeads DEF Runs, Draining
    <3>2. CASE chain[p] = <<>>
      BY <2>3, <3>2, ChainStarts DEF Runs
    <3>3. CASE chain[p] # <<>>
      BY <2>3, <3>1, <3>3 DEF Runs
    <3> QED
      BY <3>1, <3>2, <3>3
  <2>5. Waiting(p)' = Waiting(p) /\ Waiting(p) = <<>>
    BY <1>3, <2>1, <2>4, ChainStarts, Tuples DEF Waiting
  <2>6. Len(live[p]) <= handle[p].cursor
    <3>1. live[p] = Base(p) \o <<>> /\ handle[p].cursor = Len(Base(p))
      BY <1>2, <2>5 DEF TrackInv
    <3>2. Base(p) \in Seq(Event) /\ Len(Base(p)) \in Nat
      BY DataTypes
    <3>3. Base(p) \o <<>> = Base(p)
      BY <3>2, ConcatEmptySeq
    <3> QED
      BY <3>1, <3>2, <3>3
  <2>7. Owed(p) = <<>> \/ Runs(p, "append")'
    BY <1>1, <1>2, <2>4, <2>5 DEF PromiseInv
  <2> QED
    BY <1>1, <2>1, <2>4, <2>5, <2>6, <2>7, QuietData
<1>4. CASE ~(buffer[p].events = <<>> /\ ~Busy(p))
  <2>1. Drains(p) /\ flushing'[p] = [at |-> "drain", upTo |-> Len(live[p])]
    BY <1>t, <1>4 DEF Flush
  <2>2. /\ Waiting(p)' = Waiting(p)
        /\ Runs(p, "append")' <=> Runs(p, "append")
    BY <1>1, <2>1, DrainsWaiting
  <2>3. Len(live[p]) <= Len(live[p])
    <3>1. live[p] \in Seq(Event) /\ Len(live[p]) \in Nat
      BY DataTypes
    <3> QED
      BY <3>1
  <2> QED
    BY <1>1, <2>1, <2>2, <2>3, QuietData
<1> QED
  BY <1>3, <1>4

\* An operation begins; what the drain captures still waits.
LEMMA BeginsData ==
  ASSUME TypeOK, FileInv, LockInv, NEW p \in Proc, Control(p), DataInv(p),
         BeginDrain(p) \/ BeginAppend(p) \/ BeginFlush(p) \/ TakeLease(p)
  PROVE  DataInv(p)'
<1>t. buffer \in [Proc -> Buffer] /\ handle \in [Proc -> Handle] /\ batch \in [Proc -> Seq(Event)]
  BY DEF TypeOK
<1>0. ChainInv(p) /\ WorkInv(p)
  BY DEF Control
<1>1. /\ chain[p] # <<>> /\ chain[p] \in Chains
      /\ made' = made /\ frames' = frames /\ exists' = exists
  <2>1. chain[p] # <<>>
    BY <1>0 DEF BeginDrain, BeginAppend, BeginFlush, TakeLease, Runs, ChainInv
  <2> QED
    BY <1>0, <2>1 DEF BeginDrain, BeginAppend, BeginFlush, TakeLease, ChainInv, counters, file
<1>2. state[p] \in {"open", "closing"} /\ Attached(p)
  BY <1>1, RunningAttached
<1>3. CASE BeginDrain(p)
  <2>1. /\ live' = live /\ handle' = handle /\ chain' = chain /\ state' = state
        /\ flushing' = flushing /\ Runs(p, "drain") /\ step[p] = "idle"
        /\ batch'[p] = buffer[p].events /\ buffer'[p].events = <<>>
    BY <1>t, <1>3 DEF BeginDrain, Buffer
  <2>2. ~Runs(p, "append") /\ ~Runs(p, "append")' /\ Runs(p, "drain")' /\ Attached(p)'
    BY <1>2, <2>1 DEF Runs, Attached
  <2>3. batch[p] = <<>>
    BY <1>0, <1>1, <2>1, ChainHeads DEF WorkInv, Begun, Runs
  <2>4. Waiting(p)' = Waiting(p)
    <3>1. /\ buffer[p].events \in Seq(Event)
      BY DataTypes
    <3>2. buffer[p].events \o <<>> = buffer[p].events /\ <<>> \o buffer[p].events = buffer[p].events
      BY <3>1, ConcatEmptySeq
    <3> QED
      BY <2>1, <2>2, <2>3, <3>2 DEF Waiting
  <2> QED
    BY <1>1, <1>2, <2>1, <2>2, <2>4, QuietData
<1>4. ASSUME state' = state, live' = live, on' = on, buffer' = buffer, chain' = chain,
             batch' = batch, closer' = closer, flushing' = flushing,
             handle' = handle \/ handle' = [handle EXCEPT ![p].lease = "held"]
      PROVE  DataInv(p)'
  <2>1. Waiting(p)' = Waiting(p) /\ Runs(p, "append")' = Runs(p, "append") /\ Attached(p)'
    BY <1>2, <1>4 DEF Waiting, Runs, Attached
  <2>2. /\ handle'[p].materialized = handle[p].materialized
        /\ handle'[p].cursor = handle[p].cursor /\ handle'[p].torn = handle[p].torn
        /\ handle'[p].recovered = handle[p].recovered
        /\ handle'[p].left = handle[p].left
        /\ handle'[p].lease \in {handle[p].lease, "held"}
    BY <1>t, <1>4 DEF Handle
  <2> QED
    BY <1>1, <1>2, <1>4, <2>1, <2>2, QuietData
<1>5. CASE BeginAppend(p)
  <2>1. CASE state[p] = "open"
    BY <1>4, <1>5, <2>1 DEF BeginAppend
  <2>2. CASE state[p] # "open"
    BY <1>1, <1>5, <2>2, RejectsData DEF BeginAppend
  <2> QED
    BY <2>1, <2>2
<1>6. CASE BeginFlush(p)
  <2>1. CASE state[p] = "open" /\ ~handle[p].materialized
    BY <1>4, <1>6, <2>1 DEF BeginFlush
  <2>2. CASE ~(state[p] = "open" /\ ~handle[p].materialized)
    BY <1>1, <1>6, <2>2, RejectsData DEF BeginFlush
  <2> QED
    BY <2>1, <2>2
<1>7. CASE TakeLease(p)
  <2>1. CASE owner = NoProc
    BY <1>4, <1>7, <2>1 DEF TakeLease
  <2>2. CASE owner # NoProc
    BY <1>1, <1>7, <2>2, RejectsData DEF TakeLease
  <2> QED
    BY <2>1, <2>2
<1> QED
  BY <1>3, <1>5, <1>6, <1>7

\* The session is announced; close() is about to let the handle go.
LEMMA MarksData ==
  ASSUME TypeOK, FileInv, NEW p \in Proc, DataInv(p), GoLive(p) \/ CloseLetsGo(p)
  PROVE  DataInv(p)'
<1>t. state \in [Proc -> {"shut", "reading", "open", "closing", "releasing", "stray"}]
  BY DEF TypeOK
<1>1. /\ live' = live /\ handle' = handle /\ batch' = batch /\ flushing' = flushing
      /\ made' = made /\ frames' = frames /\ exists' = exists /\ chain' = chain
      /\ buffer' = buffer
      /\ state'[p] \in {state[p], "releasing"} /\ Attached(p) /\ Attached(p)'
  BY <1>t DEF GoLive, CloseLetsGo, Resumes, Attached, counters, file
<1>2. Waiting(p)' = Waiting(p) /\ Runs(p, "append")' = Runs(p, "append")
  BY <1>1 DEF Waiting, Runs
<1> QED
  BY <1>1, <1>2, QuietData

\* A handle comes into being: empty, or with what was read.
LEMMA OpeningData ==
  ASSUME TypeOK, FileInv, NEW p \in Proc, Control(p), DataInv(p),
         Create(p) \/ OpenWrite(p) \/ ReadLog(p)
  PROVE  DataInv(p)'
<1>t. /\ state \in [Proc -> {"shut", "reading", "open", "closing", "releasing", "stray"}]
      /\ handle \in [Proc -> Handle] /\ live \in [Proc -> Seq(Event)]
  BY DEF TypeOK
<1>1. Blank(p)
  BY DEF Create, OpenWrite, ReadLog, Control, ChainInv
<1>2. /\ live[p] = <<>> /\ handle[p] = NoHandle /\ buffer[p].events = <<>> /\ chain[p] = <<>>
      /\ flushing[p].at = "no" /\ batch[p] = <<>>
  BY <1>1 DEF Blank, NoBuffer, NoFlush
<1>3. /\ frames' = frames /\ exists' = exists /\ made' = made /\ buffer' = buffer
      /\ chain' = chain /\ batch' = batch /\ flushing' = flushing
  BY DEF Create, OpenWrite, ReadLog, file, counters
<1>4. Waiting(p)' = <<>> /\ ~Runs(p, "append")'
  BY <1>2, <1>3, Tuples DEF Waiting, Runs
<1>5. CASE Create(p)
  <2>1. live' = live /\ handle' = handle /\ state'[p] = "open"
    BY <1>t, <1>5 DEF Create
  <2>2. /\ handle'[p].materialized = FALSE /\ handle'[p].cursor = 0 /\ handle'[p].torn = 0
        /\ handle'[p].recovered = <<>> /\ handle'[p].left = FALSE /\ live'[p] = <<>>
    BY <1>2, <2>1 DEF NoHandle
  <2>3. Base(p)' = <<>> /\ Owed(p)' = <<>>
    BY <2>2 DEF Base, Owed
  <2>4. HandleInv(p)'
    BY <2>2 DEF HandleInv
  <2>5. TrackInv(p)'
    <3>1. Len(<<>>) = 0 /\ <<>> \o <<>> = <<>> /\ made \in Nat
      BY Tuples, DataTypes
    <3>2. Numbered(Base(p), 0)'
      BY <2>3, <3>1 DEF Numbered
    <3> QED
      BY <1>3, <1>4, <2>2, <2>3, <3>1, <3>2 DEF TrackInv
  <2>6. PromiseInv(p)'
    BY <1>2, <1>3, <2>3 DEF PromiseInv
  <2> QED
    BY <2>1, <2>4, <2>5, <2>6 DEF DataInv
<1>6. CASE OpenWrite(p)
  BY <1>t, <1>3, <1>6 DEF OpenWrite, DataInv, Attached
<1>7. CASE ReadLog(p)
  <2>0. exists
    BY <1>7 DEF ReadLog, DataInv
  <2>1. /\ handle'[p].materialized = TRUE /\ handle'[p].cursor = Len(Records)
        /\ handle'[p].torn = TornAt /\ handle'[p].lease = "held"
        /\ handle'[p].recovered = IF TornAt = 0 THEN <<>> ELSE frames[TornAt].events
        /\ handle'[p].left = FALSE /\ live'[p] = Records /\ state'[p] = "open"
    BY <1>t, <1>7 DEF ReadLog
  <2>2. Records' = Records /\ TornAt' = TornAt
    BY <1>3 DEF Records, TornAt
  <2>3. Owed(p)' = <<>>
    <3>1. frames \in Seq(Frame)
      BY DEF TypeOK
    <3>2. Len(frames) \in Nat /\ TornAt \in 0 .. Len(frames)
      BY <3>1, TornTypes
    <3>3. TornAt # 0 => TornAt \in DOMAIN frames
      BY <3>1, <3>2, LenProperties
    <3> QED
      BY <1>3, <2>1, <3>3 DEF Owed
  <2>4. Records \in Seq(Event) /\ Records \o <<>> = Records /\ Len(Records) \in Nat
    <3>1. Records \in Seq(Event)
      BY DataTypes
    <3> QED
      BY <3>1, ConcatEmptySeq, LenProperties
  <2>5. Base(p)' = Records
    <3>1. Decode(Told(p))' = Records'
      BY <2>1 DEF Told, Records
    <3> QED
      BY <2>1, <2>2, <2>3, <2>4, <3>1 DEF Base
  <2>6. HandleInv(p)'
    BY <1>3, <2>0, <2>1, <2>2 DEF HandleInv, Pictured
  <2>7. TrackInv(p)'
    <3>1. Numbered(Base(p), 0)' /\ Len(Records) <= made
      BY <2>5 DEF Numbered, FileInv
    <3> QED
      BY <1>3, <1>4, <2>1, <2>4, <2>5, <3>1 DEF TrackInv
  <2>8. PromiseInv(p)'
    BY <1>2, <1>3, <2>3 DEF PromiseInv
  <2> QED
    BY <2>1, <2>6, <2>7, <2>8 DEF DataInv
<1> QED
  BY <1>5, <1>6, <1>7

\* An event that is published or appended has a number, for the bounds allow it.
LEMMA NewEventType ==
  ASSUME TypeOK, NEW p \in Proc, made < MaxEvents
  PROVE  NewEvent(p) \in Event /\ made + 1 \in 0 .. MaxEvents
<1>1. Len(live[p]) \in Nat /\ made \in Nat /\ MaxEvents \in Nat
  BY DataTypes, SessionAssumption DEF SessionAssumption
<1> DEFINE n == Len(live[p])
<1>2. n + 1 \in Nat /\ made + 1 \in 1 .. MaxEvents /\ made + 1 \in 0 .. MaxEvents
  <2>1. n \in Nat
    BY <1>1
  <2> HIDE DEF n
  <2> QED
    BY <1>1, <2>1
<1> HIDE DEF n
<1>3. [seq |-> n + 1, id |-> made + 1] \in Event
  BY <1>2 DEF Event
<1> QED
  BY <1>2, <1>3 DEF NewEvent, n

\* An event joins what waits, and the session.
LEMMA PublishData ==
  ASSUME TypeOK, FileInv, NEW p \in Proc, Control(p), DataInv(p), Publish(p)
  PROVE  DataInv(p)'
<1>t. live \in [Proc -> Seq(Event)] /\ buffer \in [Proc -> Buffer]
  BY DEF TypeOK
<1> DEFINE e == NewEvent(p)
<1>1. /\ state' = state /\ handle' = handle /\ batch' = batch /\ flushing' = flushing
      /\ chain' = chain /\ frames' = frames /\ exists' = exists
      /\ made' = made + 1 /\ made < MaxEvents
      /\ Attached(p) /\ Attached(p)' /\ on[p]
      /\ live'[p] = Append(live[p], e)
  BY <1>t DEF Publish, Attached, file
<1>2. buffer'[p].events = Append(buffer[p].events, e)
  <2>1. buffer' = [buffer EXCEPT ![p].events = Append(@, e),
                                 ![p].timer = @ \/ ~buffer[p].paused]
    BY DEF Publish
  <2> HIDE DEF e
  <2> QED
    BY <1>t, <2>1 DEF Buffer
<1>3. e \in Event
  BY <1>1, NewEventType
<1> HIDE DEF e
<1>4. HandleInv(p) /\ TrackInv(p) /\ PromiseInv(p)
  BY <1>1, AttachedData
<1>5. /\ live[p] \in Seq(Event) /\ buffer[p].events \in Seq(Event) /\ batch[p] \in Seq(Event)
      /\ Base(p) \in Seq(Event) /\ Waiting(p) \in Seq(Event) /\ <<>> \in Seq(Event)
      /\ made \in Nat /\ flushing[p].upTo \in Nat
  BY DataTypes, EmptySeq
<1>6. ASSUME NEW s \in Seq(Event), NEW t \in Seq(Event)
      PROVE  s \o Append(t, e) = Append(s \o t, e)
  <2>1. Append(t, e) = t \o <<e>> /\ Append(s \o t, e) = (s \o t) \o <<e>> /\ <<e>> \in Seq(Event)
    BY <1>3, AppendIsConcat, ConcatProperties
  <2> QED
    BY <2>1, ConcatAssociative
<1>7. Waiting(p)' = Append(Waiting(p), e) /\ Waiting(p)' # <<>>
  <2>1. Runs(p, "drain")' <=> Runs(p, "drain")
    BY <1>1 DEF Runs
  <2>2. Waiting(p)' = Append(Waiting(p), e)
    <3>1. CASE Runs(p, "drain")
      <4>1. Waiting(p) = batch[p] \o buffer[p].events
        BY <3>1 DEF Waiting
      <4>2. Waiting(p)' = batch[p] \o Append(buffer[p].events, e)
        BY <1>1, <1>2, <2>1, <3>1 DEF Waiting
      <4> QED
        BY <1>5, <1>6, <4>1, <4>2
    <3>2. CASE ~Runs(p, "drain")
      <4>1. Waiting(p) = <<>> \o buffer[p].events
        BY <3>2 DEF Waiting
      <4>2. Waiting(p)' = <<>> \o Append(buffer[p].events, e)
        BY <1>1, <1>2, <2>1, <3>2 DEF Waiting
      <4> QED
        BY <1>5, <1>6, <4>1, <4>2
    <3> QED
      BY <3>1, <3>2
  <2> QED
    BY <1>3, <1>5, <2>2, AppendProperties
<1>8. HandleInv(p)' /\ Base(p)' = Base(p) /\ Owed(p)' = Owed(p)
  BY <1>1, <1>4, HandleStays
<1>9. Len(live'[p]) = Len(live[p]) + 1 /\ Len(live[p]) \in Nat
  BY <1>1, <1>3, <1>5, AppendProperties, LenProperties
<1>10. ~Runs(p, "append")'
  <2>1. chain[p] \notin Appending /\ chain[p] \in Chains
    BY <1>1 DEF Control, WorkInv, ChainInv
  <2> QED
    BY <1>1, <2>1, ChainHeads DEF Runs
<1>11. TrackInv(p)'
  <2>1. live'[p] = Base(p)' \o Waiting(p)'
    <3>1. live[p] = Base(p) \o Waiting(p)
      BY <1>4 DEF TrackInv
    <3> QED
      BY <1>1, <1>5, <1>6, <1>7, <1>8, <3>1
  <2>2. Numbered(Base(p), 0)' /\ handle'[p].cursor = Len(Base(p)')
    BY <1>1, <1>4, <1>8 DEF TrackInv, Numbered
  <2>3. Len(live'[p]) <= made'
    BY <1>1, <1>4, <1>5, <1>9 DEF TrackInv
  <2> QED
    BY <1>10, <2>1, <2>2, <2>3 DEF TrackInv
<1>12. PromiseInv(p)'
  <2>1. flushing[p].at = "drain" => flushing[p].upTo <= Len(live'[p])
    BY <1>4, <1>5, <1>9 DEF PromiseInv
  <2>2. Runs(p, "append")' <=> Runs(p, "append")
    BY <1>1 DEF Runs
  <2> QED
    BY <1>1, <1>4, <1>7, <1>8, <2>1, <2>2 DEF PromiseInv
<1> QED
  BY <1>1, <1>8, <1>11, <1>12 DEF DataInv, Attached

\* An event that is appended is no part of the session yet.
LEMMA AppendSeedData ==
  ASSUME TypeOK, FileInv, NEW p \in Proc, Control(p), DataInv(p), AppendSeed(p)
  PROVE  DataInv(p)'
<1>t. /\ live \in [Proc -> Seq(Event)] /\ batch \in [Proc -> Seq(Event)]
      /\ chain \in [Proc -> Seq(Op)]
  BY DEF TypeOK
<1> DEFINE e == NewEvent(p)
<1>1. /\ state' = state /\ handle' = handle /\ buffer' = buffer /\ flushing' = flushing
      /\ live' = live /\ frames' = frames /\ exists' = exists
      /\ made' = made + 1 /\ made < MaxEvents /\ state[p] = "open"
      /\ Attached(p) /\ Attached(p)' /\ chain[p] = <<>>
      /\ batch'[p] = <<e>> /\ chain'[p] = <<"append">>
  BY <1>t DEF AppendSeed, Attached, file
<1> HIDE DEF e
<1>2. HandleInv(p) /\ TrackInv(p) /\ PromiseInv(p)
  BY <1>1, AttachedData
<1>3. Waiting(p)' = Waiting(p) /\ Runs(p, "append")' /\ ~Runs(p, "append")
  BY <1>1, ChainStarts DEF Waiting, Runs
<1>4. HandleInv(p)' /\ Base(p)' = Base(p) /\ Owed(p)' = Owed(p)
  BY <1>1, <1>2, HandleStays
<1>5. TrackInv(p)'
  <2>1. Len(live[p]) \in Nat /\ made \in Nat /\ Len(batch'[p]) = 1 /\ Len(live[p]) <= made
    BY <1>1, <1>2, DataTypes, Tuples DEF TrackInv
  <2>2. Numbered(Base(p), 0)' /\ handle'[p].cursor = Len(Base(p)')
    BY <1>1, <1>2, <1>4 DEF TrackInv, Numbered
  <2>3. live'[p] = Base(p)' \o Waiting(p)'
    BY <1>1, <1>2, <1>3, <1>4 DEF TrackInv
  <2>4. Len(live'[p]) <= made' /\ Len(live'[p]) + Len(batch'[p]) <= made'
    <3> DEFINE n == Len(live[p])
               b == Len(batch'[p])
    <3>1. n \in Nat /\ b = 1 /\ n <= made /\ Len(live'[p]) = n
      BY <1>1, <2>1
    <3> HIDE DEF n, b
    <3>2. n <= made' /\ n + b <= made'
      BY <1>1, <2>1, <3>1
    <3> QED
      BY <3>1, <3>2 DEF b
  <2> QED
    BY <2>2, <2>3, <2>4 DEF TrackInv
<1>6. PromiseInv(p)'
  <2>1. flushing[p].at \notin {"drain", "barrier"}
    BY <1>1, ChainStarts DEF Control, ChainInv
  <2> QED
    BY <1>1, <1>3, <2>1 DEF PromiseInv
<1> QED
  BY <1>1, <1>4, <1>5, <1>6 DEF DataInv, Attached

\* A handle that is given up is not attached any more.
LEMMA EndsData ==
  ASSUME TypeOK, NEW p \in Proc,
         Release(p) \/ RefuseOpen(p) \/ StrayEnds(p) \/ Crash(p)
  PROVE  DataInv(p)'
<1>1. state'[p] \in {"shut", "stray"}
  BY DEF TypeOK, Release, RefuseOpen, StrayEnds, Crash, Forgets
<1> QED
  BY <1>1 DEF DataInv, Attached

\* How far a mutation of the file may go when its turn has come: the batch
\* continues the records, which are all there is, and all in whole frames.
LEMMA WritingFacts ==
  ASSUME TypeOK, FileInv, LockInv, NEW p \in Proc, Control(p), DataInv(p),
         Writing(p), MayWrite(p), ~handle[p].left
  PROVE  /\ TornAt = 0 /\ Base(p) = Records /\ Owed(p) = <<>>
         /\ handle[p].cursor = Len(Records) /\ Numbered(batch[p], Len(Records))
         /\ live[p] = Records \o Waiting(p)
         /\ Len(Records) + Len(batch[p]) <= made
         /\ Runs(p, "drain") => live[p] = (Records \o batch[p]) \o buffer[p].events
         /\ Runs(p, "append") => live[p] = Records
         /\ Runs(p, "flush") => batch[p] = <<>> /\ Waiting(p) = buffer[p].events
<1>1. step[p] = "mutate" /\ handle[p].torn = 0 /\ handle[p].recovered = <<>> /\ Contiguous(p)
  BY DEF Writing
<1>2. ChainInv(p) /\ WorkInv(p) /\ chain[p] # <<>> /\ chain[p] \in Chains
  BY <1>1, BusyHasHandle DEF Control, ChainInv
<1>3. HandleInv(p) /\ TrackInv(p)
  BY <1>2, RunningAttached, AttachedData
<1>4. Owed(p) = <<>>
  BY <1>1 DEF Owed
<1>t. /\ Records \in Seq(Event) /\ batch[p] \in Seq(Event) /\ buffer[p].events \in Seq(Event)
      /\ frames \in Seq(Frame) /\ live[p] \in Seq(Event) /\ made \in Nat
      /\ Len(Records) \in Nat /\ Len(batch[p]) \in Nat /\ Len(buffer[p].events) \in Nat
      /\ Waiting(p) \in Seq(Event)
  <2>1. Records \in Seq(Event) /\ batch[p] \in Seq(Event) /\ buffer[p].events \in Seq(Event)
        /\ frames \in Seq(Frame) /\ live[p] \in Seq(Event) /\ made \in Nat
        /\ Waiting(p) \in Seq(Event)
    BY DataTypes DEF TypeOK
  <2> QED
    BY <2>1, LenProperties
<1>5. TornAt = 0 /\ Base(p) = Records
  <2>1. CASE handle[p].materialized
    <3>1. TornAt = 0
      BY <1>1, <1>3, <2>1 DEF HandleInv, Pictured
    <3>2. Base(p) = Records \o <<>>
      BY <1>4, <2>1 DEF Base, Told, Records
    <3> QED
      BY <1>t, <3>1, <3>2, ConcatEmptySeq
  <2>2. CASE ~handle[p].materialized
    <3>1. ~exists
      BY <2>2 DEF MayWrite
    <3>2. frames = <<>>
      BY <3>1 DEF FileInv
    <3>3. TornAt = 0
      BY <3>2, Tuples DEF TornAt
    <3>4. [events |-> <<>>, whole |-> TRUE] \in Frame
      BY EmptySeq DEF Frame
    <3>5. Records = <<>>
      BY <1>t, <3>2, <3>4, DecodeFacts DEF Records
    <3>6. Base(p) = <<>>
      BY <2>2 DEF Base
    <3> QED
      BY <3>3, <3>5, <3>6
  <2> QED
    BY <2>1, <2>2
<1>6. /\ handle[p].cursor = Len(Records) /\ Numbered(batch[p], Len(Records))
      /\ live[p] = Records \o Waiting(p)
  BY <1>1, <1>3, <1>5 DEF TrackInv, Contiguous
<1>7. ASSUME Runs(p, "drain")
      PROVE  /\ live[p] = (Records \o batch[p]) \o buffer[p].events
             /\ Len(Records) + Len(batch[p]) <= made
  <2>1. live[p] = Records \o (batch[p] \o buffer[p].events)
    BY <1>6, <1>7 DEF Waiting
  <2>2. live[p] = (Records \o batch[p]) \o buffer[p].events
    <3>1. ASSUME NEW a \in Seq(Event), NEW b \in Seq(Event), NEW c \in Seq(Event)
          PROVE  a \o (b \o c) = (a \o b) \o c
      BY ConcatAssociative
    <3> QED
      BY <1>t, <2>1, <3>1
  <2>3. /\ Records \o batch[p] \in Seq(Event)
        /\ Len(Records \o batch[p]) = Len(Records) + Len(batch[p])
    BY <1>t, ConcatProperties
  <2>4. Len(live[p]) = Len(Records) + Len(batch[p]) + Len(buffer[p].events)
    BY <1>t, <2>2, <2>3, ConcatProperties
  <2>5. Len(live[p]) <= made
    BY <1>3 DEF TrackInv
  <2> DEFINE r == Len(Records)
             b == Len(batch[p])
             v == Len(buffer[p].events)
  <2>6. r \in Nat /\ b \in Nat /\ v \in Nat /\ r + b + v <= made
    BY <1>t, <2>4, <2>5
  <2> HIDE DEF r, b, v
  <2>7. r + b <= made
    BY <1>t, <2>6
  <2> QED
    BY <2>2, <2>7 DEF r, b
<1>8. ASSUME Runs(p, "append")
      PROVE  live[p] = Records /\ Len(Records) + Len(batch[p]) <= made
  <2>1. chain[p] \in Appending
    BY <1>2, <1>8, ChainHeads DEF Runs
  <2>2. buffer[p].events = <<>> /\ ~Runs(p, "drain")
    BY <1>2, <1>8, <2>1 DEF WorkInv, Runs
  <2>3. Waiting(p) = <<>>
    BY <2>2, Tuples DEF Waiting
  <2>4. live[p] = Records
    BY <1>t, <1>6, <2>3, ConcatEmptySeq
  <2> QED
    BY <1>3, <1>8, <2>4 DEF TrackInv
<1>9. ASSUME Runs(p, "flush")
      PROVE  /\ batch[p] = <<>> /\ Waiting(p) = buffer[p].events
             /\ Len(Records) + Len(batch[p]) <= made
  <2>1. chain[p] \notin Appending /\ ~Begun(p) /\ ~Runs(p, "drain")
    BY <1>2, <1>9, ChainHeads, ChainStarts DEF Runs, Begun
  <2>2. batch[p] = <<>>
    BY <1>2, <2>1 DEF WorkInv
  <2>3. Waiting(p) = buffer[p].events
    BY <1>t, <2>1, ConcatEmptySeq DEF Waiting
  <2>4. Len(Records) <= made
    BY DEF FileInv
  <2>5. Len(batch[p]) = 0
    BY <2>2, Tuples
  <2> QED
    BY <1>t, <2>2, <2>3, <2>4, <2>5
<1>10. Runs(p, "drain") \/ Runs(p, "append") \/ Runs(p, "flush")
  BY <1>2, ChainHeads DEF Runs, Op
<1> QED
  BY <1>4, <1>5, <1>6, <1>7, <1>8, <1>9, <1>10

\* The batch in the file: the records grow by it, or stay when it is empty.
LEMMA BatchWritten ==
  ASSUME TypeOK, FileInv, LockInv, NEW p \in Proc, Control(p), DataInv(p), made' = made,
         Writing(p), MayWrite(p), ~handle[p].left,
         exists', frames' = frames \o BatchFrame(p),
         stored' \in {stored, handle[p].cursor + Len(batch[p])}
  PROVE  /\ FileInv' /\ Records' = Records \o batch[p] /\ TornAt' = 0
         /\ Records' \in Seq(Event) /\ Len(Records') = Len(Records) + Len(batch[p])
         /\ Sound' = frames'
         /\ handle[p].cursor + Len(batch[p]) = Len(Records')
<1>1. /\ TornAt = 0 /\ handle[p].cursor = Len(Records) /\ Numbered(batch[p], Len(Records))
      /\ Len(Records) + Len(batch[p]) <= made
  BY WritingFacts
<1>2. /\ Records \in Seq(Event) /\ batch[p] \in Seq(Event) /\ made \in Nat
      /\ frames \in Seq(Frame) /\ Len(Records) \in Nat
  <2>1. Records \in Seq(Event) /\ batch[p] \in Seq(Event) /\ made \in Nat
        /\ frames \in Seq(Frame)
    BY DataTypes DEF TypeOK
  <2> QED
    BY <2>1, LenProperties
<1>3. Records' = Decode(frames')
  BY DEF Records
<1>4. ASSUME Records' = Records \o batch[p]
      PROVE  /\ Records' \in Seq(Event) /\ Len(Records') = Len(Records) + Len(batch[p])
             /\ handle[p].cursor + Len(batch[p]) = Len(Records')
  <2>1. Records' \in Seq(Event) /\ Len(Records') = Len(Records) + Len(batch[p])
    BY <1>2, <1>4, ConcatProperties
  <2> QED
    BY <1>1, <2>1
<1>5. CASE batch[p] = <<>>
  <2>1. frames' = frames
    BY <1>2, <1>5, ConcatEmptySeq DEF BatchFrame
  <2>2. Records' = Records \o batch[p]
    BY <1>2, <1>5, <2>1, ConcatEmptySeq DEF Records
  <2>3. Records' = Records
    BY <2>1 DEF Records
  <2>4. stored' = stored \/ (TornAt = 0 /\ stored' = Len(Records))
    BY <1>1, <1>4, <2>2, <2>3
  <2>5. FileInv' /\ TornAt' = TornAt /\ Sound' = Sound
    BY <1>2, <2>1, <2>4, FileStays
  <2>6. Sound' = frames'
    BY <1>1, <2>1, <2>5 DEF Sound
  <2> QED
    BY <1>1, <1>4, <2>2, <2>5, <2>6
<1>6. CASE batch[p] # <<>>
  <2> DEFINE fr == [events |-> batch[p], whole |-> TRUE]
  <2>1. frames' = frames \o <<fr>> /\ fr \in Frame /\ fr.events = batch[p] /\ fr.whole
    BY <1>2, <1>6 DEF BatchFrame, Frame
  <2> HIDE DEF fr
  <2>2. frames' = Append(frames, fr)
    BY <1>2, <2>1, AppendIsConcat
  <2>3. Records' = Records \o batch[p]
    <3>1. Decode(Append(frames, fr)) = Decode(frames) \o fr.events
      BY <1>2, <2>1, DecodeFacts
    <3> QED
      BY <2>1, <2>2, <3>1 DEF Records
  <2>4. stored' = stored \/ (fr.whole /\ stored' = Len(Records'))
    BY <1>4, <2>1, <2>3
  <2>5. FileInv' /\ TornAt' = 0
    <3>1. Numbered(fr.events, Len(Records)) /\ Len(Records) + Len(fr.events) <= made' /\ made' \in Nat
      BY <1>1, <1>2, <2>1
    <3>2. FileInv' /\ TornAt' = IF fr.whole THEN 0 ELSE Len(frames')
      BY <1>1, <2>1, <2>2, <2>4, <3>1, FileGrows
    <3> QED
      BY <2>1, <3>2
  <2>6. Sound' = frames'
    BY <2>5 DEF Sound
  <2> QED
    BY <1>4, <2>3, <2>5, <2>6
<1> QED
  BY <1>5, <1>6

\* No frame has the number 0.
LEMMA ZeroOut ==
  ASSUME NEW fs \in Seq(Frame)
  PROVE  DOMAIN fs = 1 .. Len(fs) /\ Len(fs) \in Nat /\ 0 \notin DOMAIN fs
         /\ Len(fs) + 1 \notin DOMAIN fs
  BY LenProperties

\* What is cut off where the handle says: the torn frame, or nothing if an
\* earlier truncation has done it.
LEMMA CutFacts ==
  ASSUME TypeOK, FileInv, NEW p \in Proc, HandleInv(p), Truncating(p),
         exists' = exists, stored' = stored, made' = made,
         frames' = SubSeq(frames, 1, handle[p].torn - 1)
  PROVE  /\ FileInv' /\ TornAt' = 0 /\ frames' \in Seq(Frame)
         /\ handle[p].materialized /\ ~handle[p].left /\ handle[p].torn # 0
         /\ handle[p].lease = "held" /\ exists
         /\ handle[p].torn = Len(frames') + 1
         /\ \/ /\ TornAt # 0 /\ handle[p].torn = TornAt /\ TornAt \in DOMAIN frames
               /\ Records' = Decode(Sound) /\ frames' = Sound
               /\ Records = Records' \o handle[p].recovered
            \/ frames' = frames /\ Records' = Records
<1>1. handle[p].torn # 0
  BY DEF Truncating
<1>2. /\ handle[p].materialized /\ ~handle[p].left /\ handle[p].lease = "held" /\ exists
      /\ Pictured(handle[p])
  BY <1>1 DEF HandleInv
<1>3. /\ frames \in Seq(Frame) /\ Len(frames) \in Nat /\ DOMAIN frames = 1 .. Len(frames)
      /\ made \in Nat /\ made <= made'
  <2>1. frames \in Seq(Frame) /\ made \in Nat
    BY DataTypes DEF TypeOK
  <2> QED
    BY <2>1, ZeroOut
<1>4. CASE handle[p].torn = TornAt
  <2>1. TornAt # 0 /\ handle[p].recovered = frames[TornAt].events
    <3>1. TornAt # 0
      BY <1>1, <1>4
    <3> QED
      BY <1>2, <1>3, <1>4, <3>1, TornFacts DEF Pictured
  <2>2. TornAt = Len(frames) /\ Sound = SubSeq(frames, 1, Len(frames) - 1) /\ Sound \in Seq(Frame)
        /\ frames # <<>>
    BY <1>3, <2>1, TornFacts
  <2>3. FileInv' /\ TornAt' = 0 /\ Records' = Decode(Sound)
        /\ Records = Records' \o handle[p].recovered
    BY <1>4, <2>1, FileShrinks
  <2>4. frames' = Sound
    BY <1>4, <2>2
  <2>5. Len(Sound) = Len(frames) - 1
    BY <1>3, <2>2, DecodeLast
  <2>6. handle[p].torn = Len(frames') + 1 /\ TornAt \in DOMAIN frames
    BY <1>3, <1>4, <2>1, <2>2, <2>4, <2>5
  <2> QED
    BY <1>1, <1>2, <1>4, <2>1, <2>2, <2>3, <2>4, <2>6
<1>5. CASE handle[p].torn # TornAt
  <2>1. handle[p].torn = Len(frames) + 1 /\ TornAt = 0
    BY <1>2, <1>5 DEF Pictured
  <2>2. frames' = frames
    <3>1. handle[p].torn - 1 = Len(frames)
      BY <1>3, <2>1
    <3> QED
      BY <1>3, <3>1, SubSeqFull
  <2>3. FileInv' /\ Records' = Records /\ TornAt' = TornAt
    BY <1>3, <2>2, FileStays
  <2> QED
    BY <1>1, <1>2, <1>3, <2>1, <2>2, <2>3
<1> QED
  BY <1>4, <1>5

\* What the handle counts is the same behind it, whether it knows that the file
\* has been cut or not.
LEMMA CutKeeps ==
  ASSUME TypeOK, FileInv, NEW p \in Proc, HandleInv(p), Truncating(p),
         exists' = exists, stored' = stored, made' = made,
         frames' = SubSeq(frames, 1, handle[p].torn - 1),
         handle'[p].torn \in {0, handle[p].torn},
         handle'[p].materialized = handle[p].materialized,
         handle'[p].recovered = handle[p].recovered,
         handle'[p].left = handle[p].left, handle'[p].lease = handle[p].lease
  PROVE  HandleInv(p)' /\ Base(p)' = Base(p)
<1>1. /\ TornAt' = 0 /\ frames' \in Seq(Frame)
      /\ handle[p].materialized /\ ~handle[p].left /\ handle[p].torn # 0
      /\ handle[p].lease = "held" /\ exists
      /\ handle[p].torn = Len(frames') + 1
      /\ \/ /\ TornAt # 0 /\ handle[p].torn = TornAt /\ TornAt \in DOMAIN frames
            /\ Records = Records' \o handle[p].recovered
         \/ frames' = frames /\ Records' = Records
  BY CutFacts
<1>2. handle'[p].torn \notin DOMAIN frames'
  <2> DEFINE fs == frames'
  <2>1. fs \in Seq(Frame) /\ handle'[p].torn \in {0, Len(fs) + 1}
    BY <1>1
  <2> HIDE DEF fs
  <2>2. handle'[p].torn \notin DOMAIN fs
    BY <2>1, ZeroOut
  <2> QED
    BY <2>2 DEF fs
<1>3. Owed(p)' = handle[p].recovered
  BY <1>2 DEF Owed
<1>4. Told(p) = frames /\ Told(p)' = frames'
  BY <1>1 DEF Told
<1>5. Base(p)' = Records' \o handle[p].recovered
  <2>1. Decode(Told(p))' = Records'
    BY <1>4 DEF Decode, Records
  <2> QED
    BY <1>1, <1>3, <2>1 DEF Base
<1>6. Base(p) = Records \o Owed(p)
  BY <1>1, <1>4 DEF Base, Records
<1>7. Base(p)' = Base(p)
  <2>1. CASE handle[p].torn = TornAt /\ TornAt \in DOMAIN frames
             /\ Records = Records' \o handle[p].recovered
    <3>1. Owed(p) = <<>>
      BY <2>1 DEF Owed
    <3>2. Records \o <<>> = Records
      BY DataTypes, ConcatEmptySeq
    <3> QED
      BY <1>5, <1>6, <2>1, <3>1, <3>2
  <2>2. CASE frames' = frames /\ Records' = Records
    <3>1. handle[p].torn = Len(frames) + 1 /\ frames \in Seq(Frame)
      BY <1>1, <2>2
    <3>2. Owed(p) = handle[p].recovered
      BY <3>1, ZeroOut DEF Owed
    <3> QED
      BY <1>5, <1>6, <2>2, <3>2
  <2> QED
    BY <1>1, <2>1, <2>2
<1>8. HandleInv(p)'
  BY <1>1 DEF HandleInv, Pictured
<1> QED
  BY <1>7, <1>8

\* Cutting off the torn frame: its records are owed from now on.
LEMMA TruncateData ==
  ASSUME TypeOK, FileInv, LockInv, NEW p \in Proc, Control(p), DataInv(p), TruncateTail(p)
  PROVE  DataInv(p)' /\ FileInv'
<1>t. handle \in [Proc -> Handle]
  BY DEF TypeOK
<1>1. /\ Truncating(p) /\ handle[p].torn # 0 /\ step[p] = "mutate"
      /\ exists' = exists /\ stored' = stored /\ made' = made
      /\ state' = state /\ live' = live /\ buffer' = buffer /\ chain' = chain
      /\ batch' = batch /\ flushing' = flushing
      /\ frames' = SubSeq(frames, 1, handle[p].torn - 1)
      /\ handle' = [handle EXCEPT ![p].torn = 0]
  BY DEF TruncateTail, Truncating, history, counters
<1>2. chain[p] # <<>> /\ chain[p] \in Chains /\ WorkInv(p) /\ ChainInv(p)
  BY <1>1, BusyHasHandle DEF Control, ChainInv
<1>3. HandleInv(p) /\ Attached(p)
  BY <1>1, <1>2, RunningAttached, AttachedData
<1>4. /\ handle'[p].torn = 0 /\ handle'[p].recovered = handle[p].recovered
      /\ handle'[p].materialized = handle[p].materialized
      /\ handle'[p].lease = handle[p].lease /\ handle'[p].left = handle[p].left
      /\ handle'[p].cursor = handle[p].cursor
  BY <1>t, <1>1 DEF Handle
<1>5. FileInv' /\ handle[p].materialized
  BY <1>1, <1>3, CutFacts
<1>6. HandleInv(p)' /\ Base(p)' = Base(p)
  BY <1>1, <1>3, <1>4, CutKeeps
<1>7. /\ Waiting(p)' = Waiting(p) /\ Runs(p, "append")' = Runs(p, "append") /\ Attached(p)'
  BY <1>1, <1>3 DEF Waiting, Runs, Attached
<1>8. Runs(p, "append") \/ Begun(p)
  <2>1. ~Runs(p, "flush")
    BY <1>1, <1>2, <1>5 DEF WorkInv
  <2> QED
    BY <1>1, <1>2, <2>1, ChainHeads DEF Runs, Op, Begun
<1>9. Begun(p) => Waiting(p) # <<>> /\ flushing[p].at # "barrier"
  <2>1. ASSUME Begun(p) PROVE Waiting(p) # <<>> /\ flushing[p].at # "barrier"
    <3>1. batch[p] # <<>> /\ Runs(p, "drain") /\ flushing[p].at # "barrier"
      BY <1>2, <2>1, ChainStarts DEF WorkInv, ChainInv, Begun, Runs
    <3>2. Waiting(p) = batch[p] \o buffer[p].events
      BY <3>1 DEF Waiting
    <3>3. batch[p] \in Seq(Event) /\ buffer[p].events \in Seq(Event)
      BY DataTypes
    <3> QED
      BY <3>1, <3>2, <3>3, ConcatEqualIffEmpty
  <2> QED
    BY <2>1
<1>10. \/ Waiting(p) # <<>> /\ flushing'[p].at # "barrier"
       \/ Runs(p, "append")'
  BY <1>1, <1>7, <1>8, <1>9
<1>11. DataInv(p)'
  BY <1>1, <1>3, <1>4, <1>6, <1>7, <1>10, KeptData
<1> QED
  BY <1>5, <1>11

\* Writing the recovered records again: nothing is owed any more.
LEMMA RewriteFacts ==
  ASSUME TypeOK, FileInv, LockInv, NEW p \in Proc, Control(p), DataInv(p), Rewriting(p),
         ~handle[p].left
  PROVE  /\ handle[p].materialized /\ exists /\ TornAt = 0 /\ handle[p].lease = "held"
         /\ Base(p) = Records \o handle[p].recovered
         /\ Numbered(handle[p].recovered, Len(Records))
         /\ Len(Records) + Len(handle[p].recovered) <= made
         /\ HandleInv(p) /\ TrackInv(p) /\ PromiseInv(p) /\ Attached(p)
<1>1. step[p] = "mutate" /\ handle[p].torn = 0 /\ handle[p].recovered # <<>>
  BY DEF Rewriting
<1>2. HandleInv(p) /\ TrackInv(p) /\ PromiseInv(p) /\ Attached(p) /\ handle[p].lease = "held"
  BY <1>1, BusyHasHandle, RunningAttached, AttachedData
<1>3. handle[p].materialized /\ exists /\ TornAt = 0
  BY <1>1, <1>2 DEF HandleInv, Pictured
<1>4. Base(p) = Records \o handle[p].recovered
  <2>1. 0 \notin DOMAIN frames
    BY ZeroOut DEF TypeOK
  <2> QED
    BY <1>1, <1>3, <2>1 DEF Base, Owed, Told, Records
<1>5. /\ Records \in Seq(Event) /\ handle[p].recovered \in Seq(Event)
      /\ live[p] \in Seq(Event) /\ Waiting(p) \in Seq(Event) /\ Base(p) \in Seq(Event)
      /\ made \in Nat
  BY DataTypes
<1>6. Numbered(handle[p].recovered, Len(Records))
  <2>1. Numbered(Records \o handle[p].recovered, 0)
    BY <1>2, <1>4 DEF TrackInv
  <2>2. ASSUME NEW s \in Seq(Event), NEW t \in Seq(Event), Numbered(s \o t, 0)
        PROVE  Numbered(t, Len(s))
    <3>1. Numbered(t, 0 + Len(s)) /\ Len(s) \in Nat
      BY <2>2, NumberedConcat, LenProperties
    <3>2. 0 + Len(s) = Len(s)
      BY <3>1
    <3> QED
      BY <3>1, <3>2
  <2> QED
    BY <1>5, <2>1, <2>2
<1>7. Len(Records) + Len(handle[p].recovered) <= made
  <2>1. Len(Base(p)) = Len(Records) + Len(handle[p].recovered)
    BY <1>4, <1>5, ConcatProperties
  <2>2. live[p] = Base(p) \o Waiting(p) /\ Len(live[p]) <= made
    BY <1>2 DEF TrackInv
  <2>3. Len(live[p]) = Len(Base(p)) + Len(Waiting(p))
    BY <1>5, <2>2, ConcatProperties
  <2>4. Len(Base(p)) \in Nat /\ Len(Waiting(p)) \in Nat
    BY DataTypes
  <2> DEFINE b == Len(Base(p))
             w == Len(Waiting(p))
  <2>5. b \in Nat /\ w \in Nat /\ b + w <= made
    BY <2>2, <2>3, <2>4
  <2> HIDE DEF b, w
  <2>6. b <= made
    BY <1>5, <2>5
  <2> QED
    BY <2>1, <2>6 DEF b
<1> QED
  BY <1>2, <1>3, <1>4, <1>6, <1>7

\* The recovered records are in the file again.
LEMMA RewriteData ==
  ASSUME TypeOK, FileInv, LockInv, NEW p \in Proc, Control(p), DataInv(p), RewriteTail(p),
         ~resent'
  PROVE  DataInv(p)' /\ FileInv' /\ stored' = stored /\ Records' = Records \o handle[p].recovered
<1>t. handle \in [Proc -> Handle]
  BY DEF TypeOK
<1>0. Rewriting(p) /\ ~handle[p].left
  BY DEF RewriteTail, Resends
<1> DEFINE fr == [events |-> handle[p].recovered, whole |-> TRUE]
<1>1. /\ step[p] = "mutate" /\ handle[p].torn = 0
      /\ exists' = exists /\ stored' = stored /\ made' = made
      /\ state' = state /\ live' = live /\ buffer' = buffer /\ chain' = chain
      /\ batch' = batch /\ flushing' = flushing
      /\ frames' = Append(frames, fr)
      /\ handle' = [handle EXCEPT ![p].recovered = <<>>]
  BY DEF RewriteTail, Rewriting, history, counters
<1>2. /\ handle[p].materialized /\ exists /\ TornAt = 0 /\ handle[p].lease = "held"
      /\ Base(p) = Records \o handle[p].recovered
      /\ Numbered(handle[p].recovered, Len(Records))
      /\ Len(Records) + Len(handle[p].recovered) <= made
      /\ HandleInv(p) /\ TrackInv(p) /\ PromiseInv(p) /\ Attached(p)
  BY <1>0, RewriteFacts
<1>3. fr \in Frame /\ fr.events = handle[p].recovered /\ fr.whole
  BY DataTypes DEF Frame
<1> HIDE DEF fr
<1>4. /\ FileInv' /\ Records' = Records \o handle[p].recovered /\ TornAt' = 0
  <2>1. made' \in Nat
    BY <1>1, DataTypes
  <2>2. /\ FileInv' /\ Records' = Records \o fr.events
        /\ TornAt' = IF fr.whole THEN 0 ELSE Len(frames')
    BY <1>1, <1>2, <1>3, <2>1, FileGrows
  <2> QED
    BY <1>3, <2>2
<1>5. /\ handle'[p].torn = 0 /\ handle'[p].recovered = <<>>
      /\ handle'[p].materialized /\ handle'[p].lease = "held"
      /\ handle'[p].cursor = handle[p].cursor /\ handle'[p].left = FALSE
  BY <1>t, <1>0, <1>1, <1>2 DEF Handle
<1>6. Owed(p)' = <<>>
  BY <1>5 DEF Owed
<1>7. Base(p)' = Base(p)
  <2>1. Base(p)' = Records' \o <<>>
    <3>1. Decode(Told(p))' = Records'
      BY <1>5 DEF Told, Records
    <3> QED
      BY <1>5, <1>6, <3>1 DEF Base
  <2>2. Records \in Seq(Event) /\ handle[p].recovered \in Seq(Event)
    BY DataTypes
  <2>3. Records' \in Seq(Event)
    BY <1>4, <2>2, ConcatProperties
  <2>4. Records' \o <<>> = Records'
    BY <2>3, ConcatEmptySeq
  <2> QED
    BY <1>2, <1>4, <2>1, <2>4
<1>8. /\ Waiting(p)' = Waiting(p) /\ Runs(p, "append")' = Runs(p, "append") /\ Attached(p)'
  BY <1>1, <1>2 DEF Waiting, Runs, Attached
<1>9. HandleInv(p)'
  BY <1>1, <1>2, <1>4, <1>5 DEF HandleInv, Pictured
<1>10. TrackInv(p)'
  <2>1. Numbered(Base(p), 0)'
    BY <1>2, <1>7 DEF TrackInv, Numbered
  <2> QED
    BY <1>1, <1>2, <1>5, <1>7, <1>8, <2>1 DEF TrackInv
<1>11. PromiseInv(p)'
  BY <1>1, <1>2, <1>5, <1>6, <1>8 DEF PromiseInv
<1> QED
  BY <1>1, <1>2, <1>4, <1>8, <1>9, <1>10, <1>11 DEF DataInv, Attached

\* Writing the batch: what was waiting in it is in the file.
LEMMA WriteData ==
  ASSUME TypeOK, FileInv, LockInv, NEW p \in Proc, Control(p), DataInv(p), WriteBatch(p),
         ~resent'
  PROVE  /\ DataInv(p)' /\ FileInv' /\ Records' = Records \o batch[p]
         /\ stored' = Len(Records') /\ Sound' = frames'
<1>t. /\ handle \in [Proc -> Handle] /\ live \in [Proc -> Seq(Event)]
      /\ buffer \in [Proc -> Buffer]
      /\ flushing \in [Proc -> [at : {"no", "drain", "barrier"}, upTo : Nat]]
  BY DEF TypeOK
<1>1. /\ Writing(p) /\ MayWrite(p) /\ step[p] = "mutate"
      /\ exists' = TRUE /\ made' = made
      /\ frames' = frames \o BatchFrame(p)
      /\ handle' = [handle EXCEPT ![p].materialized = TRUE,
                                  ![p].cursor = @ + Len(batch[p])]
      /\ stored' = handle[p].cursor + Len(batch[p]) /\ ~handle[p].left
      /\ \/ Runs(p, "drain") /\ DrainResolves(p)
         \/ Runs(p, "append") /\ AppendResolves(p)
         \/ Runs(p, "flush") /\ FlushEnds(p)
  BY DEF WriteBatch, Writing, Resends, counters
<1>2. chain[p] # <<>> /\ chain[p] \in Chains /\ WorkInv(p) /\ ChainInv(p)
  BY <1>1, BusyHasHandle DEF Control, ChainInv
<1>3. /\ HandleInv(p) /\ TrackInv(p) /\ PromiseInv(p) /\ Attached(p) /\ handle[p].lease = "held"
      /\ state[p] \in {"open", "closing"}
  BY <1>1, <1>2, RunningAttached, AttachedData
<1>4. /\ FileInv' /\ Records' = Records \o batch[p] /\ TornAt' = 0
      /\ Records' \in Seq(Event) /\ Len(Records') = Len(Records) + Len(batch[p])
      /\ Sound' = frames'
      /\ handle[p].cursor + Len(batch[p]) = Len(Records')
  BY <1>1, BatchWritten
<1>5. /\ handle[p].cursor = Len(Records) /\ handle[p].torn = 0 /\ handle[p].recovered = <<>>
      /\ Runs(p, "drain") => live[p] = (Records \o batch[p]) \o buffer[p].events
      /\ Runs(p, "append") => live[p] = Records
      /\ Runs(p, "flush") => batch[p] = <<>> /\ Waiting(p) = buffer[p].events
      /\ live[p] = Records \o Waiting(p)
  BY <1>1, WritingFacts DEF Writing
<1>6. /\ handle'[p].torn = 0 /\ handle'[p].recovered = <<>> /\ handle'[p].lease = "held"
      /\ handle'[p].materialized /\ handle'[p].cursor = Len(Records')
      /\ handle'[p].left = FALSE
  <2>1. handle'[p].cursor = handle[p].cursor + Len(batch[p])
    BY <1>t, <1>1 DEF Handle
  <2>2. /\ handle'[p].torn = handle[p].torn /\ handle'[p].recovered = handle[p].recovered
        /\ handle'[p].lease = handle[p].lease /\ handle'[p].materialized = TRUE
        /\ handle'[p].left = handle[p].left
    BY <1>t, <1>1 DEF Handle
  <2> QED
    BY <1>1, <1>3, <1>4, <1>5, <2>1, <2>2
<1>7. Owed(p)' = <<>> /\ Base(p)' = Records'
  <2>1. Owed(p)' = <<>>
    BY <1>6 DEF Owed
  <2>2. Base(p)' = Records' \o <<>>
    <3>1. Decode(Told(p))' = Records'
      BY <1>6 DEF Told, Records
    <3> QED
      BY <1>6, <2>1, <3>1 DEF Base
  <2> QED
    BY <1>4, <2>1, <2>2, ConcatEmptySeq
<1>8. HandleInv(p)'
  BY <1>1, <1>4, <1>6 DEF HandleInv, Pictured
<1>s. /\ Records \in Seq(Event) /\ batch[p] \in Seq(Event) /\ buffer[p].events \in Seq(Event)
      /\ live[p] \in Seq(Event) /\ flushing[p].upTo \in Nat /\ made \in Nat
      /\ Len(live[p]) \in Nat
  BY DataTypes
<1>9. /\ chain'[p] \in Chains /\ chain'[p] \notin Appending /\ batch'[p] = <<>>
      /\ state'[p] = state[p] /\ buffer'[p].events = buffer[p].events
  <2>1. CASE Runs(p, "drain") /\ DrainResolves(p)
    <3>1. /\ state' = state /\ buffer'[p].events = buffer[p].events
      BY <1>t, <2>1 DEF DrainResolves, Buffer
    <3>2. chain[p] = <<"drain">> /\ Tail(chain[p]) = <<>>
      BY <1>2, <2>1, ChainHeads, ChainTails DEF Runs
    <3>3. \E more \in {<<"drain">>, <<"flush">>, <<>>} : Leaves(p, more)
      BY <2>1 DEF DrainResolves
    <3>4. PICK more \in {<<"drain">>, <<"flush">>, <<>>} : Leaves(p, more)
      BY <3>3
    <3>5. chain'[p] = Tail(chain[p]) \o more /\ batch'[p] = <<>>
      BY <3>4, LeavesDoes
    <3>6. chain'[p] = more
      BY <3>2, <3>5, Tuples
    <3> QED
      BY <3>1, <3>5, <3>6, ChainStarts
  <2>2. CASE (Runs(p, "append") /\ AppendResolves(p)) \/ (Runs(p, "flush") /\ FlushEnds(p))
    <3>1. Leaves(p, <<>>) /\ state' = state /\ buffer' = buffer
      BY <2>2 DEF AppendResolves, FlushEnds
    <3>2. chain'[p] = Tail(chain[p]) \o <<>> /\ batch'[p] = <<>>
      BY <3>1, LeavesDoes
    <3> QED
      BY <1>2, <3>1, <3>2, ChainTails
  <2> QED
    BY <1>1, <2>1, <2>2
<1>10. Waiting(p)' = buffer[p].events /\ ~Runs(p, "append")'
  <2>1. Waiting(p)' = <<>> \o buffer[p].events
    BY <1>9 DEF Waiting
  <2>2. ~Runs(p, "append")'
    BY <1>9, ChainHeads DEF Runs
  <2> QED
    BY <1>s, <2>1, <2>2, ConcatEmptySeq
<1>11. /\ live'[p] = Records' \o buffer[p].events
       /\ Len(live'[p]) <= made
       /\ Len(live[p]) <= Len(live'[p])
  <2>1. CASE Runs(p, "drain") /\ DrainResolves(p)
    <3>1. live' = live
      BY <2>1 DEF DrainResolves
    <3> QED
      <4>1. live'[p] = live[p] /\ live[p] = Records' \o buffer[p].events
        BY <1>4, <1>5, <2>1, <3>1
      <4>2. Len(live[p]) <= made
        BY <1>3 DEF TrackInv
      <4>3. Len(live[p]) <= Len(live[p])
        <5> DEFINE n == Len(live[p])
        <5>1. n \in Nat
          BY <1>s
        <5> HIDE DEF n
        <5>2. n <= n
          BY <5>1
        <5> QED
          BY <5>2 DEF n
      <4> QED
        BY <4>1, <4>2, <4>3
  <2>2. CASE Runs(p, "append") /\ AppendResolves(p)
    <3>1. live'[p] = live[p] \o batch[p]
      BY <1>t, <2>2 DEF AppendResolves
    <3>2. buffer[p].events = <<>>
      BY <1>2, <2>2, ChainHeads DEF WorkInv, Runs
    <3>3. live'[p] = Records' /\ Records' \o <<>> = Records'
      BY <1>4, <1>5, <2>2, <3>1, ConcatEmptySeq
    <3>4. Len(live[p]) + Len(batch[p]) <= made
      BY <1>3, <2>2 DEF TrackInv
    <3>5. Len(live'[p]) = Len(live[p]) + Len(batch[p]) /\ Len(batch[p]) \in Nat
      BY <1>s, <3>1, ConcatProperties, LenProperties
    <3>6. Len(live'[p]) <= made
      BY <3>4, <3>5
    <3>7. Len(live[p]) <= Len(live'[p])
      <4> DEFINE b == Len(batch[p])
                 n == Len(live[p])
      <4>1. b \in Nat /\ n \in Nat /\ Len(live'[p]) = n + b
        BY <1>s, <3>5
      <4> HIDE DEF b, n
      <4>2. n <= n + b
        BY <4>1
      <4> QED
        BY <4>1, <4>2 DEF n
    <3> QED
      BY <3>2, <3>3, <3>6, <3>7
  <2>3. CASE Runs(p, "flush") /\ FlushEnds(p)
    <3>1. live' = live
      BY <2>3 DEF FlushEnds
    <3>2. batch[p] = <<>> /\ Waiting(p) = buffer[p].events
      BY <1>5, <2>3
    <3>3. Records' = Records
      BY <1>4, <1>s, <3>2, ConcatEmptySeq
    <3>4. Len(live[p]) <= made
      BY <1>3 DEF TrackInv
    <3> QED
      BY <1>5, <1>s, <3>1, <3>2, <3>3, <3>4
  <2> QED
    BY <1>1, <2>1, <2>2, <2>3
<1>12. TrackInv(p)'
  <2>1. Numbered(Base(p), 0)'
    BY <1>4, <1>7 DEF FileInv, Numbered
  <2> QED
    BY <1>1, <1>6, <1>7, <1>10, <1>11, <2>1 DEF TrackInv
<1>13. PromiseInv(p)'
  <2>1. CASE Runs(p, "drain") /\ DrainResolves(p)
    <3>1. CASE MoreBuffered(p)
      <4>1. flushing' = flushing
        BY <1>t, <2>1, <3>1 DEF DrainResolves
      <4>2. flushing[p].at # "barrier"
        BY <1>2, <2>1, ChainHeads, ChainStarts DEF ChainInv, Runs
      <4> QED
        BY <1>3, <1>7, <1>11, <1>s, <2>1, <4>1, <4>2 DEF PromiseInv, DrainResolves
    <3>2. CASE ~MoreBuffered(p)
      <4>1. flushing[p].at # "barrier"
        BY <1>2, <2>1, ChainHeads, ChainStarts DEF ChainInv, Runs
      <4>2. /\ flushing'[p].upTo \in {flushing[p].upTo, 0}
            /\ flushing'[p].at # "drain"
            /\ flushing'[p].at = "barrier" =>
                 flushing[p].at = "drain" /\ flushing'[p].upTo = flushing[p].upTo
        BY <1>t, <2>1, <3>2, <4>1 DEF DrainResolves, NoFlush
      <4>3. flushing[p].at = "drain" => flushing[p].upTo <= Len(live[p])
        BY <1>3 DEF PromiseInv
      <4>4. live'[p] = Records'
        BY <1>4, <1>11, <3>2, ConcatEmptySeq DEF MoreBuffered
      <4>5. live' = live
        BY <2>1 DEF DrainResolves
      <4> QED
        BY <1>6, <1>7, <4>2, <4>3, <4>4, <4>5 DEF PromiseInv
    <3> QED
      BY <3>1, <3>2
  <2>2. CASE Runs(p, "append") /\ AppendResolves(p)
    <3>1. flushing' = flushing
      BY <2>2 DEF AppendResolves
    <3>2. flushing[p].at # "drain"
      BY <1>2, <2>2, ChainHeads DEF ChainInv, Runs
    <3>3. flushing[p].at = "barrier" /\ state[p] = "open" => flushing[p].upTo <= handle[p].cursor
      BY <1>3 DEF PromiseInv
    <3>4. Len(Records) \in Nat /\ Len(batch[p]) \in Nat
      BY <1>s, LenProperties
    <3>5. handle[p].cursor <= handle'[p].cursor /\ handle[p].cursor \in Nat
          /\ handle'[p].cursor \in Nat
      <4> DEFINE r == Len(Records)
                 b == Len(batch[p])
      <4>1. r \in Nat /\ b \in Nat /\ handle[p].cursor = r /\ handle'[p].cursor = r + b
        BY <1>4, <1>5, <1>6, <3>4
      <4> HIDE DEF r, b
      <4> QED
        BY <4>1
    <3>6. flushing[p].at = "barrier" /\ state[p] = "open" => flushing[p].upTo <= handle'[p].cursor
      BY <1>s, <3>3, <3>5
    <3> QED
      BY <1>7, <1>9, <3>1, <3>2, <3>6 DEF PromiseInv
  <2>3. CASE Runs(p, "flush") /\ FlushEnds(p)
    <3>1. flushing'[p] = NoFlush
      BY <1>t, <2>3 DEF FlushEnds
    <3> QED
      BY <1>7, <3>1 DEF PromiseInv, NoFlush
  <2> QED
    BY <1>1, <2>1, <2>2, <2>3
<1>14. Attached(p)' /\ state'[p] # "reading"
  BY <1>3, <1>9 DEF Attached
<1> QED
  BY <1>1, <1>4, <1>8, <1>12, <1>13, <1>14 DEF DataInv

\* What is left of a frame is a file that can be read.
LEMMA RemainsInv ==
  ASSUME TypeOK, FileInv, TornAt = 0, exists', NEW s \in Seq(Event),
         frames' \in Remains(frames, s), stored' = stored, made' = made,
         Numbered(s, Len(Records)), Len(Records) + Len(s) <= made
  PROVE  /\ FileInv'
         /\ \E t \in Seq(Event) : Records' = Records \o t
<1>1. /\ made \in Nat /\ made' \in Nat /\ frames \in Seq(Frame) /\ Records \in Seq(Event)
      /\ Len(Records) \in Nat /\ Len(s) \in Nat /\ made <= made'
  <2>1. made \in Nat /\ frames \in Seq(Frame)
    BY SessionAssumption DEF TypeOK, SessionAssumption
  <2>2. Records \in Seq(Event) /\ Len(Records) \in Nat
    BY <2>1, TornFacts
  <2>3. Len(s) \in Nat
    BY LenProperties
  <2> QED
    BY <2>1, <2>2, <2>3
<1>2. ASSUME NEW fr \in Frame, frames' = Append(frames, fr),
             Numbered(fr.events, Len(Records)), Len(Records) + Len(fr.events) <= made'
      PROVE  /\ FileInv'
             /\ \E t \in Seq(Event) : Records' = Records \o t
  <2>1. FileInv' /\ Records' = Records \o fr.events
    BY <1>1, <1>2, FileGrows
  <2>2. fr.events \in Seq(Event)
    BY DEF Frame
  <2> QED
    BY <2>1, <2>2
<1>3. CASE frames' = frames
  <2>1. FileInv' /\ Records' = Records
    BY <1>1, <1>3, FileStays
  <2>2. Records \o <<>> = Records /\ <<>> \in Seq(Event)
    BY <1>1, ConcatEmptySeq, EmptySeq
  <2> QED
    BY <2>1, <2>2
<1>4. CASE frames' = Append(frames, [events |-> s, whole |-> TRUE])
  <2> DEFINE fr == [events |-> s, whole |-> TRUE]
  <2>1. fr \in Frame /\ fr.events = s
    BY DEF Frame
  <2>2. frames' = Append(frames, fr)
    BY <1>4
  <2> HIDE DEF fr
  <2> QED
    BY <1>2, <2>1, <2>2
<1>5. ASSUME NEW n \in 0 .. Len(s),
             frames' = Append(frames, [events |-> SubSeq(s, 1, n), whole |-> FALSE])
      PROVE  /\ FileInv'
             /\ \E t \in Seq(Event) : Records' = Records \o t
  <2>1. /\ SubSeq(s, 1, n) \in Seq(Event) /\ Len(SubSeq(s, 1, n)) = n
        /\ Numbered(SubSeq(s, 1, n), Len(Records))
    BY NumberedPart
  <2> DEFINE fr == [events |-> SubSeq(s, 1, n), whole |-> FALSE]
  <2>2. fr \in Frame /\ fr.events = SubSeq(s, 1, n)
    BY <2>1 DEF Frame
  <2>3. frames' = Append(frames, fr)
    BY <1>5
  <2> HIDE DEF fr
  <2>4. Numbered(fr.events, Len(Records)) /\ Len(fr.events) = n
    BY <2>1, <2>2
  <2>5. Len(Records) + n <= made'
    <3> DEFINE r == Len(Records)
               l == Len(s)
    <3>1. r \in Nat /\ l \in Nat /\ n \in 0 .. l /\ r + l <= made
      BY <1>1
    <3> HIDE DEF r, l
    <3>2. r + n <= made'
      BY <1>1, <3>1
    <3> QED
      BY <3>2 DEF r
  <2>6. Len(Records) + Len(fr.events) <= made'
    BY <2>4, <2>5
  <2> QED
    BY <1>2, <2>2, <2>3, <2>4, <2>6
<1> QED
  BY <1>3, <1>4, <1>5 DEF Remains

\* What a rejected append leaves in the file is behind the frames that the handle
\* knows.
LEMMA StaysFacts ==
  ASSUME TypeOK, FileInv, LockInv, NEW p \in Proc, Control(p), DataInv(p), AppendStays(p),
         ~handle[p].left
  PROVE  /\ FileInv' /\ HandleInv(p)' /\ Base(p)' = Base(p) /\ Owed(p)' = Owed(p)
         /\ stored' = stored /\ \E t \in Seq(Event) : Records' = Records \o t
<1>t. /\ handle \in [Proc -> Handle] /\ frames \in Seq(Frame)
      /\ batch[p] \in Seq(Event) /\ handle[p].recovered \in Seq(Event)
  BY DataTypes DEF TypeOK
<1> DEFINE s == Outgoing(p)
<1>1. /\ Rewriting(p) \/ (Writing(p) /\ handle[p].materialized)
      /\ frames' \in Remains(frames, s) /\ frames' # frames
      /\ exists' = exists /\ stored' = stored /\ made' = made
      /\ handle' = [handle EXCEPT ![p].left = TRUE]
      /\ step[p] = "mutate" /\ handle[p].torn = 0
  BY DEF AppendStays, Rewriting, Writing
<1>2. HandleInv(p)
  BY <1>1, BusyHasHandle, RunningAttached, AttachedData
<1>3. /\ TornAt = 0 /\ exists /\ handle[p].materialized /\ handle[p].lease = "held"
      /\ s \in Seq(Event) /\ Numbered(s, Len(Records)) /\ Len(Records) + Len(s) <= made
  <2>1. CASE Rewriting(p)
    BY <1>t, <2>1, RewriteFacts DEF Outgoing
  <2>2. CASE ~Rewriting(p)
    <3>1. Writing(p) /\ handle[p].materialized /\ MayWrite(p)
      BY <1>1, <2>2 DEF MayWrite
    <3> QED
      BY <1>t, <1>2, <2>2, <3>1, WritingFacts DEF Outgoing, HandleInv
  <2> QED
    BY <2>1, <2>2
<1> HIDE DEF s
<1>4. FileInv' /\ \E t \in Seq(Event) : Records' = Records \o t
  BY <1>1, <1>3, RemainsInv
<1>5. \E fr \in Frame : frames' = Append(frames, fr)
  <2>1. [events |-> s, whole |-> TRUE] \in Frame
    BY <1>3 DEF Frame
  <2>2. ASSUME NEW n \in 0 .. Len(s)
        PROVE  [events |-> SubSeq(s, 1, n), whole |-> FALSE] \in Frame
    BY <1>3, NumberedPart DEF Frame
  <2> QED
    BY <1>1, <2>1, <2>2 DEF Remains
<1>6. PICK fr \in Frame : frames' = Append(frames, fr)
  BY <1>5
<1>7. Front(frames') = frames /\ frames' # <<>> /\ frames' \in Seq(Frame)
  <2>1. AllWhole(frames)
    BY <1>t, <1>3, TornFacts
  <2>2. ASSUME NEW gs, gs = Append(frames, fr)
        PROVE  SubSeq(gs, 1, Len(gs) - 1) = frames /\ gs # <<>> /\ gs \in Seq(Frame)
    BY <1>t, <2>1, <2>2, FrameAdded
  <2>3. SubSeq(frames', 1, Len(frames') - 1) = frames /\ frames' # <<>> /\ frames' \in Seq(Frame)
    BY <1>6, <2>2
  <2> QED
    BY <2>3 DEF Front
<1>8. /\ handle'[p].left = TRUE /\ handle'[p].torn = 0
      /\ handle'[p].recovered = handle[p].recovered
      /\ handle'[p].materialized = handle[p].materialized
      /\ handle'[p].lease = handle[p].lease
  BY <1>t, <1>1 DEF Handle
<1>9. Told(p) = frames /\ Told(p)' = frames
  BY <1>7, <1>8 DEF Told
<1>10. Owed(p) = handle[p].recovered /\ Owed(p)' = handle[p].recovered
  <2>1. 0 \notin DOMAIN frames /\ 0 \notin DOMAIN frames'
    <3> DEFINE gs == frames'
    <3>1. gs \in Seq(Frame)
      BY <1>7
    <3> HIDE DEF gs
    <3>2. 0 \notin DOMAIN gs /\ 0 \notin DOMAIN frames
      BY <1>t, <3>1, ZeroOut
    <3> QED
      BY <3>2 DEF gs
  <2> QED
    BY <1>1, <1>8, <2>1 DEF Owed
<1>11. Base(p)' = Base(p)
  <2>1. Decode(Told(p))' = Decode(Told(p))
    BY <1>9 DEF Decode
  <2> QED
    BY <1>8, <1>10, <2>1 DEF Base
<1>12. HandleInv(p)'
  BY <1>1, <1>3, <1>7, <1>8 DEF HandleInv
<1> QED
  BY <1>1, <1>4, <1>10, <1>11, <1>12

\* An operation on the file that is refused or fails leaves the data alone,
\* whatever it has done to the file; a file published without its directory entry
\* made durable is nobody's yet.
LEMMA FailsData ==
  ASSUME TypeOK, FileInv, LockInv, NEW p \in Proc, Control(p), DataInv(p),
         RefuseWrite(p) \/ FileOpFails(p) \/ AppendStays(p) \/ PublishUnsynced(p),
         ~resent'
  PROVE  DataInv(p)' /\ FileInv' /\ stored' = stored
<1>t. handle \in [Proc -> Handle]
  BY DEF TypeOK
<1>1. Rejects(p) /\ made' = made /\ stored' = stored
  BY DEF RefuseWrite, FileOpFails, AppendStays, PublishUnsynced, history, counters
<1>2. step[p] = "mutate" /\ step[p] # "idle"
  BY DEF RefuseWrite, FileOpFails, AppendStays, PublishUnsynced, Truncating, Rewriting, Writing
<1>3. HandleInv(p) /\ WorkInv(p)
  BY <1>2, BusyHasHandle, RunningAttached, AttachedData DEF Control
<1>4. made \in Nat /\ made <= made'
  <2>1. made \in Nat
    BY DataTypes
  <2> QED
    BY <1>1, <2>1
<1>5. CASE RefuseWrite(p) \/ (FileOpFails(p) /\ frames' = frames)
  <2>1. frames' = frames /\ exists' = exists /\ handle' = handle
    BY <1>5 DEF RefuseWrite, FileOpFails, file
  <2>2. DataInv(p)'
    BY <1>1, <1>2, <2>1, RejectsData
  <2>3. FileInv'
    BY <1>1, <1>4, <2>1, FileStays
  <2> QED
    BY <1>1, <2>2, <2>3
<1>6. CASE FileOpFails(p) /\ frames' # frames
  <2>1. /\ Truncating(p) /\ frames' = SubSeq(frames, 1, handle[p].torn - 1)
        /\ exists' = exists /\ handle' = handle
    BY <1>6 DEF FileOpFails
  <2>2. FileInv' /\ handle[p].materialized
    BY <1>1, <1>3, <2>1, CutFacts
  <2>3. HandleInv(p)' /\ Base(p)' = Base(p)
    BY <1>1, <1>3, <2>1, CutKeeps
  <2>4. ~Runs(p, "flush")
    BY <1>2, <1>3, <2>2 DEF WorkInv
  <2>5. DataInv(p)'
    BY <1>1, <1>2, <2>1, <2>3, <2>4, RejectsKeeps
  <2> QED
    BY <1>1, <2>2, <2>5
<1>7. CASE AppendStays(p)
  <2>1. ~handle[p].left
    BY <1>7 DEF AppendStays, Resends
  <2>2. FileInv' /\ HandleInv(p)' /\ Base(p)' = Base(p) /\ Owed(p)' = Owed(p)
    BY <1>7, <2>1, StaysFacts
  <2>3. handle'[p].cursor = handle[p].cursor
    BY <1>t, <1>7 DEF AppendStays, Handle
  <2>4. DataInv(p)'
    BY <1>1, <1>2, <2>2, <2>3, RejectsKeeps
  <2> QED
    BY <1>1, <2>2, <2>4
<1>8. CASE PublishUnsynced(p)
  <2>1. /\ ~handle[p].materialized /\ ~exists /\ Writing(p) /\ exists' /\ frames' = BatchFrame(p)
        /\ handle' = handle
    BY <1>8 DEF PublishUnsynced
  <2>2. DataInv(p)'
    BY <1>1, <1>2, <2>1, RejectsData
  <2>3. MayWrite(p) /\ ~handle[p].left
    BY <1>3, <2>1 DEF MayWrite, HandleInv
  <2>4. frames' = frames \o BatchFrame(p)
    <3>1. frames = <<>>
      BY <2>1 DEF FileInv
    <3>2. BatchFrame(p) \in Seq(Frame)
      <4>1. [events |-> batch[p], whole |-> TRUE] \in Frame
        BY DataTypes DEF Frame
      <4> DEFINE fr == [events |-> batch[p], whole |-> TRUE]
      <4>2. fr \in Frame /\ BatchFrame(p) \in {<<>>, <<fr>>}
        BY <4>1 DEF BatchFrame
      <4> HIDE DEF fr
      <4>3. <<fr>> \in Seq(Frame) /\ <<>> \in Seq(Frame)
        BY <4>2
      <4> QED
        BY <4>2, <4>3
    <3>3. <<>> \o BatchFrame(p) = BatchFrame(p)
      BY <3>2, ConcatEmptySeq
    <3> QED
      BY <2>1, <3>1, <3>3
  <2>5. FileInv'
    BY <1>1, <2>1, <2>3, <2>4, BatchWritten
  <2> QED
    BY <1>1, <2>2, <2>5
<1> QED
  BY <1>5, <1>6, <1>7, <1>8

\* A crash leaves a file that can be read, and what was acknowledged in it.
LEMMA CrashFile ==
  ASSUME TypeOK, FileInv, LockInv, NEW p \in Proc, Control(p), DataInv(p), Crash(p),
         ~resent'
  PROVE  /\ FileInv' /\ stored' = stored
         /\ \/ \E t \in Seq(Event) : Records' = Records \o t
            \/ Records' = Decode(Sound) /\ TornAt # 0 /\ frames' = Sound
<1>1. stored' = stored /\ made' = made /\ made \in Nat /\ made <= made' /\ frames \in Seq(Frame)
  <2>1. stored' = stored /\ made' = made
    BY DEF Crash, history
  <2>2. made \in Nat /\ frames \in Seq(Frame)
    BY DataTypes DEF TypeOK
  <2> QED
    BY <2>1, <2>2
<1>r. Records \in Seq(Event) /\ Records \o <<>> = Records /\ <<>> \in Seq(Event)
  <2>1. Records \in Seq(Event)
    BY DataTypes
  <2> QED
    BY <2>1, ConcatEmptySeq, EmptySeq
<1>2. CASE frames' = frames /\ exists' = exists
  <2>1. FileInv' /\ Records' = Records
    BY <1>1, <1>2, FileStays
  <2> QED
    BY <1>1, <1>r, <2>1
<1>3. CASE Truncating(p) /\ frames' = SubSeq(frames, 1, handle[p].torn - 1) /\ exists' = exists
  <2>1. step[p] = "mutate"
    BY <1>3 DEF Truncating
  <2>2. HandleInv(p)
    BY <2>1, BusyHasHandle, RunningAttached, AttachedData
  <2>3. /\ FileInv'
        /\ \/ TornAt # 0 /\ Records' = Decode(Sound) /\ frames' = Sound
           \/ Records' = Records
    BY <1>1, <1>3, <2>2, CutFacts
  <2> QED
    BY <1>1, <1>r, <2>3
<1>4. CASE Rewriting(p) /\ frames' \in Remains(frames, handle[p].recovered) /\ exists' = exists
           /\ ~handle[p].left
  <2>1. /\ exists /\ TornAt = 0 /\ Numbered(handle[p].recovered, Len(Records))
        /\ Len(Records) + Len(handle[p].recovered) <= made
    BY <1>4, RewriteFacts
  <2>2. handle[p].recovered \in Seq(Event)
    BY DataTypes
  <2> QED
    BY <1>1, <1>4, <2>1, <2>2, RemainsInv
<1>5. CASE Writing(p) /\ handle[p].materialized /\ frames' \in Remains(frames, batch[p])
           /\ exists' = exists /\ ~handle[p].left
  <2>1. MayWrite(p)
    BY <1>5 DEF MayWrite
  <2>2. /\ TornAt = 0 /\ Numbered(batch[p], Len(Records))
        /\ Len(Records) + Len(batch[p]) <= made
    BY <1>5, <2>1, WritingFacts
  <2>3. step[p] = "mutate"
    BY <1>5 DEF Writing
  <2>4. exists
    BY <1>5, <2>3, BusyHasHandle, RunningAttached, AttachedData DEF HandleInv
  <2>5. batch[p] \in Seq(Event)
    BY DataTypes
  <2> QED
    BY <1>1, <1>5, <2>2, <2>4, <2>5, RemainsInv
<1>6. CASE Writing(p) /\ ~exists /\ exists' = TRUE /\ frames' = BatchFrame(p)
           /\ ~handle[p].left
  <2>1. frames = <<>> /\ MayWrite(p) /\ batch[p] \in Seq(Event)
    BY <1>6, DataTypes DEF FileInv, MayWrite
  <2>2. TornAt = 0 /\ Numbered(batch[p], Len(Records)) /\ Len(Records) + Len(batch[p]) <= made
    BY <1>6, <2>1, WritingFacts
  <2>3. CASE batch[p] = <<>>
    <3>1. frames' = frames
      BY <1>6, <2>1, <2>3 DEF BatchFrame
    <3>2. FileInv' /\ Records' = Records
      BY <1>1, <1>6, <3>1, FileStays
    <3> QED
      BY <1>1, <1>r, <3>2
  <2>4. CASE batch[p] # <<>>
    <3> DEFINE fr == [events |-> batch[p], whole |-> TRUE]
    <3>1. fr \in Frame /\ frames' = <<fr>>
      BY <1>6, <2>1, <2>4 DEF BatchFrame, Frame
    <3>2. frames' \in Remains(frames, batch[p])
      <4>1. Append(frames, fr) \in Remains(frames, batch[p])
        BY DEF Remains
      <4> HIDE DEF fr
      <4>2. Append(frames, fr) = <<fr>>
        BY <2>1, Tuples
      <4> QED
        BY <3>1, <4>1, <4>2
    <3> QED
      BY <1>1, <1>6, <2>1, <2>2, <3>2, RemainsInv
  <2> QED
    BY <2>3, <2>4
<1>7. \/ frames' = frames /\ exists' = exists
      \/ ~handle[p].left
         /\ \/ Truncating(p) /\ frames' = SubSeq(frames, 1, handle[p].torn - 1)
               /\ exists' = exists
            \/ Rewriting(p) /\ frames' \in Remains(frames, handle[p].recovered)
               /\ exists' = exists
            \/ Writing(p) /\ handle[p].materialized /\ frames' \in Remains(frames, batch[p])
               /\ exists' = exists
            \/ Writing(p) /\ ~exists /\ exists' = TRUE /\ frames' = BatchFrame(p)
      \/ Writing(p) /\ ~exists /\ exists' = TRUE /\ frames' = BatchFrame(p) /\ ~handle[p].left
  <2>1. CASE frames' = frames /\ exists' = exists
    BY <2>1
  <2>2. CASE frames' # frames
    <3>1. ~handle[p].left
      BY <2>2 DEF Crash, Resends
    <3>2. Outgoing(p) = IF Rewriting(p) THEN handle[p].recovered ELSE batch[p]
      BY DEF Outgoing
    <3>3. Writing(p) => ~Rewriting(p)
      BY DEF Writing, Rewriting
    <3> QED
      BY <2>2, <3>1, <3>2, <3>3 DEF Crash, file
  <2>3. CASE frames' = frames /\ exists' # exists
    <3>1. Writing(p) /\ ~handle[p].materialized /\ ~exists /\ exists' = TRUE
          /\ frames' = BatchFrame(p)
      BY <2>3 DEF Crash, file
    <3>2. step[p] = "mutate"
      BY <3>1 DEF Writing
    <3>3. ~handle[p].left
      BY <3>1, <3>2, BusyHasHandle, RunningAttached, AttachedData DEF HandleInv
    <3> QED
      BY <3>1, <3>3
  <2> QED
    BY <2>1, <2>2, <2>3
<1> QED
  BY <1>2, <1>3, <1>4, <1>5, <1>6, <1>7

-----------------------------------------------------------------------------
(* Every step, for the process that takes it and for the others.             *)

\* The steps that do not touch the file.
Leave(p) == \/ Create(p) \/ OpenWrite(p) \/ GoLive(p) \/ Publish(p) \/ AppendSeed(p)
            \/ Timer(p) \/ Flush(p) \/ Close(p) \/ ReadLog(p) \/ RefuseOpen(p)
            \/ BeginDrain(p) \/ BeginAppend(p) \/ BeginFlush(p) \/ TakeLease(p)
            \/ CloseLoops(p) \/ CloseLetsGo(p) \/ Release(p) \/ StrayEnds(p)

\* And those that may.
Touch(p) == \/ TruncateTail(p) \/ RewriteTail(p) \/ WriteBatch(p) \/ RefuseWrite(p)
            \/ FileOpFails(p) \/ AppendStays(p) \/ PublishUnsynced(p) \/ Crash(p)

\* The first leave the file and what has been acknowledged as they are.
LEMMA LeaveFile ==
  ASSUME NEW p \in Proc, Leave(p)
  PROVE  /\ frames' = frames /\ exists' = exists /\ stored' = stored
         /\ made' = made \/ (made < MaxEvents /\ made' = made + 1)
  BY DEF Leave, Create, OpenWrite, GoLive, Publish, AppendSeed, Timer, Flush, Close, ReadLog,
         RefuseOpen, BeginDrain, BeginAppend, BeginFlush, TakeLease, CloseLoops, CloseLetsGo,
         Release, StrayEnds, file, history, counters

\* The second are those of a running operation, crashes apart, and they count no
\* event.
LEMMA TouchFile ==
  ASSUME NEW p \in Proc, Touch(p)
  PROVE  /\ made' = made /\ (exists => exists')
         /\ frames' # frames => step[p] = "mutate"
<1>1. CASE TruncateTail(p)
  BY <1>1 DEF TruncateTail, Truncating, counters
<1>2. CASE RewriteTail(p)
  BY <1>2 DEF RewriteTail, Rewriting, counters
<1>3. CASE WriteBatch(p)
  BY <1>3 DEF WriteBatch, Writing, counters
<1>4. CASE RefuseWrite(p) \/ FileOpFails(p) \/ AppendStays(p)
  BY <1>4 DEF RefuseWrite, FileOpFails, AppendStays, Truncating, Rewriting, Writing,
              file, counters
<1>5. CASE PublishUnsynced(p)
  BY <1>5 DEF PublishUnsynced, Writing
<1>6. CASE Crash(p)
  <2>1. made' = made
    BY <1>6 DEF Crash
  <2>2. CASE step[p] # "mutate"
    BY <1>6, <2>2 DEF Crash, Truncating, Rewriting, Writing, file
  <2>3. exists => exists'
    BY <1>6 DEF Crash, file
  <2> QED
    BY <2>1, <2>2, <2>3
<1> QED
  BY <1>1, <1>2, <1>3, <1>4, <1>5, <1>6 DEF Touch

\* No process does anything else.
LEMMA LeaveOrTouch ==
  ASSUME NEW p \in Proc
  PROVE  Acts(p) <=> Leave(p) \/ Touch(p)
  BY DEF Acts, Leave, Touch, Proceeds

\* Every step keeps the invariant of the file.
LEMMA ActsFile ==
  ASSUME TypeOK, FileInv, LockInv, NEW p \in Proc, Control(p), DataInv(p), Acts(p),
         ~resent'
  PROVE  FileInv'
<1>1. CASE Leave(p)
  <2>1. made \in Nat
    BY DataTypes
  <2>2. /\ frames' = frames /\ exists' = exists /\ stored' = stored
        /\ made' = made \/ made' = made + 1
    BY <1>1, LeaveFile
  <2>3. made <= made' /\ made' \in Nat
    BY <2>1, <2>2
  <2> QED
    BY <2>2, <2>3, FileStays
<1>2. CASE TruncateTail(p)
  BY <1>2, TruncateData
<1>3. CASE RewriteTail(p)
  BY <1>3, RewriteData
<1>4. CASE WriteBatch(p)
  BY <1>4, WriteData
<1>5. CASE RefuseWrite(p) \/ FileOpFails(p) \/ AppendStays(p) \/ PublishUnsynced(p)
  BY <1>5, FailsData
<1>6. CASE Crash(p)
  BY <1>6, CrashFile
<1> QED
  BY <1>1, <1>2, <1>3, <1>4, <1>5, <1>6, LeaveOrTouch DEF Touch

\* And the data of the process that takes it.
LEMMA ActsData ==
  ASSUME TypeOK, FileInv, LockInv, NEW p \in Proc, Control(p), DataInv(p), Acts(p),
         ~resent'
  PROVE  DataInv(p)'
<1>1. CASE Create(p) \/ OpenWrite(p) \/ ReadLog(p)
  BY <1>1, OpeningData
<1>2. CASE GoLive(p) \/ CloseLetsGo(p)
  BY <1>2, MarksData
<1>3. CASE Publish(p)
  BY <1>3, PublishData
<1>4. CASE AppendSeed(p)
  BY <1>4, AppendSeedData
<1>5. CASE Timer(p) \/ Close(p) \/ CloseLoops(p)
  BY <1>5, AsksData
<1>6. CASE Flush(p)
  BY <1>6, FlushData
<1>7. CASE BeginDrain(p) \/ BeginAppend(p) \/ BeginFlush(p) \/ TakeLease(p)
  BY <1>7, BeginsData
<1>8. CASE Release(p) \/ RefuseOpen(p) \/ StrayEnds(p) \/ Crash(p)
  BY <1>8, EndsData
<1>9. CASE TruncateTail(p)
  BY <1>9, TruncateData
<1>10. CASE RewriteTail(p)
  BY <1>10, RewriteData
<1>11. CASE WriteBatch(p)
  BY <1>11, WriteData
<1>12. CASE RefuseWrite(p) \/ FileOpFails(p) \/ AppendStays(p) \/ PublishUnsynced(p)
  BY <1>12, FailsData
<1> QED
  BY <1>1, <1>2, <1>3, <1>4, <1>5, <1>6, <1>7, <1>8, <1>9, <1>10, <1>11, <1>12
     DEF Acts, Proceeds

\* And the data of the others: whoever changes the file holds the lock, and then
\* they have written nothing.
LEMMA OthersData ==
  ASSUME TypeOK, FileInv, LockInv, NEW p \in Proc, Control(p), Acts(p),
         NEW q \in Proc, q # p, DataInv(q), exists' \in BOOLEAN
  PROVE  DataInv(q)'
<1>1. made \in Nat
  BY DataTypes
<1>2. made <= made' /\ made' \in Nat /\ (exists => exists')
  BY <1>1, LeaveFile, TouchFile, LeaveOrTouch
<1>3. ASSUME Attached(q), handle[q].materialized, frames' # frames
      PROVE  FALSE
  <2>1. step[p] = "mutate"
    BY <1>3, LeaveFile, TouchFile, LeaveOrTouch
  <2>2. chain[p] # <<>>
    BY <2>1, BusyHasHandle
  <2>3. owner = p
    BY <2>1, <2>2, RunningAttached
  <2> QED
    BY <1>3, <2>3, OthersUnwritten
<1>4. Same(q)
  BY OthersSame
<1> QED
  BY <1>2, <1>3, <1>4, SameData

\* The first elements of a sequence are a sequence.
LEMMA PrefixType ==
  ASSUME NEW S, NEW s \in Seq(S), NEW n \in 0 .. Len(s)
  PROVE  SubSeq(s, 1, n) \in Seq(S) /\ Len(SubSeq(s, 1, n)) = n
<1> DEFINE u == SubSeq(s, 1, n)
<1>1. Len(s) \in Nat
  BY LenProperties
<1>2. \A i \in 1 .. n : s[i] \in S
  BY <1>1, ElementOfSeq
<1>3. 1 \in Int /\ n \in Int /\ (1 <= n \/ n = 0)
  BY <1>1
<1>4. u \in Seq(S) /\ Len(u) = IF 1 <= n THEN n - 1 + 1 ELSE 0
  BY <1>2, <1>3, SubSeqProperties
<1> HIDE DEF u
<1>5. u \in Seq(S) /\ Len(u) = n
  BY <1>3, <1>4
<1> QED
  BY <1>5 DEF u

\* The first elements of two sequences put together are those of the first.
LEMMA PrefixOfConcat ==
  ASSUME NEW S, NEW a \in Seq(S), NEW b \in Seq(S), NEW n \in 0 .. Len(a)
  PROVE  /\ SubSeq(a \o b, 1, n) = SubSeq(a, 1, n)
         /\ SubSeq(a \o b, 1, Len(a)) = a
<1>1. /\ a \o b \in Seq(S) /\ Len(a \o b) = Len(a) + Len(b)
      /\ Len(a) \in Nat /\ Len(b) \in Nat
      /\ \A i \in 1 .. Len(a) : (a \o b)[i] = a[i]
  <2>1. /\ a \o b \in Seq(S) /\ Len(a \o b) = Len(a) + Len(b)
        /\ \A i \in 1 .. Len(a) + Len(b) :
             (a \o b)[i] = IF i <= Len(a) THEN a[i] ELSE b[i - Len(a)]
    BY ConcatProperties
  <2>2. Len(a) \in Nat /\ Len(b) \in Nat
    BY LenProperties
  <2>3. \A i \in 1 .. Len(a) : i \in 1 .. Len(a) + Len(b) /\ i <= Len(a)
    BY <2>2
  <2> QED
    BY <2>1, <2>2, <2>3
<1>2. ASSUME NEW m \in 0 .. Len(a), NEW c \in Seq(S), \A i \in 1 .. Len(a) : c[i] = a[i]
      PROVE  /\ SubSeq(c, 1, m) = [i \in 1 .. m |-> a[i]]
  <2>1. SubSeq(c, 1, m) = [i \in 1 .. (1 + m - 1) |-> c[i + 1 - 1]]
    OBVIOUS
  <2>2. 1 + m - 1 = m /\ \A i \in 1 .. m : i + 1 - 1 = i /\ i \in 1 .. Len(a)
    BY <1>1
  <2> QED
    BY <1>2, <2>1, <2>2
<1>3. ASSUME NEW m \in 0 .. Len(a) PROVE SubSeq(a \o b, 1, m) = SubSeq(a, 1, m)
  BY <1>1, <1>2
<1>4. SubSeq(a, 1, Len(a)) = a
  BY SubSeqFull
<1>5. Len(a) \in 0 .. Len(a)
  BY <1>1
<1> QED
  BY <1>3, <1>4, <1>5

-----------------------------------------------------------------------------
(* The types.                                                                *)

\* The types of what a process remembers, but for its handle.
MemoryOK ==
  /\ state \in [Proc -> {"shut", "reading", "open", "closing", "releasing", "stray"}]
  /\ live \in [Proc -> Seq(Event)] /\ on \in [Proc -> BOOLEAN]
  /\ buffer \in [Proc -> Buffer]
  /\ chain \in [Proc -> Seq(Op)] /\ batch \in [Proc -> Seq(Event)]
  /\ step \in [Proc -> {"idle", "lease", "mutate"}]
  /\ closer \in [Proc -> [at : {"no", "drain", "failed", "chain", "last"}, ahead : Nat]]
  /\ flushing \in [Proc -> [at : {"no", "drain", "barrier"}, upTo : Nat]]

\* The types of the rest.
SharedOK ==
  /\ exists \in BOOLEAN /\ frames \in Seq(Frame) /\ owner \in Proc \cup {NoProc}
  /\ handle \in [Proc -> Handle]
  /\ stored \in Nat /\ promised \in Seq(Event) /\ resent \in BOOLEAN
  /\ made \in 0 .. MaxEvents /\ faults \in 0 .. MaxFaults
  /\ crashes \in 0 .. MaxCrashes /\ opens \in 0 .. MaxOpens

\* Together they are all the types.
LEMMA TypeParts == /\ TypeOK <=> MemoryOK /\ SharedOK
                   /\ TypeOK' <=> MemoryOK' /\ SharedOK'
  BY DEF TypeOK, MemoryOK, SharedOK

\* The buffer is a record of its type whatever is put in its places.
LEMMA BufferParts ==
  ASSUME NEW b \in Buffer
  PROVE  /\ b.events \in Seq(Event) /\ b.timer \in BOOLEAN /\ b.paused \in BOOLEAN
         /\ b.draining \in BOOLEAN
         /\ \A s \in Seq(Event) : [b EXCEPT !.events = s] \in Buffer
         /\ \A t \in BOOLEAN : [b EXCEPT !.timer = t] \in Buffer
         /\ \A t \in BOOLEAN : [b EXCEPT !.draining = t] \in Buffer
         /\ [b EXCEPT !.timer = FALSE, !.paused = FALSE] \in Buffer
         /\ \A t \in BOOLEAN :
              [b EXCEPT !.timer = FALSE, !.paused = FALSE, !.draining = t] \in Buffer
         /\ \A s \in Seq(Event) :
              [b EXCEPT !.events = s, !.paused = TRUE, !.draining = FALSE] \in Buffer
         /\ \A s \in Seq(Event), t \in BOOLEAN :
              [b EXCEPT !.events = s, !.timer = t] \in Buffer
<1>1. b.events \in Seq(Event)
  BY DEF Buffer
<1>2. b.timer \in BOOLEAN /\ b.paused \in BOOLEAN /\ b.draining \in BOOLEAN
  BY DEF Buffer
<1>3. \A s \in Seq(Event) : [b EXCEPT !.events = s] \in Buffer
  BY DEF Buffer
<1>4. \A t \in BOOLEAN : [b EXCEPT !.timer = t] \in Buffer
  BY DEF Buffer
<1>5. \A t \in BOOLEAN : [b EXCEPT !.draining = t] \in Buffer
  BY DEF Buffer
<1>6. [b EXCEPT !.timer = FALSE, !.paused = FALSE] \in Buffer
  BY DEF Buffer
<1>7. \A t \in BOOLEAN :
        [b EXCEPT !.timer = FALSE, !.paused = FALSE, !.draining = t] \in Buffer
  BY DEF Buffer
<1>8. \A s \in Seq(Event) :
        [b EXCEPT !.events = s, !.paused = TRUE, !.draining = FALSE] \in Buffer
  BY DEF Buffer
<1>9. \A s \in Seq(Event), t \in BOOLEAN : [b EXCEPT !.events = s, !.timer = t] \in Buffer
  BY DEF Buffer
<1> QED
  BY <1>1, <1>2, <1>3, <1>4, <1>5, <1>6, <1>7, <1>8, <1>9

\* A drain that is asked for.
LEMMA DrainsTypes ==
  ASSUME MemoryOK, NEW p \in Proc, Drains(p)
  PROVE  buffer' \in [Proc -> Buffer] /\ chain' \in [Proc -> Seq(Op)]
<1>1. /\ buffer \in [Proc -> Buffer] /\ chain \in [Proc -> Seq(Op)]
      /\ chain[p] \in Seq(Op) /\ buffer[p] \in Buffer
  BY DEF MemoryOK
<1>2. CASE Busy(p)
  BY <1>1, <1>2 DEF Drains
<1>3. CASE ~Busy(p)
  <2> DEFINE some == buffer[p].events # <<>>
             b == [buffer[p] EXCEPT !.timer = FALSE, !.paused = FALSE, !.draining = some]
             c == IF some THEN Append(chain[p], "drain") ELSE chain[p]
  <2>1. buffer' = [buffer EXCEPT ![p] = b] /\ chain' = [chain EXCEPT ![p] = c]
    BY <1>1, <1>3 DEF Drains
  <2>2. some \in BOOLEAN
    OBVIOUS
  <2>3. "drain" \in Op
    BY DEF Op
  <2>4. c \in Seq(Op)
    BY <1>1, <2>3, AppendProperties
  <2> HIDE DEF some
  <2>5. b \in Buffer
    BY <1>1, <2>2, BufferParts
  <2> HIDE DEF b, c
  <2> QED
    BY <1>1, <2>1, <2>4, <2>5
<1> QED
  BY <1>2, <1>3

\* An operation that leaves the chain.
LEMMA LeavesTypes ==
  ASSUME MemoryOK, NEW p \in Proc, NEW more \in Seq(Op), chain[p] # <<>>, Leaves(p, more)
  PROVE  /\ chain' \in [Proc -> Seq(Op)] /\ batch' \in [Proc -> Seq(Event)]
         /\ step' \in [Proc -> {"idle", "lease", "mutate"}]
<1>1. /\ chain \in [Proc -> Seq(Op)] /\ batch \in [Proc -> Seq(Event)]
      /\ step \in [Proc -> {"idle", "lease", "mutate"}]
      /\ chain[p] \in Seq(Op) /\ <<>> \in Seq(Event)
  BY EmptySeq DEF MemoryOK
<1> DEFINE c == Tail(chain[p]) \o more
<1>2. Tail(chain[p]) \in Seq(Op)
  BY <1>1, HeadTailProperties
<1>3. c \in Seq(Op)
  BY <1>2, ConcatProperties
<1>4. /\ chain' = [chain EXCEPT ![p] = c]
      /\ step' = [step EXCEPT ![p] = "idle"] /\ batch' = [batch EXCEPT ![p] = <<>>]
  BY <1>1 DEF Leaves
<1> HIDE DEF c
<1> QED
  BY <1>1, <1>3, <1>4

\* What close() waits for is a number, of the operations behind the running one too.
LEMMA CloserParts ==
  ASSUME MemoryOK, NEW p \in Proc
  PROVE  /\ Nearer(closer[p]) \in [at : {"no", "drain", "failed", "chain", "last"}, ahead : Nat]
         /\ chain[p] # <<>> => Len(chain[p]) - 1 \in Nat
         /\ Len(chain[p]) \in Nat
         /\ NotClosing \in [at : {"no", "drain", "failed", "chain", "last"}, ahead : Nat]
         /\ NoFlush \in [at : {"no", "drain", "barrier"}, upTo : Nat]
<1>1. /\ closer[p] \in [at : {"no", "drain", "failed", "chain", "last"}, ahead : Nat]
      /\ chain[p] \in Seq(Op)
  BY DEF MemoryOK
<1>2. Len(chain[p]) \in Nat /\ (chain[p] # <<>> => Len(chain[p]) - 1 \in Nat)
  BY <1>1, EmptySeq, LenProperties
<1>3. Nearer(closer[p]) \in [at : {"no", "drain", "failed", "chain", "last"}, ahead : Nat]
  <2>1. closer[p].ahead \in Nat /\ (closer[p].ahead # 0 => closer[p].ahead - 1 \in Nat)
    BY <1>1
  <2> QED
    BY <1>1, <2>1 DEF Nearer
<1> QED
  BY <1>2, <1>3 DEF NotClosing, NoFlush

\* A drained batch.
LEMMA DrainResolvesTypes ==
  ASSUME MemoryOK, NEW p \in Proc, chain[p] # <<>>, DrainResolves(p)
  PROVE  MemoryOK'
<1>1. /\ buffer[p] \in Buffer /\ buffer \in [Proc -> Buffer]
      /\ closer \in [Proc -> [at : {"no", "drain", "failed", "chain", "last"}, ahead : Nat]]
      /\ flushing \in [Proc -> [at : {"no", "drain", "barrier"}, upTo : Nat]]
      /\ flushing[p] \in [at : {"no", "drain", "barrier"}, upTo : Nat]
  BY DEF MemoryOK
<1>2. <<"drain">> \in Seq(Op) /\ <<"flush">> \in Seq(Op) /\ <<>> \in Seq(Op)
  BY DEF Op
<1>3. /\ chain' \in [Proc -> Seq(Op)] /\ batch' \in [Proc -> Seq(Event)]
      /\ step' \in [Proc -> {"idle", "lease", "mutate"}]
  <2>1. \E more \in Seq(Op) : Leaves(p, more)
    BY <1>2 DEF DrainResolves
  <2> QED
    BY <2>1, LeavesTypes
<1>4. buffer' \in [Proc -> Buffer]
  <2> DEFINE m == MoreBuffered(p)
             b == [buffer[p] EXCEPT !.draining = m]
  <2>1. m \in BOOLEAN
    BY DEF MoreBuffered
  <2>2. buffer' = [buffer EXCEPT ![p] = b]
    BY <1>1 DEF DrainResolves
  <2> HIDE DEF m
  <2>3. b \in Buffer
    BY <1>1, <2>1, BufferParts
  <2> HIDE DEF b
  <2> QED
    BY <1>1, <2>2, <2>3
<1>5. flushing' \in [Proc -> [at : {"no", "drain", "barrier"}, upTo : Nat]]
  <2>1. \E f \in [at : {"no", "drain", "barrier"}, upTo : Nat] :
          flushing' = [flushing EXCEPT ![p] = f]
    <3>1. \/ flushing' = [flushing EXCEPT ![p] = flushing[p]]
          \/ flushing' = [flushing EXCEPT ![p] = [flushing[p] EXCEPT !.at = "barrier"]]
          \/ flushing' = [flushing EXCEPT ![p] = NoFlush]
      BY <1>1 DEF DrainResolves
    <3>2. [flushing[p] EXCEPT !.at = "barrier"] \in [at : {"no", "drain", "barrier"}, upTo : Nat]
      BY <1>1
    <3> QED
      BY <1>1, <3>1, <3>2, CloserParts
  <2> QED
    BY <1>1, <2>1
<1>6. closer' \in [Proc -> [at : {"no", "drain", "failed", "chain", "last"}, ahead : Nat]]
  <2>1. \/ closer' = [closer EXCEPT ![p] = [at |-> "chain", ahead |-> Len(chain[p]) - 1]]
        \/ closer' = [closer EXCEPT ![p] = Nearer(closer[p])]
    BY <1>1 DEF DrainResolves
  <2>2. /\ Nearer(closer[p]) \in [at : {"no", "drain", "failed", "chain", "last"}, ahead : Nat]
        /\ Len(chain[p]) - 1 \in Nat
    BY CloserParts
  <2> QED
    BY <1>1, <2>1, <2>2
<1>7. state' = state /\ live' = live /\ on' = on
  BY DEF DrainResolves
<1> QED
  BY <1>3, <1>4, <1>5, <1>6, <1>7 DEF MemoryOK

\* A refused or failed operation, and those that end well.
LEMMA EndsTypes ==
  ASSUME MemoryOK, NEW p \in Proc, chain[p] # <<>>,
         \/ DrainResolves(p) \/ DrainRejects(p) \/ AppendResolves(p)
         \/ AppendRejects(p) \/ FlushEnds(p)
  PROVE  MemoryOK'
<1>1. /\ buffer[p] \in Buffer /\ buffer \in [Proc -> Buffer]
      /\ closer \in [Proc -> [at : {"no", "drain", "failed", "chain", "last"}, ahead : Nat]]
      /\ flushing \in [Proc -> [at : {"no", "drain", "barrier"}, upTo : Nat]]
      /\ live \in [Proc -> Seq(Event)] /\ batch[p] \in Seq(Event) /\ live[p] \in Seq(Event)
      /\ state \in [Proc -> {"shut", "reading", "open", "closing", "releasing", "stray"}]
      /\ on \in [Proc -> BOOLEAN]
  BY DEF MemoryOK
<1>2. /\ Nearer(closer[p]) \in [at : {"no", "drain", "failed", "chain", "last"}, ahead : Nat]
      /\ Len(chain[p]) - 1 \in Nat
      /\ NoFlush \in [at : {"no", "drain", "barrier"}, upTo : Nat]
  BY CloserParts
<1>3. ASSUME Leaves(p, <<>>)
      PROVE  /\ chain' \in [Proc -> Seq(Op)] /\ batch' \in [Proc -> Seq(Event)]
             /\ step' \in [Proc -> {"idle", "lease", "mutate"}]
  BY <1>3, EmptySeq, LeavesTypes
<1>4. CASE DrainResolves(p)
  BY <1>4, DrainResolvesTypes
<1>5. CASE DrainRejects(p)
  <2>1. buffer' \in [Proc -> Buffer]
    <3> DEFINE e == batch[p] \o buffer[p].events
               b == [buffer[p] EXCEPT !.events = e, !.paused = TRUE, !.draining = FALSE]
    <3>1. buffer' = [buffer EXCEPT ![p] = b]
      BY <1>1, <1>5 DEF DrainRejects, Retained
    <3>2. e \in Seq(Event)
      BY <1>1, BufferParts, ConcatProperties
    <3> HIDE DEF e
    <3>3. b \in Buffer
      BY <1>1, <3>2, BufferParts
    <3> HIDE DEF b
    <3> QED
      BY <1>1, <3>1, <3>3
  <2>2. flushing' \in [Proc -> [at : {"no", "drain", "barrier"}, upTo : Nat]]
    BY <1>1, <1>2, <1>5 DEF DrainRejects
  <2>3. closer' \in [Proc -> [at : {"no", "drain", "failed", "chain", "last"}, ahead : Nat]]
    BY <1>1, <1>2, <1>5 DEF DrainRejects, GoesOn
  <2>4. state' = state /\ live' = live /\ on' = on /\ Leaves(p, <<>>)
    BY <1>5 DEF DrainRejects
  <2> QED
    BY <1>1, <1>3, <2>1, <2>2, <2>3, <2>4 DEF MemoryOK
<1>6. CASE AppendResolves(p)
  <2>1. live' \in [Proc -> Seq(Event)]
    <3>1. live[p] \o batch[p] \in Seq(Event)
      BY <1>1, ConcatProperties
    <3> QED
      BY <1>1, <1>6, <3>1 DEF AppendResolves
  <2>2. closer' \in [Proc -> [at : {"no", "drain", "failed", "chain", "last"}, ahead : Nat]]
    BY <1>1, <1>2, <1>6 DEF AppendResolves
  <2>3. /\ state' = state /\ on' = on /\ buffer' = buffer /\ flushing' = flushing
        /\ Leaves(p, <<>>)
    BY <1>6 DEF AppendResolves
  <2> QED
    BY <1>1, <1>3, <2>1, <2>2, <2>3 DEF MemoryOK
<1>7. CASE AppendRejects(p)
  <2>1. closer' \in [Proc -> [at : {"no", "drain", "failed", "chain", "last"}, ahead : Nat]]
    BY <1>1, <1>2, <1>7 DEF AppendRejects
  <2>2. state' \in [Proc -> {"shut", "reading", "open", "closing", "releasing", "stray"}]
    BY <1>1, <1>7 DEF AppendRejects
  <2>3. /\ live' = live /\ on' = on /\ buffer' = buffer /\ flushing' = flushing
        /\ Leaves(p, <<>>)
    BY <1>7 DEF AppendRejects
  <2> QED
    BY <1>1, <1>3, <2>1, <2>2, <2>3 DEF MemoryOK
<1>8. CASE FlushEnds(p)
  <2>1. closer' \in [Proc -> [at : {"no", "drain", "failed", "chain", "last"}, ahead : Nat]]
    BY <1>1, <1>2, <1>8 DEF FlushEnds
  <2>2. flushing' \in [Proc -> [at : {"no", "drain", "barrier"}, upTo : Nat]]
    BY <1>1, <1>2, <1>8 DEF FlushEnds
  <2>3. /\ state' = state /\ live' = live /\ on' = on /\ buffer' = buffer
        /\ Leaves(p, <<>>)
    BY <1>8 DEF FlushEnds
  <2> QED
    BY <1>1, <1>3, <2>1, <2>2, <2>3 DEF MemoryOK
<1> QED
  BY <1>4, <1>5, <1>6, <1>7, <1>8

\* A process that keeps nothing.
LEMMA ForgetsTypes ==
  ASSUME TypeOK, NEW p \in Proc, Forgets(p)
  PROVE  MemoryOK' /\ handle' \in [Proc -> Handle]
<1>1. <<>> \in Seq(Event) /\ <<>> \in Seq(Op)
  BY EmptySeq
<1>2. NoHandle \in Handle /\ NoBuffer \in Buffer
  BY <1>1 DEF NoHandle, NoBuffer, Handle, Buffer
<1> QED
  BY <1>1, <1>2 DEF Forgets, TypeOK, MemoryOK, NotClosing, NoFlush

\* The asking steps and the marks.
LEMMA AskTypes ==
  ASSUME TypeOK, NEW p \in Proc,
         Timer(p) \/ Flush(p) \/ Close(p) \/ CloseLoops(p)
  PROVE  MemoryOK'
<1>0. MemoryOK
  BY TypeParts
<1>1. /\ buffer[p] \in Buffer /\ buffer \in [Proc -> Buffer]
      /\ closer \in [Proc -> [at : {"no", "drain", "failed", "chain", "last"}, ahead : Nat]]
      /\ flushing \in [Proc -> [at : {"no", "drain", "barrier"}, upTo : Nat]]
      /\ chain \in [Proc -> Seq(Op)] /\ chain[p] \in Seq(Op) /\ live[p] \in Seq(Event)
      /\ state \in [Proc -> {"shut", "reading", "open", "closing", "releasing", "stray"}]
      /\ on \in [Proc -> BOOLEAN] /\ on[p] \in BOOLEAN
  BY <1>0 DEF MemoryOK
<1>2. Len(chain[p]) \in Nat /\ Len(live[p]) \in Nat
  BY <1>1, LenProperties
<1>3. ASSUME Drains(p)
      PROVE  buffer' \in [Proc -> Buffer] /\ chain' \in [Proc -> Seq(Op)]
  BY <1>0, <1>3, DrainsTypes
<1>4. CASE Timer(p)
  <2>1. buffer' \in [Proc -> Buffer] /\ chain' \in [Proc -> Seq(Op)]
    <3>1. CASE Busy(p)
      <4> DEFINE b == [buffer[p] EXCEPT !.timer = FALSE]
      <4>1. buffer' = [buffer EXCEPT ![p] = b] /\ chain' = chain
        BY <1>1, <1>4, <3>1 DEF Timer
      <4>2. b \in Buffer
        BY <1>1, BufferParts
      <4> HIDE DEF b
      <4> QED
        BY <1>1, <4>1, <4>2
    <3>2. CASE ~Busy(p)
      BY <1>3, <1>4, <3>2 DEF Timer
    <3> QED
      BY <3>1, <3>2
  <2>2. /\ state' = state /\ live' = live /\ on' = on /\ batch' = batch /\ step' = step
        /\ closer' = closer /\ flushing' = flushing
    BY <1>4 DEF Timer
  <2> QED
    BY <1>0, <2>1, <2>2 DEF MemoryOK
<1>5. CASE Flush(p)
  <2>1. buffer' \in [Proc -> Buffer] /\ chain' \in [Proc -> Seq(Op)]
    <3>1. CASE buffer[p].events = <<>> /\ ~Busy(p)
      <4> DEFINE b == [buffer[p] EXCEPT !.timer = FALSE, !.paused = FALSE]
                 c == Append(chain[p], "flush")
      <4>1. buffer' = [buffer EXCEPT ![p] = b] /\ chain' = [chain EXCEPT ![p] = c]
        BY <1>1, <1>5, <3>1 DEF Flush
      <4>2. b \in Buffer
        BY <1>1, BufferParts
      <4>3. "flush" \in Op
        BY DEF Op
      <4>4. c \in Seq(Op)
        BY <1>1, <4>3, AppendProperties
      <4> HIDE DEF b, c
      <4> QED
        BY <1>1, <4>1, <4>2, <4>4
    <3>2. CASE ~(buffer[p].events = <<>> /\ ~Busy(p))
      BY <1>3, <1>5, <3>2 DEF Flush
    <3> QED
      BY <3>1, <3>2
  <2>2. flushing' \in [Proc -> [at : {"no", "drain", "barrier"}, upTo : Nat]]
    <3> DEFINE n == Len(live[p])
    <3>1. \E w \in {"barrier", "drain"} :
            flushing' = [flushing EXCEPT ![p] = [at |-> w, upTo |-> n]]
      BY <1>5 DEF Flush
    <3>2. n \in Nat
      BY <1>2
    <3> HIDE DEF n
    <3> QED
      BY <1>1, <3>1, <3>2
  <2>3. /\ state' = state /\ live' = live /\ on' = on /\ batch' = batch /\ step' = step
        /\ closer' = closer
    BY <1>5 DEF Flush
  <2> QED
    BY <1>0, <2>1, <2>2, <2>3 DEF MemoryOK
<1>6. CASE Close(p)
  <2>1. buffer' \in [Proc -> Buffer] /\ chain' \in [Proc -> Seq(Op)]
    BY <1>3, <1>6 DEF Close
  <2>2. closer' \in [Proc -> [at : {"no", "drain", "failed", "chain", "last"}, ahead : Nat]]
    BY <1>1, <1>2, <1>6 DEF Close
  <2>3. on' \in [Proc -> BOOLEAN]
    BY <1>1, <1>6 DEF Close
  <2>4. state' \in [Proc -> {"shut", "reading", "open", "closing", "releasing", "stray"}]
    BY <1>1, <1>6 DEF Close
  <2>5. /\ live' = live /\ batch' = batch /\ step' = step /\ flushing' = flushing
    BY <1>6 DEF Close
  <2> QED
    BY <1>0, <2>1, <2>2, <2>3, <2>4, <2>5 DEF MemoryOK
<1>7. CASE CloseLoops(p)
  <2>1. buffer' \in [Proc -> Buffer] /\ chain' \in [Proc -> Seq(Op)]
    BY <1>1, <1>3, <1>7 DEF CloseLoops
  <2>2. closer' \in [Proc -> [at : {"no", "drain", "failed", "chain", "last"}, ahead : Nat]]
    <3> DEFINE n == Len(chain[p])
    <3>1. \/ closer' = [closer EXCEPT ![p] = [at |-> "last", ahead |-> n]]
          \/ closer' = [closer EXCEPT ![p] = [at |-> "drain", ahead |-> 0]]
      BY <1>7 DEF CloseLoops
    <3>2. n \in Nat
      BY <1>2
    <3> HIDE DEF n
    <3>3. CASE closer' = [closer EXCEPT ![p] = [at |-> "last", ahead |-> n]]
      BY <1>1, <3>2, <3>3
    <3>4. CASE closer' = [closer EXCEPT ![p] = [at |-> "drain", ahead |-> 0]]
      BY <1>1, <3>4
    <3> QED
      BY <3>1, <3>3, <3>4
  <2>3. /\ state' = state /\ live' = live /\ on' = on /\ batch' = batch /\ step' = step
        /\ flushing' = flushing
    BY <1>7 DEF CloseLoops
  <2> QED
    BY <1>0, <2>1, <2>2, <2>3 DEF MemoryOK
<1> QED
  BY <1>4, <1>5, <1>6, <1>7

\* New events, and the turn of a drain that takes them.
LEMMA EventTypes ==
  ASSUME TypeOK, NEW p \in Proc,
         Publish(p) \/ AppendSeed(p) \/ BeginDrain(p)
  PROVE  MemoryOK'
<1>0. MemoryOK
  BY TypeParts
<1>1. /\ buffer[p] \in Buffer /\ buffer \in [Proc -> Buffer]
      /\ chain \in [Proc -> Seq(Op)] /\ live \in [Proc -> Seq(Event)]
      /\ live[p] \in Seq(Event) /\ batch \in [Proc -> Seq(Event)]
      /\ step \in [Proc -> {"idle", "lease", "mutate"}]
  BY <1>0 DEF MemoryOK
<1>2. buffer[p].events \in Seq(Event) /\ buffer[p].timer \in BOOLEAN
      /\ buffer[p].paused \in BOOLEAN
  BY <1>1, BufferParts
<1>3. CASE Publish(p)
  <2>1. NewEvent(p) \in Event
    <3>1. made < MaxEvents
      BY <1>3 DEF Publish
    <3> QED
      BY <3>1, NewEventType
  <2> DEFINE e == Append(buffer[p].events, NewEvent(p))
             l == Append(live[p], NewEvent(p))
             t == buffer[p].timer \/ ~buffer[p].paused
             b == [buffer[p] EXCEPT !.events = e, !.timer = t]
  <2>2. e \in Seq(Event) /\ l \in Seq(Event) /\ t \in BOOLEAN
    BY <1>1, <1>2, <2>1, AppendProperties
  <2>3. live' = [live EXCEPT ![p] = l] /\ buffer' = [buffer EXCEPT ![p] = b]
    BY <1>1, <1>3 DEF Publish
  <2>4. /\ state' = state /\ on' = on /\ batch' = batch /\ step' = step /\ chain' = chain
        /\ closer' = closer /\ flushing' = flushing
    BY <1>3 DEF Publish
  <2> HIDE DEF e, l, t
  <2>5. b \in Buffer
    BY <1>1, <2>2, BufferParts
  <2> HIDE DEF b
  <2> QED
    BY <1>0, <1>1, <2>2, <2>3, <2>4, <2>5 DEF MemoryOK
<1>4. CASE AppendSeed(p)
  <2>1. NewEvent(p) \in Event
    <3>1. made < MaxEvents
      BY <1>4 DEF AppendSeed
    <3> QED
      BY <3>1, NewEventType
  <2>2. /\ batch' = [batch EXCEPT ![p] = <<NewEvent(p)>>]
        /\ chain' = [chain EXCEPT ![p] = <<"append">>]
        /\ state' = state /\ live' = live /\ on' = on /\ buffer' = buffer /\ step' = step
        /\ closer' = closer /\ flushing' = flushing
    BY <1>4 DEF AppendSeed
  <2>3. <<"append">> \in Seq(Op)
    BY DEF Op
  <2> DEFINE b == <<NewEvent(p)>>
  <2>4. b \in Seq(Event)
    BY <2>1
  <2> HIDE DEF b
  <2>5. batch' \in [Proc -> Seq(Event)] /\ chain' \in [Proc -> Seq(Op)]
    <3>1. batch' = [batch EXCEPT ![p] = b]
      BY <2>2 DEF b
    <3> QED
      BY <1>1, <2>2, <2>3, <2>4, <3>1
  <2> QED
    BY <1>0, <2>2, <2>5 DEF MemoryOK
<1>5. CASE BeginDrain(p)
  <2> DEFINE b == [buffer[p] EXCEPT !.events = <<>>]
  <2>1. /\ batch' = [batch EXCEPT ![p] = buffer[p].events]
        /\ buffer' = [buffer EXCEPT ![p] = b]
        /\ step' = [step EXCEPT ![p] = FirstStep(p)]
        /\ state' = state /\ live' = live /\ on' = on /\ chain' = chain
        /\ closer' = closer /\ flushing' = flushing
    BY <1>1, <1>5 DEF BeginDrain
  <2>2. b \in Buffer
    BY <1>1, EmptySeq, BufferParts
  <2>3. FirstStep(p) \in {"idle", "lease", "mutate"}
    BY DEF FirstStep
  <2> HIDE DEF b
  <2>4. /\ batch' \in [Proc -> Seq(Event)] /\ buffer' \in [Proc -> Buffer]
        /\ step' \in [Proc -> {"idle", "lease", "mutate"}]
    BY <1>1, <1>2, <2>1, <2>2, <2>3
  <2> QED
    BY <1>0, <2>1, <2>4 DEF MemoryOK
<1> QED
  BY <1>3, <1>4, <1>5

\* The other steps of a handle.
LEMMA HandleTypes ==
  ASSUME TypeOK, NEW p \in Proc, ChainInv(p),
         \/ Create(p) \/ OpenWrite(p) \/ ReadLog(p) \/ RefuseOpen(p) \/ GoLive(p)
         \/ CloseLetsGo(p) \/ Release(p) \/ StrayEnds(p) \/ Crash(p)
  PROVE  MemoryOK'
<1>0. MemoryOK
  BY TypeParts
<1>1. CASE Create(p)
  BY <1>0, <1>1 DEF Create, MemoryOK
<1>2. CASE OpenWrite(p)
  BY <1>0, <1>2 DEF OpenWrite, MemoryOK
<1>3. CASE ReadLog(p)
  <2>1. Records \in Seq(Event)
    BY DataTypes
  <2> QED
    BY <1>0, <1>3, <2>1 DEF ReadLog, MemoryOK
<1>4. CASE GoLive(p)
  BY <1>0, <1>4 DEF GoLive, MemoryOK
<1>5. CASE CloseLetsGo(p)
  BY <1>0, <1>5 DEF CloseLetsGo, MemoryOK
<1>6. CASE Release(p)
  <2>1. CASE buffer[p].timer \/ Busy(p)
    <3>1. /\ state' = [state EXCEPT ![p] = "stray"] /\ on' = [on EXCEPT ![p] = FALSE]
          /\ closer' = [closer EXCEPT ![p] = NotClosing]
          /\ live' = live /\ buffer' = buffer /\ chain' = chain /\ step' = step
          /\ batch' = batch /\ flushing' = flushing
      BY <1>6, <2>1 DEF Release
    <3>2. closer' \in [Proc -> [at : {"no", "drain", "failed", "chain", "last"}, ahead : Nat]]
      BY <1>0, <3>1, CloserParts DEF MemoryOK
    <3> QED
      BY <1>0, <3>1, <3>2 DEF MemoryOK
  <2>2. CASE ~(buffer[p].timer \/ Busy(p))
    BY <1>6, <2>2, ForgetsTypes DEF Release
  <2> QED
    BY <2>1, <2>2
<1>7. CASE RefuseOpen(p) \/ StrayEnds(p) \/ Crash(p)
  BY <1>7, ForgetsTypes DEF RefuseOpen, StrayEnds, Crash
<1> QED
  BY <1>1, <1>2, <1>3, <1>4, <1>5, <1>6, <1>7

\* An operation goes on or ends.
LEMMA RunTypes ==
  ASSUME TypeOK, NEW p \in Proc, Control(p),
         \/ BeginAppend(p) \/ BeginFlush(p) \/ TakeLease(p) \/ TruncateTail(p)
         \/ RewriteTail(p) \/ WriteBatch(p) \/ RefuseWrite(p) \/ FileOpFails(p)
         \/ AppendStays(p) \/ PublishUnsynced(p)
  PROVE  MemoryOK'
<1>0. MemoryOK
  BY TypeParts
<1>1. chain[p] # <<>>
  BY BusyHasHandle DEF BeginAppend, BeginFlush, Runs, TakeLease, TruncateTail, RewriteTail,
     WriteBatch, RefuseWrite, FileOpFails, AppendStays, PublishUnsynced, Truncating, Rewriting, Writing
<1>2. ASSUME \/ DrainResolves(p) \/ DrainRejects(p) \/ AppendResolves(p)
             \/ AppendRejects(p) \/ FlushEnds(p)
      PROVE  MemoryOK'
  BY <1>0, <1>1, <1>2, EndsTypes
<1>3. ASSUME Rejects(p) PROVE MemoryOK'
  BY <1>2, <1>3 DEF Rejects
<1>4. ASSUME \E s \in {"idle", "lease", "mutate"} : step' = [step EXCEPT ![p] = s],
             UNCHANGED <<state, live, on, buffer, chain, batch, closer, flushing>>
      PROVE  MemoryOK'
  BY <1>0, <1>4 DEF MemoryOK
<1>5. FirstStep(p) \in {"idle", "lease", "mutate"}
  BY DEF FirstStep
<1>6. CASE BeginAppend(p)
  BY <1>2, <1>4, <1>5, <1>6 DEF BeginAppend
<1>7. CASE BeginFlush(p)
  BY <1>2, <1>4, <1>5, <1>7 DEF BeginFlush
<1>8. CASE TakeLease(p)
  BY <1>3, <1>4, <1>8 DEF TakeLease
<1>9. CASE TruncateTail(p) \/ RewriteTail(p)
  BY <1>0, <1>9 DEF TruncateTail, RewriteTail, MemoryOK
<1>10. CASE WriteBatch(p)
  BY <1>2, <1>10 DEF WriteBatch
<1>11. CASE RefuseWrite(p) \/ FileOpFails(p) \/ AppendStays(p) \/ PublishUnsynced(p)
  BY <1>3, <1>11 DEF RefuseWrite, FileOpFails, AppendStays, PublishUnsynced
<1> QED
  BY <1>6, <1>7, <1>8, <1>9, <1>10, <1>11

\* Every step keeps the types of what processes remember.
LEMMA ActsMemory ==
  ASSUME TypeOK, NEW p \in Proc, Control(p), Acts(p)
  PROVE  MemoryOK'
<1>1. ChainInv(p)
  BY DEF Control
<1>2. CASE Timer(p) \/ Flush(p) \/ Close(p) \/ CloseLoops(p)
  BY <1>2, AskTypes
<1>3. CASE Publish(p) \/ AppendSeed(p) \/ BeginDrain(p)
  BY <1>3, EventTypes
<1>4. CASE \/ Create(p) \/ OpenWrite(p) \/ ReadLog(p) \/ RefuseOpen(p) \/ GoLive(p)
           \/ CloseLetsGo(p) \/ Release(p) \/ StrayEnds(p) \/ Crash(p)
  BY <1>1, <1>4, HandleTypes
<1>5. CASE \/ BeginAppend(p) \/ BeginFlush(p) \/ TakeLease(p) \/ TruncateTail(p)
           \/ RewriteTail(p) \/ WriteBatch(p) \/ RefuseWrite(p) \/ FileOpFails(p)
           \/ AppendStays(p) \/ PublishUnsynced(p)
  BY <1>5, RunTypes
<1> QED
  BY <1>2, <1>3, <1>4, <1>5 DEF Acts, Proceeds

-----------------------------------------------------------------------------
(* The flush that writes the file, and what a flush promises.                *)

\* A drain that is asked for leaves the operation that runs where it is.
LEMMA DrainsFlush ==
  ASSUME TypeOK, NEW p \in Proc, Control(p), Drains(p), step[p] # "idle"
  PROVE  Runs(p, "flush")' => Runs(p, "flush")
<1>1. ChainInv(p) /\ WorkInv(p) /\ chain[p] # <<>>
  BY DEF Control, ChainInv
<1>2. chain'[p] = chain[p] \/ Head(chain'[p]) = Head(chain[p])
  BY <1>1, DrainsDoes
<1> QED
  BY <1>1, <1>2 DEF Runs

\* A flush begins to write only when its handle has written nothing: what it
\* promises was counted then, and is nothing.
LEMMA ActsFlush ==
  ASSUME TypeOK, FileInv, NEW p \in Proc, Control(p), DataInv(p), FlushInv(p), Acts(p)
  PROVE  FlushInv(p)'
<1>0. ChainInv(p) /\ WorkInv(p) /\ CloseInv(p)
  BY DEF Control
<1>t. /\ state \in [Proc -> {"shut", "reading", "open", "closing", "releasing", "stray"}]
      /\ chain \in [Proc -> Seq(Op)] /\ step \in [Proc -> {"idle", "lease", "mutate"}]
      /\ flushing \in [Proc -> [at : {"no", "drain", "barrier"}, upTo : Nat]]
  BY DEF TypeOK
<1>1. ASSUME step'[p] = "idle" PROVE FlushInv(p)'
  BY <1>1 DEF FlushInv
<1>2. ASSUME flushing'[p] = flushing[p], chain'[p] = chain[p],
             step[p] # "idle" \/ step'[p] = step[p]
      PROVE  FlushInv(p)'
  BY <1>2 DEF FlushInv, Runs
<1>3. CASE \/ Create(p) \/ OpenWrite(p) \/ ReadLog(p) \/ GoLive(p) \/ Publish(p)
           \/ CloseLetsGo(p) \/ TruncateTail(p) \/ RewriteTail(p)
  BY <1>2, <1>3 DEF Create, OpenWrite, ReadLog, GoLive, Publish, CloseLetsGo,
                    TruncateTail, RewriteTail
<1>4. CASE RefuseOpen(p) \/ StrayEnds(p) \/ Crash(p)
  BY <1>1, <1>4, <1>t DEF RefuseOpen, StrayEnds, Crash, Forgets
<1>5. CASE Release(p)
  BY <1>1, <1>2, <1>5, <1>t DEF Release, Forgets
<1>6. CASE AppendSeed(p)
  <2>1. chain'[p] = <<"append">>
    BY <1>6, <1>t DEF AppendSeed
  <2> QED
    BY <2>1, ChainStarts DEF FlushInv, Runs
<1>7. CASE Timer(p) \/ Close(p) \/ CloseLoops(p)
  <2>1. /\ flushing' = flushing /\ step' = step
        /\ Drains(p) \/ chain' = chain
    BY <1>7 DEF Timer, Close, CloseLoops
  <2>2. step[p] # "idle" => (Runs(p, "flush")' => Runs(p, "flush"))
    BY <2>1, DrainsFlush DEF Runs
  <2> QED
    BY <2>1, <2>2 DEF FlushInv
<1>8. CASE Flush(p)
  <2>1. step' = step /\ chain[p] \notin Flushing
    BY <1>0, <1>8 DEF Flush, NoFlush, ChainInv
  <2>2. CASE step[p] = "idle"
    BY <1>1, <2>1, <2>2
  <2>3. CASE step[p] # "idle"
    <3>1. chain[p] # <<>> /\ chain[p] \in Chains /\ ~Runs(p, "flush")
      BY <1>0, <2>1, <2>3, ChainHeads DEF ChainInv, Runs
    <3>2. CASE buffer[p].events = <<>> /\ ~Busy(p)
      <4>1. chain'[p] = Append(chain[p], "flush")
        BY <1>8, <1>t, <3>2 DEF Flush
      <4>2. chain[p] \notin Draining
        BY <1>0, <3>2 DEF ChainInv, Busy
      <4>3. Head(chain'[p]) = Head(chain[p])
        BY <2>1, <3>1, <4>1, <4>2, ChainGrows
      <4> QED
        BY <3>1, <4>3 DEF FlushInv, Runs
    <3>3. CASE ~(buffer[p].events = <<>> /\ ~Busy(p))
      <4>1. Drains(p)
        BY <1>8, <3>3 DEF Flush
      <4> QED
        BY <2>3, <3>1, <4>1, DrainsFlush DEF FlushInv
    <3> QED
      BY <3>2, <3>3
  <2> QED
    BY <2>2, <2>3
<1>9. CASE BeginDrain(p)
  <2>1. ~Runs(p, "flush")'
    BY <1>9 DEF BeginDrain, Runs
  <2> QED
    BY <2>1 DEF FlushInv
<1>10. ASSUME DrainResolves(p) \/ DrainRejects(p) \/ AppendResolves(p)
                \/ AppendRejects(p) \/ FlushEnds(p)
       PROVE  FlushInv(p)'
  <2>1. step'[p] = "idle"
    BY <1>10, <1>t DEF DrainResolves, DrainRejects, AppendResolves, AppendRejects,
                       FlushEnds, Leaves
  <2> QED
    BY <1>1, <2>1
<1>11. CASE BeginAppend(p)
  <2>1. CASE state[p] = "open"
    <3>1. ~Runs(p, "flush")'
      BY <1>11, <2>1 DEF BeginAppend, Runs
    <3> QED
      BY <3>1 DEF FlushInv
  <2>2. CASE state[p] # "open"
    BY <1>10, <1>11, <2>2 DEF BeginAppend
  <2> QED
    BY <2>1, <2>2
<1>12. CASE BeginFlush(p)
  <2>1. CASE state[p] = "open" /\ ~handle[p].materialized
    <3>1. flushing' = flushing /\ chain[p] # <<>> /\ Head(chain[p]) = "flush"
      BY <1>12, <2>1 DEF BeginFlush, Runs
    <3>2. flushing[p].at = "barrier"
      BY <1>0, <3>1, ChainHeads DEF ChainInv
    <3>3. TrackInv(p) /\ PromiseInv(p)
      BY <2>1, AttachedData DEF Attached
    <3>4. Base(p) = <<>>
      BY <2>1, NothingWritten
    <3>5. flushing[p].upTo <= handle[p].cursor /\ handle[p].cursor = 0
      BY <2>1, <3>2, <3>3, <3>4, Tuples DEF TrackInv, PromiseInv
    <3>6. flushing[p].upTo = 0
      BY <3>5, DataTypes
    <3> QED
      BY <3>1, <3>6 DEF FlushInv
  <2>2. CASE ~(state[p] = "open" /\ ~handle[p].materialized)
    BY <1>10, <1>12, <2>2 DEF BeginFlush
  <2> QED
    BY <2>1, <2>2
<1>13. CASE TakeLease(p)
  BY <1>2, <1>10, <1>13 DEF TakeLease, Rejects
<1>14. CASE WriteBatch(p)
  BY <1>10, <1>14 DEF WriteBatch
<1>15. CASE RefuseWrite(p) \/ FileOpFails(p) \/ AppendStays(p) \/ PublishUnsynced(p)
  BY <1>10, <1>15 DEF RefuseWrite, FileOpFails, AppendStays, PublishUnsynced, Rejects
<1> QED
  BY <1>3, <1>4, <1>5, <1>6, <1>7, <1>8, <1>9, <1>11, <1>12, <1>13, <1>14, <1>15
     DEF Acts, Proceeds

\* What a flush promises when it resolves is counted and in the file.
LEMMA PromiseFits ==
  ASSUME TypeOK, FileInv, NEW p \in Proc, Control(p), DataInv(p), FlushInv(p),
         \/ BeginFlush(p) /\ frames' = frames
         \/ WriteBatch(p)
  PROVE  \/ promised' = promised
         \/ /\ flushing[p].upTo \in 0 .. Len(Records) /\ frames' = frames
            /\ promised' = SubSeq(Records, 1, flushing[p].upTo)
<1>0. ChainInv(p) /\ WorkInv(p) /\ CloseInv(p)
  BY DEF Control
<1>t. flushing[p].upTo \in Nat /\ Len(promised) \in Nat /\ Records \in Seq(Event)
      /\ Waiting(p) \in Seq(Event) /\ Len(Records) \in Nat
  <2>1. flushing[p].upTo \in Nat /\ promised \in Seq(Event) /\ Records \in Seq(Event)
        /\ Waiting(p) \in Seq(Event)
    BY DataTypes
  <2> QED
    BY <2>1, LenProperties
<1>1. CASE WriteBatch(p)
  <2>1. CASE Runs(p, "flush") /\ promised' = Promise(p)
    <3>1. step[p] = "mutate"
      BY <1>1 DEF WriteBatch, Writing
    <3>2. flushing[p].upTo = 0
      BY <2>1, <3>1 DEF FlushInv
    <3> QED
      BY <1>t, <2>1, <3>2 DEF Promise
  <2>2. CASE promised' = promised
    BY <2>2
  <2> QED
    BY <1>1, <2>1, <2>2 DEF WriteBatch
<1>2. CASE BeginFlush(p) /\ frames' = frames
  <2>1. CASE promised' = promised
    BY <2>1
  <2>2. CASE promised' # promised
    <3>1. /\ state[p] = "open" /\ handle[p].materialized /\ Runs(p, "flush")
          /\ promised' = SubSeq(live[p], 1, flushing[p].upTo)
      BY <1>2, <2>2 DEF BeginFlush, Promise
    <3>2. flushing[p].at = "barrier"
      BY <1>0, <3>1, ChainHeads DEF ChainInv, Runs
    <3>3. TrackInv(p) /\ PromiseInv(p)
      BY <3>1, AttachedData DEF Attached
    <3>4. flushing[p].upTo <= handle[p].cursor /\ Owed(p) = <<>>
      BY <3>1, <3>2, <3>3 DEF PromiseInv, Runs
    <3>5. /\ Base(p) \in Seq(Event) /\ frames \in Seq(Frame)
          /\ flushing[p].upTo \in 0 .. Len(Base(p)) /\ live[p] = Base(p) \o Waiting(p)
      BY <1>t, <3>3, <3>4, DataTypes DEF TrackInv, TypeOK
    <3>6. \E t \in Seq(Event) : Records = Base(p) \o t
      <4>1. Base(p) = Decode(Told(p))
        <5>1. Told(p) \in Seq(Frame)
          BY <3>5, TornTypes DEF Told
        <5>2. Decode(Told(p)) \in Seq(Event)
          BY <3>5, <5>1, TornTypes
        <5> QED
          BY <3>1, <3>4, <5>2, ConcatEmptySeq DEF Base
      <4>2. CASE ~handle[p].left
        <5>1. Base(p) = Records
          BY <4>1, <4>2 DEF Told, Records
        <5> QED
          BY <1>t, <5>1, ConcatEmptySeq, EmptySeq
      <4>3. CASE handle[p].left
        <5>1. frames # <<>> /\ HandleInv(p)
          BY <3>1, <4>3, AttachedData DEF HandleInv, Attached
        <5>2. Told(p) = SubSeq(frames, 1, Len(frames) - 1)
          BY <4>3, <5>1 DEF Told, Front
        <5>3. /\ frames[Len(frames)].events \in Seq(Event)
              /\ Records = Decode(Told(p)) \o frames[Len(frames)].events
          BY <3>5, <5>1, <5>2, FrameCut DEF Records, FileInv
        <5> QED
          BY <4>1, <5>3
      <4> QED
        BY <4>2, <4>3
    <3>7. PICK t \in Seq(Event) : Records = Base(p) \o t
      BY <3>6
    <3>8. /\ flushing[p].upTo \in 0 .. Len(Records)
          /\ SubSeq(live[p], 1, flushing[p].upTo) = SubSeq(Records, 1, flushing[p].upTo)
      <4> DEFINE a == Base(p)
                 b == Waiting(p)
                 n == flushing[p].upTo
                 l == live[p]
                 r == Records
      <4>1. /\ a \in Seq(Event) /\ b \in Seq(Event) /\ n \in 0 .. Len(a)
            /\ l = a \o b /\ r = a \o t
        BY <1>t, <3>5, <3>7
      <4> HIDE DEF a, b, n, l, r
      <4>2. SubSeq(a \o b, 1, n) = SubSeq(a, 1, n) /\ SubSeq(a \o t, 1, n) = SubSeq(a, 1, n)
        BY <4>1, PrefixOfConcat
      <4>3. Len(r) = Len(a) + Len(t) /\ Len(a) \in Nat /\ Len(t) \in Nat
        BY <4>1, ConcatProperties, LenProperties
      <4>4. n \in 0 .. Len(r) /\ SubSeq(l, 1, n) = SubSeq(r, 1, n)
        BY <4>1, <4>2, <4>3
      <4> QED
        BY <4>4 DEF a, b, n, l, r
    <3> QED
      BY <1>2, <3>1, <3>8
  <2> QED
    BY <2>1, <2>2
<1> QED
  BY <1>1, <1>2

-----------------------------------------------------------------------------
(* The types of what processes share, and of their handles.                  *)

\* A handle is a record of its type whatever is put in its places.
LEMMA HandleParts ==
  ASSUME NEW h \in Handle
  PROVE  /\ [h EXCEPT !.lease = "held"] \in Handle
         /\ [h EXCEPT !.lease = "released"] \in Handle
         /\ [h EXCEPT !.torn = 0] \in Handle
         /\ [h EXCEPT !.recovered = <<>>] \in Handle
         /\ [h EXCEPT !.left = TRUE] \in Handle
         /\ \A n \in Nat : [h EXCEPT !.materialized = TRUE, !.cursor = n] \in Handle
         /\ h.cursor \in Nat /\ h.recovered \in Seq(Event)
<1>1. <<>> \in Seq(Event)
  BY EmptySeq
<1>2. [h EXCEPT !.lease = "held"] \in Handle /\ [h EXCEPT !.lease = "released"] \in Handle
  BY DEF Handle
<1>3. [h EXCEPT !.torn = 0] \in Handle /\ [h EXCEPT !.left = TRUE] \in Handle
  BY DEF Handle
<1>4. [h EXCEPT !.recovered = <<>>] \in Handle
  BY <1>1 DEF Handle
<1>5. \A n \in Nat : [h EXCEPT !.materialized = TRUE, !.cursor = n] \in Handle
  BY DEF Handle
<1>6. h.cursor \in Nat /\ h.recovered \in Seq(Event)
  BY DEF Handle
<1> QED
  BY <1>2, <1>3, <1>4, <1>5, <1>6

\* The handles.
LEMMA ActsHandle ==
  ASSUME TypeOK, NEW p \in Proc, Acts(p)
  PROVE  handle' \in [Proc -> Handle]
<1>1. handle \in [Proc -> Handle] /\ handle[p] \in Handle /\ batch[p] \in Seq(Event)
  BY DEF TypeOK
<1>2. ASSUME NEW h \in Handle, handle' = [handle EXCEPT ![p] = h]
      PROVE  handle' \in [Proc -> Handle]
  BY <1>1, <1>2
<1>3. CASE handle' = handle
  BY <1>1, <1>3
<1>4. CASE ReadLog(p)
  <2> DEFINE r == IF TornAt = 0 THEN <<>> ELSE frames[TornAt].events
             n == Len(Records)
             t == TornAt
             h == [cursor |-> n, materialized |-> TRUE, lease |-> "held",
                   torn |-> t, recovered |-> r, left |-> FALSE]
  <2>1. handle' = [handle EXCEPT ![p] = h]
    BY <1>4 DEF ReadLog
  <2>2. t \in Nat /\ n \in Nat /\ (t # 0 => frames[t] \in Frame)
    <3>1. frames \in Seq(Frame)
      BY DEF TypeOK
    <3>2. /\ Len(frames) \in Nat /\ TornAt \in 0 .. Len(frames) /\ Len(Records) \in Nat
          /\ TornAt # 0 => frames[TornAt] \in Frame
      BY <3>1, TornTypes
    <3> QED
      BY <3>2
  <2>3. r \in Seq(Event)
    BY <2>2, EmptySeq DEF Frame
  <2> HIDE DEF r, n, t
  <2>4. h \in Handle
    BY <2>2, <2>3 DEF Handle
  <2> HIDE DEF h
  <2> QED
    BY <1>2, <2>1, <2>4
<1>5. CASE RefuseOpen(p) \/ StrayEnds(p) \/ Crash(p)
  BY <1>5, ForgetsTypes DEF RefuseOpen, StrayEnds, Crash
<1>6. CASE Release(p)
  <2>1. CASE buffer[p].timer \/ Busy(p)
    <3>1. \/ handle' = [handle EXCEPT ![p] = [handle[p] EXCEPT !.lease = "released"]]
          \/ handle' = [handle EXCEPT ![p] = [handle[p] EXCEPT !.lease = handle[p].lease]]
      BY <1>1, <1>6, <2>1 DEF Release
    <3>2. [handle[p] EXCEPT !.lease = handle[p].lease] \in Handle
      BY <1>1 DEF Handle
    <3> DEFINE a == [handle[p] EXCEPT !.lease = "released"]
               b == [handle[p] EXCEPT !.lease = handle[p].lease]
    <3>3. a \in Handle /\ b \in Handle
      BY <1>1, <3>2, HandleParts
    <3>4. handle' = [handle EXCEPT ![p] = a] \/ handle' = [handle EXCEPT ![p] = b]
      BY <3>1
    <3> HIDE DEF a, b
    <3> QED
      BY <1>2, <3>3, <3>4
  <2>2. CASE ~(buffer[p].timer \/ Busy(p))
    BY <1>6, <2>2, ForgetsTypes DEF Release
  <2> QED
    BY <2>1, <2>2
<1>7. CASE TakeLease(p)
  <2> DEFINE h == [handle[p] EXCEPT !.lease = "held"]
  <2>1. handle' = handle \/ handle' = [handle EXCEPT ![p] = h]
    BY <1>1, <1>7 DEF TakeLease
  <2>2. h \in Handle
    BY <1>1, HandleParts
  <2> HIDE DEF h
  <2> QED
    BY <1>2, <1>3, <2>1, <2>2
<1>8. CASE TruncateTail(p)
  <2> DEFINE h == [handle[p] EXCEPT !.torn = 0]
  <2>1. handle' = [handle EXCEPT ![p] = h]
    BY <1>1, <1>8 DEF TruncateTail
  <2>2. h \in Handle
    BY <1>1, HandleParts
  <2> HIDE DEF h
  <2> QED
    BY <1>2, <2>1, <2>2
<1>9. CASE RewriteTail(p)
  <2> DEFINE h == [handle[p] EXCEPT !.recovered = <<>>]
  <2>1. handle' = [handle EXCEPT ![p] = h]
    BY <1>1, <1>9 DEF RewriteTail
  <2>2. h \in Handle
    BY <1>1, HandleParts
  <2> HIDE DEF h
  <2> QED
    BY <1>2, <2>1, <2>2
<1>10. CASE WriteBatch(p)
  <2> DEFINE n == handle[p].cursor + Len(batch[p])
             h == [handle[p] EXCEPT !.materialized = TRUE, !.cursor = n]
  <2>1. handle' = [handle EXCEPT ![p] = h]
    BY <1>1, <1>10 DEF WriteBatch
  <2>2. n \in Nat
    <3>1. handle[p].cursor \in Nat /\ Len(batch[p]) \in Nat
      BY <1>1, HandleParts, LenProperties
    <3> QED
      BY <3>1
  <2> HIDE DEF n
  <2>3. h \in Handle
    BY <1>1, <2>2, HandleParts
  <2> HIDE DEF h
  <2> QED
    BY <1>2, <2>1, <2>3
<1>11. CASE \/ Create(p) \/ OpenWrite(p) \/ GoLive(p) \/ Publish(p) \/ AppendSeed(p)
            \/ Timer(p) \/ Flush(p) \/ Close(p)
  BY <1>3, <1>11 DEF Create, OpenWrite, GoLive, Publish, AppendSeed, Timer, Flush, Close
<1>12. CASE \/ BeginDrain(p) \/ BeginAppend(p) \/ BeginFlush(p) \/ RefuseWrite(p)
            \/ FileOpFails(p) \/ PublishUnsynced(p) \/ CloseLoops(p) \/ CloseLetsGo(p)
  BY <1>3, <1>12 DEF BeginDrain, BeginAppend, BeginFlush, RefuseWrite, FileOpFails,
                     PublishUnsynced, CloseLoops, CloseLetsGo
<1>13. CASE AppendStays(p)
  <2> DEFINE h == [handle[p] EXCEPT !.left = TRUE]
  <2>1. handle' = [handle EXCEPT ![p] = h]
    BY <1>1, <1>13 DEF AppendStays
  <2>2. h \in Handle
    BY <1>1, HandleParts
  <2> HIDE DEF h
  <2> QED
    BY <1>2, <2>1, <2>2
<1> QED
  BY <1>4, <1>5, <1>6, <1>7, <1>8, <1>9, <1>10, <1>11, <1>12, <1>13 DEF Acts, Proceeds

\* The frames: what is added is a frame.
LEMMA ActsFrames ==
  ASSUME TypeOK, LockInv, NEW p \in Proc, Control(p), TornInv(p), Acts(p)
  PROVE  frames' \in Seq(Frame)
<1>1. frames \in Seq(Frame) /\ batch[p] \in Seq(Event) /\ handle[p].recovered \in Seq(Event)
  BY DataTypes DEF TypeOK
<1>2. ASSUME NEW s \in Seq(Event), NEW w \in BOOLEAN, frames' = Append(frames, [events |-> s, whole |-> w])
      PROVE  frames' \in Seq(Frame)
  <2> DEFINE fr == [events |-> s, whole |-> w]
  <2>1. fr \in Frame /\ frames' = Append(frames, fr)
    BY <1>2 DEF Frame
  <2> HIDE DEF fr
  <2> QED
    BY <1>1, <2>1, AppendProperties
<1>3. BatchFrame(p) \in Seq(Frame)
  <2> DEFINE fr == [events |-> batch[p], whole |-> TRUE]
  <2>1. fr \in Frame /\ (BatchFrame(p) = <<>> \/ BatchFrame(p) = <<fr>>)
    BY <1>1 DEF Frame, BatchFrame
  <2> HIDE DEF fr
  <2>2. <<fr>> \in Seq(Frame) /\ <<>> \in Seq(Frame)
    BY <2>1
  <2> QED
    BY <2>1, <2>2
<1>4. ASSUME Truncating(p), frames' = SubSeq(frames, 1, handle[p].torn - 1)
      PROVE  frames' \in Seq(Frame)
  <2>1. chain[p] # <<>> /\ handle[p].torn # 0
    BY <1>4, BusyHasHandle DEF Truncating
  <2>2. handle[p].torn <= Len(frames) + 1
    BY <2>1, RunningAttached DEF TornInv
  <2>3. handle[p].torn - 1 \in 0 .. Len(frames)
    <3>1. handle[p].torn \in Nat /\ Len(frames) \in Nat
      BY <1>1, DataTypes, LenProperties
    <3> QED
      BY <2>1, <2>2, <3>1
  <2> QED
    BY <1>1, <1>4, <2>3, PrefixType
<1>5. ASSUME NEW s \in Seq(Event), frames' \in Remains(frames, s)
      PROVE  frames' \in Seq(Frame)
  <2>1. CASE frames' = frames
    BY <1>1, <2>1
  <2>2. CASE frames' = Append(frames, [events |-> s, whole |-> TRUE])
    BY <1>2, <2>2
  <2>3. CASE \E n \in 0 .. Len(s) :
               frames' = Append(frames, [events |-> SubSeq(s, 1, n), whole |-> FALSE])
    <3>1. PICK n \in 0 .. Len(s) :
                 frames' = Append(frames, [events |-> SubSeq(s, 1, n), whole |-> FALSE])
      BY <2>3
    <3> DEFINE u == SubSeq(s, 1, n)
    <3>2. u \in Seq(Event)
      BY PrefixType
    <3> HIDE DEF u
    <3> QED
      BY <1>2, <3>1, <3>2 DEF u
  <2> QED
    BY <1>5, <2>1, <2>2, <2>3 DEF Remains
<1>6. CASE Leave(p)
  BY <1>1, <1>6, LeaveFile
<1>7. CASE TruncateTail(p)
  BY <1>4, <1>7 DEF TruncateTail
<1>8. CASE RewriteTail(p)
  BY <1>1, <1>2, <1>8 DEF RewriteTail
<1>9. CASE WriteBatch(p)
  BY <1>1, <1>3, <1>9, ConcatProperties DEF WriteBatch
<1>10. CASE RefuseWrite(p) \/ FileOpFails(p)
  BY <1>1, <1>4, <1>10 DEF RefuseWrite, FileOpFails, file
<1>11. CASE PublishUnsynced(p)
  BY <1>3, <1>11 DEF PublishUnsynced
<1>o. Outgoing(p) \in Seq(Event)
  BY <1>1 DEF Outgoing
<1>12. CASE AppendStays(p)
  BY <1>o, <1>5, <1>12 DEF AppendStays
<1>13. CASE Crash(p)
  <2>1. \/ frames' = frames
        \/ Truncating(p) /\ frames' = SubSeq(frames, 1, handle[p].torn - 1)
        \/ frames' \in Remains(frames, Outgoing(p))
        \/ frames' = BatchFrame(p)
    BY <1>13 DEF Crash, file
  <2> QED
    BY <1>o, <1>1, <1>3, <1>4, <1>5, <2>1
<1> QED
  BY <1>6, <1>7, <1>8, <1>9, <1>10, <1>11, <1>12, <1>13, LeaveOrTouch DEF Touch

\* What is promised is a sequence of events, and a record that was sent again
\* stays so.
LEMMA ActsPromise ==
  ASSUME TypeOK, NEW p \in Proc, Control(p), FlushBound(p), Acts(p)
  PROVE  /\ stored' \in Nat /\ promised' \in Seq(Event) /\ resent' \in BOOLEAN
         /\ resent => resent'
<1>1. /\ stored \in Nat /\ promised \in Seq(Event) /\ resent \in BOOLEAN
      /\ live[p] \in Seq(Event) /\ flushing[p].upTo \in Nat /\ Len(live[p]) \in Nat
      /\ handle[p].cursor \in Nat /\ Len(batch[p]) \in Nat /\ handle[p].left \in BOOLEAN
  <2>1. handle[p] \in Handle /\ resent \in BOOLEAN
    BY DEF TypeOK
  <2>2. handle[p].left \in BOOLEAN
    BY <2>1 DEF Handle
  <2> QED
    BY <2>1, <2>2, DataTypes
<1>2. ASSUME Runs(p, "flush") PROVE Promise(p) \in Seq(Event)
  <2>1. flushing[p].at = "barrier"
    BY <1>2, ChainHeads DEF Control, ChainInv, Runs
  <2>2. flushing[p].upTo \in 0 .. Len(live[p])
    BY <1>1, <2>1 DEF FlushBound
  <2>3. SubSeq(live[p], 1, flushing[p].upTo) \in Seq(Event)
    BY <1>1, <2>2, PrefixType
  <2> QED
    BY <1>1, <2>3 DEF Promise
<1>3. ASSUME Resends(p) PROVE resent' \in BOOLEAN /\ (resent => resent')
  BY <1>1, <1>3 DEF Resends
<1>4. CASE WriteBatch(p)
  <2>1. stored' = handle[p].cursor + Len(batch[p]) /\ Resends(p)
    BY <1>4 DEF WriteBatch
  <2>2. promised' = promised \/ (Runs(p, "flush") /\ promised' = Promise(p))
    BY <1>4 DEF WriteBatch
  <2>3. promised' \in Seq(Event)
    BY <1>1, <1>2, <2>2
  <2>4. stored' \in Nat
    BY <1>1, <2>1
  <2> QED
    BY <1>3, <2>1, <2>3, <2>4
<1>5. CASE BeginFlush(p)
  <2>1. /\ stored' = stored /\ resent' = resent
        /\ promised' = promised \/ (Runs(p, "flush") /\ promised' = Promise(p))
    BY <1>5 DEF BeginFlush
  <2> QED
    BY <1>1, <1>2, <2>1
<1>6. CASE Crash(p) \/ RewriteTail(p) \/ AppendStays(p)
  <2>1. stored' = stored /\ promised' = promised /\ (Resends(p) \/ resent' = resent)
    BY <1>6 DEF Crash, RewriteTail, AppendStays
  <2> QED
    BY <1>1, <1>3, <2>1
<1>7. CASE \/ Create(p) \/ OpenWrite(p) \/ GoLive(p) \/ Publish(p) \/ AppendSeed(p)
           \/ Timer(p) \/ Flush(p) \/ Close(p) \/ ReadLog(p) \/ RefuseOpen(p)
  <2>1. stored' = stored /\ promised' = promised /\ resent' = resent
    BY <1>7 DEF Create, OpenWrite, GoLive, Publish, AppendSeed, Timer, Flush, Close,
                ReadLog, RefuseOpen, history
  <2> QED
    BY <1>1, <2>1
<1>8. CASE \/ BeginDrain(p) \/ BeginAppend(p) \/ TakeLease(p) \/ TruncateTail(p)
           \/ RefuseWrite(p) \/ FileOpFails(p) \/ PublishUnsynced(p)
           \/ CloseLoops(p) \/ CloseLetsGo(p) \/ Release(p) \/ StrayEnds(p)
  <2>1. stored' = stored /\ promised' = promised /\ resent' = resent
    BY <1>8 DEF BeginDrain, BeginAppend, TakeLease, TruncateTail, RefuseWrite,
                FileOpFails, PublishUnsynced, CloseLoops, CloseLetsGo, Release, StrayEnds,
                history
  <2> QED
    BY <1>1, <2>1
<1> QED
  BY <1>4, <1>5, <1>6, <1>7, <1>8 DEF Acts, Proceeds

\* What is acknowledged and promised is in the file.
LEMMA ActsHistory ==
  ASSUME TypeOK, FileInv, LockInv, NEW p \in Proc, Control(p), DataInv(p), FlushInv(p),
         Acts(p), ~resent'
  PROVE  /\ stored' = stored \/ (WriteBatch(p) /\ stored' = Len(Records'))
         /\ \/ promised' = promised
            \/ /\ flushing[p].upTo \in 0 .. Len(Records) /\ frames' = frames
               /\ promised' = SubSeq(Records, 1, flushing[p].upTo)
<1>1. CASE WriteBatch(p)
  <2>1. stored' = Len(Records')
    BY <1>1, WriteData
  <2> QED
    BY <1>1, <2>1, PromiseFits
<1>2. CASE BeginFlush(p)
  <2>1. frames' = frames /\ stored' = stored
    BY <1>2 DEF BeginFlush, file
  <2> QED
    BY <1>2, <2>1, PromiseFits
<1>3. CASE \/ Create(p) \/ OpenWrite(p) \/ GoLive(p) \/ Publish(p) \/ AppendSeed(p)
           \/ Timer(p) \/ Flush(p) \/ Close(p) \/ Crash(p) \/ ReadLog(p) \/ RefuseOpen(p)
  BY <1>3 DEF Create, OpenWrite, GoLive, Publish, AppendSeed, Timer, Flush, Close, Crash,
              ReadLog, RefuseOpen, history
<1>4. CASE \/ BeginDrain(p) \/ BeginAppend(p) \/ TakeLease(p) \/ TruncateTail(p)
           \/ RewriteTail(p) \/ RefuseWrite(p) \/ FileOpFails(p) \/ AppendStays(p)
           \/ PublishUnsynced(p) \/ CloseLoops(p) \/ CloseLetsGo(p) \/ Release(p)
           \/ StrayEnds(p)
  BY <1>4 DEF BeginDrain, BeginAppend, TakeLease, TruncateTail, RewriteTail, RefuseWrite,
              FileOpFails, AppendStays, PublishUnsynced, CloseLoops, CloseLetsGo, Release,
              StrayEnds, history
<1> QED
  BY <1>1, <1>2, <1>3, <1>4 DEF Acts, Proceeds

\* The counters stay within their bounds.
LEMMA ActsCounters ==
  ASSUME TypeOK, NEW p \in Proc, Acts(p)
  PROVE  /\ made' \in 0 .. MaxEvents /\ faults' \in 0 .. MaxFaults
         /\ crashes' \in 0 .. MaxCrashes /\ opens' \in 0 .. MaxOpens
         /\ exists' \in BOOLEAN /\ owner' \in Proc \cup {NoProc}
<1>1. /\ made \in 0 .. MaxEvents /\ faults \in 0 .. MaxFaults
      /\ crashes \in 0 .. MaxCrashes /\ opens \in 0 .. MaxOpens
      /\ exists \in BOOLEAN /\ owner \in Proc \cup {NoProc}
      /\ MaxEvents \in Nat /\ MaxFaults \in Nat /\ MaxCrashes \in Nat /\ MaxOpens \in Nat
  BY SessionAssumption DEF TypeOK, SessionAssumption
<1>2. Unlocked(p) \in Proc \cup {NoProc}
  BY <1>1 DEF Unlocked
<1>3. CASE \/ Create(p) \/ OpenWrite(p) \/ GoLive(p) \/ Publish(p) \/ AppendSeed(p)
           \/ Timer(p) \/ Flush(p) \/ Close(p)
  BY <1>1, <1>3 DEF Create, OpenWrite, GoLive, Publish, AppendSeed, Timer, Flush, Close,
                    file, counters
<1>4. CASE ReadLog(p) \/ RefuseOpen(p) \/ Release(p) \/ StrayEnds(p)
  BY <1>1, <1>2, <1>4 DEF ReadLog, RefuseOpen, Release, StrayEnds, file, counters
<1>5. CASE \/ BeginDrain(p) \/ BeginAppend(p) \/ BeginFlush(p) \/ TakeLease(p)
           \/ CloseLoops(p) \/ CloseLetsGo(p)
  BY <1>1, <1>5 DEF BeginDrain, BeginAppend, BeginFlush, TakeLease, CloseLoops, CloseLetsGo,
                    file, counters
<1>6. CASE \/ TruncateTail(p) \/ RewriteTail(p) \/ WriteBatch(p) \/ RefuseWrite(p)
           \/ FileOpFails(p) \/ AppendStays(p) \/ PublishUnsynced(p)
  <2>1. CASE TruncateTail(p) \/ RewriteTail(p)
    BY <1>1, <2>1 DEF TruncateTail, RewriteTail, counters
  <2>2. CASE WriteBatch(p)
    BY <1>1, <2>2 DEF WriteBatch, counters
  <2>3. CASE RefuseWrite(p)
    BY <1>1, <2>3 DEF RefuseWrite, file, counters
  <2>4. CASE FileOpFails(p)
    BY <1>1, <2>4 DEF FileOpFails, file
  <2>5. CASE PublishUnsynced(p)
    BY <1>1, <2>5 DEF PublishUnsynced
  <2>6. CASE AppendStays(p)
    BY <1>1, <2>6 DEF AppendStays
  <2> QED
    BY <1>6, <2>1, <2>2, <2>3, <2>4, <2>5, <2>6
<1>7. CASE Crash(p)
  <2>1. /\ made' = made /\ faults' = faults /\ opens' = opens
        /\ crashes < MaxCrashes /\ crashes' = crashes + 1 /\ owner' = Unlocked(p)
    BY <1>7 DEF Crash
  <2>2. exists' = exists \/ exists' = TRUE
    BY <1>7 DEF Crash, file
  <2>3. exists' \in BOOLEAN
    BY <1>1, <2>2
  <2>4. crashes' \in 0 .. MaxCrashes
    BY <1>1, <2>1
  <2> QED
    BY <1>1, <1>2, <2>1, <2>3, <2>4
<1> QED
  BY <1>3, <1>4, <1>5, <1>6, <1>7 DEF Acts, Proceeds

-----------------------------------------------------------------------------
(* What holds whatever becomes of the file.                                  *)

\* Where a handle would cut the file stays in it.
LEMMA ActsTorn ==
  ASSUME TypeOK, LockInv, NEW p \in Proc, Control(p), TornInv(p), Acts(p)
  PROVE  TornInv(p)'
<1>t. /\ handle \in [Proc -> Handle] /\ handle[p] \in Handle /\ frames \in Seq(Frame)
      /\ state \in [Proc -> States]
      /\ handle[p].torn \in Nat /\ Len(frames) \in Nat /\ TornAt \in 0 .. Len(frames)
  BY DataTypes, TornTypes DEF TypeOK, LockInv, Shape
<1>1. ASSUME ~Attached(p)' \/ handle'[p].torn = 0 PROVE TornInv(p)'
  BY <1>1 DEF TornInv
<1>2. ASSUME frames' = frames, Attached(p)' => Attached(p), handle'[p].torn = handle[p].torn,
             handle'[p].lease \in {handle[p].lease, "held"}
      PROVE  TornInv(p)'
  BY <1>2 DEF TornInv
<1>3. CASE RefuseOpen(p) \/ StrayEnds(p) \/ Crash(p)
  <2>1. state'[p] = "shut"
    BY <1>t, <1>3 DEF RefuseOpen, StrayEnds, Crash, Forgets
  <2> QED
    BY <1>1, <2>1 DEF Attached
<1>4. CASE Release(p)
  <2>1. state'[p] \in {"shut", "stray"}
    BY <1>t, <1>4 DEF Release, Forgets
  <2> QED
    BY <1>1, <2>1 DEF Attached
<1>5. CASE Create(p) \/ OpenWrite(p)
  <2>1. handle' = handle /\ handle[p].torn = 0
    BY <1>5 DEF Create, OpenWrite, Control, ChainInv, Blank, NoHandle
  <2> QED
    BY <1>1, <2>1
<1>6. CASE ReadLog(p)
  <2>1. handle'[p].torn = TornAt /\ handle'[p].lease = "held" /\ frames' = frames
    BY <1>t, <1>6 DEF ReadLog, file
  <2> QED
    BY <1>t, <2>1 DEF TornInv
<1>7. CASE \/ GoLive(p) \/ Publish(p) \/ AppendSeed(p) \/ Timer(p) \/ Flush(p) \/ Close(p)
           \/ BeginDrain(p) \/ CloseLoops(p) \/ CloseLetsGo(p)
  <2>1. frames' = frames /\ handle' = handle
    BY <1>7 DEF GoLive, Publish, AppendSeed, Timer, Flush, Close, BeginDrain, CloseLoops,
                CloseLetsGo, file
  <2>2. Attached(p)' => Attached(p)
    BY <1>t, <1>7 DEF GoLive, Publish, AppendSeed, Timer, Flush, Close, BeginDrain,
                      CloseLoops, CloseLetsGo, Attached, Resumes
  <2> QED
    BY <1>2, <2>1, <2>2
<1>8. ASSUME step[p] # "idle" \/ chain[p] # <<>> PROVE Attached(p)
  BY <1>8, RunningAttached DEF Control, ChainInv
<1>9. CASE BeginAppend(p) \/ BeginFlush(p)
  <2>1. frames' = frames /\ handle' = handle /\ chain[p] # <<>>
    BY <1>9 DEF BeginAppend, BeginFlush, file, Runs
  <2> QED
    BY <1>2, <1>8, <2>1
<1>10. CASE TakeLease(p)
  <2>1. frames' = frames /\ step[p] # "idle"
    BY <1>10 DEF TakeLease, file
  <2>2. /\ handle'[p].torn = handle[p].torn
        /\ handle'[p].lease \in {handle[p].lease, "held"}
    BY <1>t, <1>10 DEF TakeLease, Handle
  <2> QED
    BY <1>2, <1>8, <2>1, <2>2
<1>11. CASE TruncateTail(p)
  BY <1>t, <1>1, <1>11 DEF TruncateTail, Handle
<1>12. CASE RewriteTail(p) \/ WriteBatch(p) \/ AppendStays(p) \/ PublishUnsynced(p)
  <2>1. handle[p].torn = 0
    BY <1>12 DEF RewriteTail, WriteBatch, AppendStays, PublishUnsynced, Rewriting, Writing
  <2>2. handle'[p].torn = handle[p].torn
    BY <1>t, <1>12 DEF RewriteTail, WriteBatch, AppendStays, PublishUnsynced, Handle
  <2> QED
    BY <1>1, <2>1, <2>2
<1>13. CASE RefuseWrite(p)
  <2>1. frames' = frames /\ handle' = handle /\ step[p] # "idle"
    BY <1>13 DEF RefuseWrite, file
  <2> QED
    BY <1>2, <1>8, <2>1
<1>14. CASE FileOpFails(p)
  <2>1. /\ handle' = handle /\ step[p] # "idle"
        /\ frames' = frames \/ frames' = SubSeq(frames, 1, handle[p].torn - 1)
    BY <1>14 DEF FileOpFails, Truncating, Rewriting, Writing
  <2>2. CASE frames' = frames
    BY <1>2, <1>8, <2>1, <2>2
  <2>3. CASE frames' = SubSeq(frames, 1, handle[p].torn - 1)
    <3>1. CASE handle[p].torn = 0
      BY <1>1, <2>1, <3>1
    <3>2. CASE handle[p].torn # 0
      <4>1. handle[p].lease = "held" /\ handle[p].torn <= Len(frames) + 1
        BY <1>8, <2>1, <3>2 DEF TornInv
      <4>2. handle[p].torn - 1 \in 0 .. Len(frames)
        BY <1>t, <3>2, <4>1
      <4>3. Len(frames') = handle[p].torn - 1
        BY <1>t, <2>3, <4>2, PrefixType
      <4>4. handle[p].torn <= Len(frames') + 1
        BY <1>t, <4>3
      <4> QED
        BY <2>1, <4>1, <4>4 DEF TornInv
    <3> QED
      BY <3>1, <3>2
  <2> QED
    BY <2>1, <2>2, <2>3
<1> QED
  BY <1>3, <1>4, <1>5, <1>6, <1>7, <1>9, <1>10, <1>11, <1>12, <1>13, <1>14
     DEF Acts, Proceeds

\* The others hold no lock when the file changes, and cut nothing.
LEMMA OthersTorn ==
  ASSUME TypeOK, LockInv, NEW p \in Proc, Control(p), Acts(p),
         NEW q \in Proc, q # p, TornInv(q)
  PROVE  TornInv(q)'
<1>1. Same(q)
  BY OthersSame
<1>2. CASE frames' = frames
  BY <1>1, <1>2 DEF Same, TornInv, Attached
<1>3. CASE frames' # frames
  <2>1. step[p] = "mutate"
    BY <1>3, LeaveFile, TouchFile, LeaveOrTouch
  <2>2. owner = p
    BY <2>1, BusyHasHandle, RunningAttached
  <2>3. Attached(q) => handle[q].lease # "held"
    BY <2>2 DEF LockInv, LeaseIsLock, Attached
  <2> QED
    BY <1>1, <2>3 DEF Same, TornInv, Attached
<1> QED
  BY <1>2, <1>3

\* A session that an end of an operation leaves has not become shorter.
LEMMA EndsBound ==
  ASSUME TypeOK, NEW p \in Proc, FlushBound(p),
         \/ DrainResolves(p) \/ DrainRejects(p) \/ AppendResolves(p)
         \/ AppendRejects(p) \/ FlushEnds(p)
  PROVE  FlushBound(p)'
<1>t. /\ live \in [Proc -> Seq(Event)] /\ live[p] \in Seq(Event) /\ batch[p] \in Seq(Event)
      /\ flushing \in [Proc -> [at : {"no", "drain", "barrier"}, upTo : Nat]]
      /\ Len(live[p]) \in Nat /\ Len(batch[p]) \in Nat
  BY DataTypes DEF TypeOK
<1>1. CASE AppendResolves(p)
  <2>1. live'[p] = live[p] \o batch[p] /\ flushing' = flushing
    BY <1>t, <1>1 DEF AppendResolves
  <2>2. Len(live'[p]) = Len(live[p]) + Len(batch[p])
    BY <1>t, <2>1, ConcatProperties
  <2>3. flushing[p].upTo \in Nat
    BY <1>t
  <2>4. flushing[p].upTo <= Len(live[p]) => flushing[p].upTo <= Len(live'[p])
    BY <1>t, <2>2, <2>3
  <2> QED
    BY <2>1, <2>4 DEF FlushBound
<1>2. CASE DrainResolves(p) \/ DrainRejects(p) \/ AppendRejects(p) \/ FlushEnds(p)
  <2>1. live' = live
    BY <1>2 DEF DrainResolves, DrainRejects, AppendRejects, FlushEnds
  <2>2. \/ flushing'[p] = flushing[p] \/ flushing'[p] = NoFlush
        \/ flushing[p].at = "drain" /\ flushing'[p] = [flushing[p] EXCEPT !.at = "barrier"]
    BY <1>t, <1>2 DEF DrainResolves, DrainRejects, AppendRejects, FlushEnds
  <2>3. \/ flushing'[p].at = "no"
        \/ flushing[p].at # "no" /\ flushing'[p].upTo = flushing[p].upTo
    BY <1>t, <2>2 DEF NoFlush
  <2> QED
    BY <2>1, <2>3 DEF FlushBound
<1> QED
  BY <1>1, <1>2

\* A flush covers what had been published when it was asked for.
LEMMA ActsBound ==
  ASSUME TypeOK, NEW p \in Proc, Control(p), FlushBound(p), Acts(p)
  PROVE  FlushBound(p)'
<1>t. /\ live \in [Proc -> Seq(Event)] /\ live[p] \in Seq(Event)
      /\ flushing \in [Proc -> [at : {"no", "drain", "barrier"}, upTo : Nat]]
      /\ Len(live[p]) \in Nat
  BY DataTypes DEF TypeOK
<1>1. ASSUME flushing'[p] = flushing[p], live'[p] = live[p]
      PROVE  FlushBound(p)'
  BY <1>1 DEF FlushBound
<1>2. ASSUME flushing'[p].at = "no" PROVE FlushBound(p)'
  BY <1>2 DEF FlushBound
<1>3. CASE \/ Create(p) \/ OpenWrite(p) \/ GoLive(p) \/ AppendSeed(p) \/ Timer(p) \/ Close(p)
           \/ BeginDrain(p) \/ TruncateTail(p) \/ RewriteTail(p)
           \/ CloseLoops(p) \/ CloseLetsGo(p)
  BY <1>1, <1>3 DEF Create, OpenWrite, GoLive, AppendSeed, Timer, Close, BeginDrain,
                    TruncateTail, RewriteTail, CloseLoops, CloseLetsGo
<1>4. CASE RefuseOpen(p) \/ StrayEnds(p) \/ Crash(p)
  BY <1>t, <1>2, <1>4 DEF RefuseOpen, StrayEnds, Crash, Forgets, NoFlush
<1>5. CASE Release(p)
  BY <1>t, <1>1, <1>2, <1>5 DEF Release, Forgets, NoFlush
<1>6. CASE ReadLog(p)
  BY <1>2, <1>6 DEF ReadLog, Control, ChainInv, Blank, NoFlush
<1>7. CASE Publish(p)
  <2>1. live'[p] = Append(live[p], NewEvent(p)) /\ flushing' = flushing
    BY <1>t, <1>7 DEF Publish
  <2>2. Len(live'[p]) = Len(live[p]) + 1
    <3>1. NewEvent(p) \in Event
      BY <1>7, NewEventType DEF Publish
    <3> QED
      BY <1>t, <2>1, <3>1, AppendProperties
  <2>3. flushing[p].upTo \in Nat
    BY <1>t
  <2>4. flushing[p].upTo <= Len(live[p]) => flushing[p].upTo <= Len(live'[p])
    BY <1>t, <2>2, <2>3
  <2> QED
    BY <2>1, <2>4 DEF FlushBound
<1>8. CASE Flush(p)
  <2>1. live' = live /\ flushing'[p].upTo = Len(live[p])
    BY <1>t, <1>8 DEF Flush
  <2> QED
    BY <1>t, <2>1 DEF FlushBound
<1>9. ASSUME Rejects(p) PROVE FlushBound(p)'
  BY <1>9, EndsBound DEF Rejects
<1>10. CASE BeginAppend(p) \/ BeginFlush(p)
  BY <1>1, <1>10, EndsBound DEF BeginAppend, BeginFlush
<1>11. CASE TakeLease(p)
  BY <1>1, <1>9, <1>11 DEF TakeLease
<1>12. CASE WriteBatch(p)
  BY <1>12, EndsBound DEF WriteBatch
<1>13. CASE RefuseWrite(p) \/ FileOpFails(p) \/ AppendStays(p) \/ PublishUnsynced(p)
  BY <1>9, <1>13 DEF RefuseWrite, FileOpFails, AppendStays, PublishUnsynced
<1> QED
  BY <1>3, <1>4, <1>5, <1>6, <1>7, <1>8, <1>10, <1>11, <1>12, <1>13 DEF Acts, Proceeds

-----------------------------------------------------------------------------
(* The invariant.                                                            *)

\* A process that a step leaves alone writes no other flush.
LEMMA SameFlush ==
  ASSUME NEW q \in Proc, Same(q), FlushInv(q)
  PROVE  FlushInv(q)'
  BY DEF Same, FlushInv, Runs

\* And has no other flush to cover.
LEMMA SameBound ==
  ASSUME NEW q \in Proc, Same(q), FlushBound(q)
  PROVE  FlushBound(q)'
  BY DEF Same, FlushBound

\* Nobody has a handle at first, and there is no file.
LEMMA InitInv == Init => IInv
<1> SUFFICES ASSUME Init PROVE IInv
  OBVIOUS
<1>1. <<>> \in Seq(Event) /\ <<>> \in Seq(Op) /\ <<>> \in Seq(Frame)
  BY EmptySeq
<1>2. NoHandle \in Handle /\ NoBuffer \in Buffer
  BY <1>1 DEF NoHandle, NoBuffer, Handle, Buffer
<1>3. MemoryOK
  BY <1>1, <1>2 DEF Init, MemoryOK, NotClosing, NoFlush
<1>4. SharedOK
  <2>1. /\ made \in 0 .. MaxEvents /\ faults \in 0 .. MaxFaults
        /\ crashes \in 0 .. MaxCrashes /\ opens \in 0 .. MaxOpens
    BY SessionAssumption DEF Init, SessionAssumption
  <2>2. handle \in [Proc -> Handle]
    BY <1>2 DEF Init
  <2>3. /\ exists \in BOOLEAN /\ frames \in Seq(Frame) /\ owner \in Proc \cup {NoProc}
        /\ stored \in Nat /\ promised \in Seq(Event) /\ resent \in BOOLEAN
    BY <1>1 DEF Init
  <2> QED
    BY <2>1, <2>2, <2>3 DEF SharedOK
<1>5. LockInv
  BY InitLock
<1>6. FileInv
  <2>1. frames = <<>> /\ stored = 0 /\ made = 0 /\ Len(frames) = 0
    BY Tuples DEF Init
  <2>2. TornAt = 0
    BY <2>1 DEF TornAt
  <2>3. Records = <<>> /\ Decode(Sound) = <<>> /\ Len(<<>>) = 0
    <3>1. [events |-> <<>>, whole |-> TRUE] \in Frame
      BY <1>1 DEF Frame
    <3>2. Decode(<<>>) = <<>>
      BY <1>1, <3>1, DecodeFacts
    <3> QED
      BY <2>1, <2>2, <3>2, Tuples DEF Records, Sound
  <2> QED
    BY <2>1, <2>3 DEF FileInv, Numbered
<1>7. ASSUME NEW p \in Proc
      PROVE  Control(p) /\ TornInv(p) /\ FlushBound(p) /\ DataInv(p) /\ FlushInv(p)
  <2>1. state[p] = "shut" /\ Blank(p)
    BY DEF Init, Blank
  <2>2. /\ chain[p] = <<>> /\ step[p] = "idle" /\ batch[p] = <<>>
        /\ ~buffer[p].draining /\ buffer[p].events = <<>>
        /\ closer[p].at = "no" /\ flushing[p].at = "no"
    BY <2>1 DEF Blank, NoBuffer, NotClosing, NoFlush
  <2>3. ChainInv(p)
    BY <2>1, <2>2, ChainStarts DEF ChainInv
  <2>4. WorkInv(p) /\ CloseInv(p)
    BY <2>1, <2>2, ChainStarts DEF WorkInv, CloseInv, Begun, Runs
  <2>5. DataInv(p)
    BY <2>1 DEF DataInv, Attached
  <2>6. FlushInv(p)
    BY <2>1, <2>2 DEF FlushInv
  <2>7. TornInv(p) /\ FlushBound(p)
    BY <2>1, <2>2 DEF TornInv, FlushBound, Attached
  <2> QED
    BY <2>3, <2>4, <2>5, <2>6, <2>7 DEF Control
<1>8. CoreInv
  BY <1>3, <1>4, <1>5, <1>7, TypeParts DEF CoreInv
<1>9. DataKept
  BY <1>6, <1>7 DEF DataKept
<1> QED
  BY <1>8, <1>9 DEF IInv

\* Every step of every process keeps what does not depend on the file.
LEMMA CoreStep ==
  ASSUME CleanClose \/ LetsGoEmpty', CoreInv, [Next]_vars
  PROVE  CoreInv' /\ (resent => resent')
<1>1. /\ TypeOK /\ LockInv
      /\ \A q \in Proc : Control(q) /\ TornInv(q) /\ FlushBound(q)
  BY DEF CoreInv
<1>2. LockInv'
  BY <1>1, StepKeepsLock, SessionAssumption
<1>3. CASE UNCHANGED vars
  <2>1. /\ frames' = frames /\ exists' = exists /\ owner' = owner /\ stored' = stored
        /\ promised' = promised /\ resent' = resent /\ made' = made /\ faults' = faults
        /\ crashes' = crashes /\ opens' = opens
    BY <1>3 DEF vars, file, history, counters
  <2>2. /\ state' = state /\ live' = live /\ on' = on /\ handle' = handle /\ buffer' = buffer
        /\ chain' = chain /\ step' = step /\ batch' = batch /\ closer' = closer
        /\ flushing' = flushing
    BY <1>3 DEF vars, memory
  <2>3. TypeOK'
    BY <1>1, <2>1, <2>2 DEF TypeOK
  <2>4. ASSUME NEW q \in Proc
        PROVE  (Control(q) /\ TornInv(q) /\ FlushBound(q))'
    <3>1. Same(q)
      BY <2>2 DEF Same
    <3>2. TornInv(q)'
      BY <1>1, <2>1, <2>2 DEF TornInv, Attached
    <3> QED
      BY <1>1, <3>1, <3>2, SameControl, SameBound
  <2> QED
    BY <1>2, <2>1, <2>3, <2>4 DEF CoreInv
<1>4. CASE Next
  <2>1. PICK p \in Proc : Acts(p)
    BY <1>4 DEF Next, Acts
  <2>2. Control(p) /\ TornInv(p) /\ FlushBound(p)
    BY <1>1
  <2>3. /\ stored' \in Nat /\ promised' \in Seq(Event) /\ resent' \in BOOLEAN
        /\ resent => resent'
    BY <1>1, <2>1, <2>2, ActsPromise
  <2>4. MemoryOK'
    BY <1>1, <2>1, <2>2, ActsMemory
  <2>5. SharedOK'
    <3>1. handle' \in [Proc -> Handle]
      BY <1>1, <2>1, ActsHandle
    <3>2. frames' \in Seq(Frame)
      BY <1>1, <2>1, <2>2, ActsFrames
    <3>3. /\ made' \in 0 .. MaxEvents /\ faults' \in 0 .. MaxFaults
          /\ crashes' \in 0 .. MaxCrashes /\ opens' \in 0 .. MaxOpens
          /\ exists' \in BOOLEAN /\ owner' \in Proc \cup {NoProc}
      BY <1>1, <2>1, ActsCounters
    <3> QED
      BY <2>3, <3>1, <3>2, <3>3 DEF SharedOK
  <2>6. ASSUME NEW q \in Proc
        PROVE  (Control(q) /\ TornInv(q) /\ FlushBound(q))'
    <3>1. CASE q = p
      <4>1. Control(p)' /\ TornInv(p)' /\ FlushBound(p)'
        BY <1>1, <2>1, <2>2, ActsControl, ActsTorn, ActsBound
      <4> QED
        BY <3>1, <4>1
    <3>2. CASE q # p
      <4>1. Same(q)
        BY <1>1, <2>1, <3>2, OthersSame
      <4>2. TornInv(q)'
        BY <1>1, <2>1, <2>2, <3>2, OthersTorn
      <4> QED
        BY <1>1, <4>1, <4>2, SameControl, SameBound
    <3> QED
      BY <3>1, <3>2
  <2> QED
    BY <1>2, <2>3, <2>4, <2>5, <2>6, TypeParts DEF CoreInv
<1> QED
  BY <1>3, <1>4

\* And, as long as nothing rejected is sent again, what does.
LEMMA DataStep ==
  ASSUME CoreInv, CoreInv', DataKept, [Next]_vars, ~resent'
  PROVE  DataKept'
<1>1. /\ TypeOK /\ LockInv /\ FileInv
      /\ \A q \in Proc : Control(q) /\ DataInv(q) /\ FlushInv(q)
  BY DEF CoreInv, DataKept
<1>2. exists' \in BOOLEAN
  BY DEF CoreInv, TypeOK
<1>3. CASE UNCHANGED vars
  <2>1. /\ frames' = frames /\ exists' = exists /\ stored' = stored /\ made' = made
        /\ state' = state /\ live' = live /\ on' = on /\ handle' = handle /\ buffer' = buffer
        /\ chain' = chain /\ step' = step /\ batch' = batch /\ closer' = closer
        /\ flushing' = flushing
    BY <1>3 DEF vars, file, memory, history, counters
  <2>2. made \in Nat /\ made <= made' /\ made' \in Nat
    BY <1>1, <2>1, SessionAssumption DEF TypeOK, SessionAssumption
  <2>3. FileInv'
    BY <1>1, <2>1, <2>2, FileStays
  <2>4. ASSUME NEW q \in Proc
        PROVE  (DataInv(q) /\ FlushInv(q))'
    <3>1. Same(q)
      BY <2>1 DEF Same
    <3> QED
      BY <1>1, <1>2, <2>1, <2>2, <3>1, SameData, SameFlush
  <2> QED
    BY <2>3, <2>4 DEF DataKept
<1>4. CASE Next
  <2>1. PICK p \in Proc : Acts(p)
    BY <1>4 DEF Next, Acts
  <2>2. Control(p) /\ DataInv(p) /\ FlushInv(p)
    BY <1>1
  <2>3. FileInv'
    BY <1>1, <2>1, <2>2, ActsFile
  <2>4. ASSUME NEW q \in Proc
        PROVE  (DataInv(q) /\ FlushInv(q))'
    <3>1. CASE q = p
      <4>1. DataInv(p)' /\ FlushInv(p)'
        BY <1>1, <2>1, <2>2, ActsData, ActsFlush
      <4> QED
        BY <3>1, <4>1
    <3>2. CASE q # p
      <4>1. Same(q)
        BY <1>1, <2>1, <3>2, OthersSame
      <4>2. DataInv(q)'
        BY <1>1, <1>2, <2>1, <2>2, <3>2, OthersData
      <4> QED
        BY <1>1, <4>1, <4>2, SameFlush
    <3> QED
      BY <3>1, <3>2
  <2> QED
    BY <2>3, <2>4 DEF DataKept
<1> QED
  BY <1>3, <1>4

\* The invariant holds on both sides of that line.
LEMMA StepKeepsAll ==
  ASSUME CleanClose \/ LetsGoEmpty', IInv, [Next]_vars
  PROVE  IInv'
<1>1. CoreInv' /\ (resent => resent')
  BY CoreStep DEF IInv
<1>2. CASE resent'
  BY <1>1, <1>2 DEF IInv
<1>3. CASE ~resent'
  <2>1. CoreInv /\ DataKept
    BY <1>1, <1>3 DEF IInv
  <2>2. DataKept'
    BY <1>1, <1>3, <2>1, DataStep
  <2> QED
    BY <1>1, <2>2 DEF IInv
<1> QED
  BY <1>2, <1>3

\* The log, the handles, the chain and the buffer agree, as long as handles are
\* let go empty.
THEOREM SessionInvariant == Spec /\ []LetsGoEmpty => []IInv
<1>1. IInv /\ LetsGoEmpty' /\ [Next]_vars => IInv'
  BY StepKeepsAll
<1> QED
  BY <1>1, InitInv, PTL DEF Spec

\* They are, in the behaviours that CleanClose keeps.
THEOREM LetsGoCorrect ==
  ASSUME CleanClose
  PROVE  Spec => []LetsGoEmpty
<1>1. IInv /\ [Next]_vars => IInv'
  BY StepKeepsAll
<1>2. IInv => LetsGoEmpty
  BY DEF IInv, CoreInv, Control, CloseInv, LettingGo, LetsGoEmpty
<1> QED
  BY <1>1, <1>2, InitInv, PTL DEF Spec

\* Every variable has its type.
THEOREM TypeCorrect == Spec /\ []LetsGoEmpty => []TypeOK
<1>1. IInv => TypeOK
  BY DEF IInv, CoreInv
<1> QED
  BY <1>1, SessionInvariant, PTL

\* Whatever crashes, failed operations and retries came before, the log can be
\* opened: no record is missing, doubled or out of order.
THEOREM ReadableCorrect == Spec /\ []LetsGoEmpty => []LogIsReadable
<1>1. IInv => LogIsReadable
  <2> SUFFICES ASSUME IInv, ~resent PROVE Readable
    BY DEF LogIsReadable
  <2>1. /\ \A i \in 1 .. Len(frames) - 1 : frames[i].whole
        /\ \A i \in 1 .. Len(Records) : Records[i].seq = 0 + i
    BY DEF IInv, DataKept, FileInv, Numbered
  <2>2. \A i \in 1 .. Len(Records) : 0 + i = i
    OBVIOUS
  <2> QED
    BY <2>1, <2>2 DEF Readable
<1> QED
  BY <1>1, SessionInvariant, PTL

\* Then the lock is held whenever the file changes, as lease.ts says: what
\* breaks that is a handle that is let go with something to write, and nothing else.
THEOREM LeaseHolds == Spec /\ []LetsGoEmpty => []WritesUnderLock
<1>1. IInv /\ OwnerWrites => WritesUnderLock
  <2> SUFFICES ASSUME IInv, OwnerWrites, NEW p \in Proc, Mutating(p)
               PROVE  owner = p
    BY DEF WritesUnderLock
  <2>1. step[p] # "idle"
    BY DEF Mutating, Truncating, Rewriting, Writing
  <2>2. state[p] # "stray"
    BY <2>1 DEF IInv, CoreInv, Control, ChainInv, CloseInv
  <2> QED
    BY <2>2 DEF OwnerWrites
<1> QED
  BY <1>1, SessionInvariant, OwnerWritesCorrect, PTL

\* What a handle counts as stored is what the file holds with the records it
\* still owes it, and the rest of the session waits behind it in order.
THEOREM TracksCorrect == Spec /\ []LetsGoEmpty => []HandleTracksFile
<1>1. IInv => HandleTracksFile
  <2> SUFFICES ASSUME IInv, ~resent, NEW p \in Proc, Attached(p)
               PROVE  /\ live[p] = SubSeq(live[p], 1, handle[p].cursor) \o Waiting(p)
                      /\ handle[p].materialized /\ handle[p].lease = "held" =>
                           SubSeq(live[p], 1, handle[p].cursor)
                             = Decode(Told(p)) \o Owed(p)
    BY DEF HandleTracksFile, Attached, Waiting, Owed
  <2>1. TypeOK /\ FileInv /\ DataInv(p)
    BY DEF IInv, CoreInv, DataKept
  <2>2. TrackInv(p)
    BY <2>1, AttachedData
  <2>3. Base(p) \in Seq(Event) /\ Waiting(p) \in Seq(Event)
    BY <2>1, DataTypes
  <2>4. ASSUME NEW a \in Seq(Event), NEW b \in Seq(Event)
        PROVE  SubSeq(a \o b, 1, Len(a)) = a
    <3>1. Len(a) \in 0 .. Len(a)
      BY LenProperties
    <3> QED
      BY <3>1, PrefixOfConcat
  <2>5. SubSeq(live[p], 1, handle[p].cursor) = Base(p)
    BY <2>2, <2>3, <2>4 DEF TrackInv
  <2> QED
    BY <2>2, <2>5 DEF TrackInv, Base
<1> QED
  BY <1>1, SessionInvariant, PTL

\* A session/flush that resolves has every event published before it in the file.
THEOREM FlushCorrect == Spec /\ []LetsGoEmpty => FlushCovers
<1>1. IInv /\ [Next]_vars
        => [promised' # promised => resent' \/ IsPrefix(promised', Records')]_vars
  <2> SUFFICES ASSUME IInv, Next, promised' # promised, ~resent'
               PROVE  IsPrefix(promised', Records')
    BY DEF vars, history
  <2>1. PICK p \in Proc : Acts(p)
    BY DEF Next, Acts
  <2>2. /\ TypeOK /\ LockInv /\ FileInv /\ Control(p) /\ DataInv(p) /\ FlushInv(p)
    <3>1. TypeOK /\ LockInv /\ Control(p) /\ FlushBound(p)
      BY DEF IInv, CoreInv
    <3>2. ~resent
      BY <2>1, <3>1, ActsPromise
    <3> QED
      BY <3>1, <3>2 DEF IInv, DataKept
  <2>3. /\ flushing[p].upTo \in 0 .. Len(Records) /\ frames' = frames
        /\ promised' = SubSeq(Records, 1, flushing[p].upTo)
    BY <2>1, <2>2, ActsHistory
  <2>4. Records \in Seq(Event) /\ Records' = Records
    BY <2>2, <2>3, DataTypes DEF Records
  <2>5. ASSUME NEW s \in Seq(Event), NEW n \in 0 .. Len(s)
        PROVE  IsPrefix(SubSeq(s, 1, n), s)
    <3> DEFINE u == SubSeq(s, 1, n)
    <3>1. u \in Seq(Event) /\ Len(u) = n
      BY PrefixType
    <3>2. SubSeq(u, 1, Len(u)) = u
      BY <3>1, SubSeqFull
    <3>3. Len(u) <= Len(s)
      BY <3>1, LenProperties
    <3>4. SubSeq(u, 1, Len(u)) = SubSeq(s, 1, Len(u))
      BY <3>1, <3>2 DEF u
    <3> HIDE DEF u
    <3>5. IsPrefix(u, s)
      BY <3>3, <3>4 DEF IsPrefix
    <3> QED
      BY <3>5 DEF u
  <2> QED
    BY <2>3, <2>4, <2>5
<1> QED
  BY <1>1, SessionInvariant, PTL DEF Spec, FlushCovers

-----------------------------------------------------------------------------
(* The durable log.                                                          *)

\* What is acknowledged is in the file.
LEMMA StoredFits ==
  ASSUME TypeOK, FileInv
  PROVE  /\ Records \in Seq(Event) /\ stored \in Nat
         /\ stored <= Len(Records)
<1>1. /\ frames \in Seq(Frame) /\ stored \in Nat /\ stored <= Len(Decode(Sound))
  BY DEF TypeOK, FileInv
<1>2. Records \in Seq(Event) /\ Decode(Sound) \in Seq(Event)
  BY <1>1, TornFacts
<1>3. CASE TornAt = 0
  BY <1>1, <1>2, <1>3, TornFacts DEF Records
<1>4. CASE TornAt # 0
  <2>1. frames # <<>> /\ Sound = SubSeq(frames, 1, Len(frames) - 1)
    BY <1>1, <1>4, TornFacts
  <2>2. /\ frames[Len(frames)].events \in Seq(Event)
        /\ Records = Decode(Sound) \o frames[Len(frames)].events
    BY <1>1, <2>1, FrameCut DEF Records, FileInv
  <2>3. Len(Records) = Len(Decode(Sound)) + Len(frames[Len(frames)].events)
    BY <1>2, <2>2, ConcatProperties
  <2> DEFINE d == Len(Decode(Sound))
             e == Len(frames[Len(frames)].events)
  <2>4. d \in Nat /\ e \in Nat /\ stored <= d /\ Len(Records) = d + e
    BY <1>1, <1>2, <2>2, <2>3, LenProperties
  <2> HIDE DEF d, e
  <2>5. stored <= Len(Records)
    BY <1>1, <2>4
  <2> QED
    BY <1>1, <1>2, <2>5
<1> QED
  BY <1>3, <1>4

\* Records that come behind those there are extend the log, whether they are
\* acknowledged or not.
LEMMA ExtendStep ==
  ASSUME TypeOK, FileInv, NEW t \in Seq(Event), Records' = Records \o t,
         stored' \in {stored, Len(Records')}
  PROVE  Durable!Extend
<1>1. /\ Records \in Seq(Event) /\ stored \in Nat /\ stored <= Len(Records)
  BY StoredFits
<1>2. Records' \in Seq(Event) /\ Len(Records') = Len(Records) + Len(t)
  BY <1>1, ConcatProperties
<1>3. SubSeq(Records', 1, Len(Records)) = Records
  <2>1. ASSUME NEW a \in Seq(Event), NEW b \in Seq(Event)
        PROVE  SubSeq(a \o b, 1, Len(a)) = a
    <3>1. Len(a) \in 0 .. Len(a)
      BY LenProperties
    <3> QED
      BY <3>1, PrefixOfConcat
  <2> QED
    BY <1>1, <2>1
<1> DEFINE r == Len(Records)
           n == Len(t)
           z == Len(Records')
<1>4. r \in Nat /\ n \in Nat /\ z = r + n /\ stored <= r /\ stored' \in {stored, z}
  BY <1>1, <1>2, LenProperties
<1> HIDE DEF r, n, z
<1>5. r <= z /\ stored' \in stored .. z
  BY <1>1, <1>4
<1>6. Len(Records) <= Len(Records') /\ stored' \in stored .. Len(Records')
  BY <1>5 DEF r, z
<1> QED
  BY <1>2, <1>3, <1>6 DEF Durable!Extend

\* The records of a torn frame are cut off.
LEMMA CutStep ==
  ASSUME TypeOK, FileInv, TornAt # 0, Records' = Decode(Sound), stored' = stored
  PROVE  Durable!CutBack
<1>1. frames \in Seq(Frame) /\ stored \in Nat
  BY DEF TypeOK
<1>2. frames # <<>> /\ Sound = SubSeq(frames, 1, Len(frames) - 1) /\ Decode(Sound) \in Seq(Event)
  BY <1>1, TornFacts
<1>3. /\ frames[Len(frames)].events \in Seq(Event)
      /\ Records = Decode(Sound) \o frames[Len(frames)].events
  BY <1>1, <1>2, FrameCut DEF Records, FileInv
<1>4. stored <= Len(Decode(Sound))
  BY DEF FileInv
<1>5. ASSUME NEW a \in Seq(Event), NEW b \in Seq(Event), stored <= Len(a)
      PROVE  Len(a) \in stored .. Len(a \o b) /\ a = SubSeq(a \o b, 1, Len(a))
  <2>1. Len(a) \in 0 .. Len(a) /\ Len(a) \in Nat /\ Len(b) \in Nat
    BY LenProperties
  <2>2. Len(a \o b) = Len(a) + Len(b)
    BY ConcatProperties
  <2>3. a = SubSeq(a \o b, 1, Len(a))
    BY <2>1, PrefixOfConcat
  <2> QED
    BY <1>1, <1>5, <2>1, <2>2, <2>3
<1>6. \E n \in stored .. Len(Records) : Decode(Sound) = SubSeq(Records, 1, n)
  BY <1>2, <1>3, <1>4, <1>5
<1> QED
  BY <1>6 DEF Durable!CutBack

\* A truncation, whether the handle hears of it or not.
LEMMA TruncateStep ==
  ASSUME TypeOK, FileInv, LockInv, NEW p \in Proc, Control(p), DataInv(p),
         Truncating(p), frames' = SubSeq(frames, 1, handle[p].torn - 1),
         exists' = exists, stored' = stored, made' = made
  PROVE  Durable!CutBack \/ (Records' = Records /\ stored' = stored)
<1>1. HandleInv(p)
  <2>1. step[p] # "idle"
    BY DEF Truncating
  <2> QED
    BY <2>1, BusyHasHandle, RunningAttached, AttachedData
<1>2. \/ TornAt # 0 /\ Records' = Decode(Sound)
      \/ Records' = Records
  BY <1>1, CutFacts
<1> QED
  BY <1>2, CutStep

\* What one process does to the file is a step of the durable log.
LEMMA ActsDurable ==
  ASSUME TypeOK, FileInv, LockInv, NEW p \in Proc, Control(p), DataInv(p), Acts(p),
         ~resent'
  PROVE  Durable!DNext \/ (Records' = Records /\ stored' = stored)
<1>1. /\ frames \in Seq(Frame) /\ batch[p] \in Seq(Event)
      /\ handle[p].recovered \in Seq(Event)
  BY DataTypes DEF TypeOK
<1>2. CASE frames' = frames /\ stored' = stored
  BY <1>2 DEF Records
<1>3. CASE Leave(p)
  BY <1>2, <1>3, LeaveFile
<1>4. CASE RefuseWrite(p)
  BY <1>2, <1>4 DEF RefuseWrite, file, history
<1>5. CASE WriteBatch(p)
  BY <1>1, <1>5, WriteData, ExtendStep DEF Durable!DNext
<1>6. CASE RewriteTail(p)
  BY <1>1, <1>6, RewriteData, ExtendStep DEF Durable!DNext
<1>7. CASE TruncateTail(p)
  <2>1. /\ Truncating(p) /\ frames' = SubSeq(frames, 1, handle[p].torn - 1)
        /\ exists' = exists /\ made' = made /\ stored' = stored
    BY <1>7 DEF TruncateTail, history, counters
  <2> QED
    BY <2>1, TruncateStep DEF Durable!DNext
<1>8. CASE FileOpFails(p)
  <2>1. exists' = exists /\ made' = made /\ stored' = stored
    BY <1>8 DEF FileOpFails, history
  <2>2. \/ frames' = frames
        \/ Truncating(p) /\ frames' = SubSeq(frames, 1, handle[p].torn - 1)
    BY <1>8 DEF FileOpFails
  <2> QED
    BY <1>2, <2>1, <2>2, TruncateStep DEF Durable!DNext
<1>9. CASE AppendStays(p)
  <2>1. ~handle[p].left
    BY <1>9 DEF AppendStays, Resends
  <2>2. stored' = stored /\ \E t \in Seq(Event) : Records' = Records \o t
    BY <1>9, <2>1, StaysFacts
  <2> QED
    BY <2>2, ExtendStep DEF Durable!DNext
<1>10. CASE PublishUnsynced(p)
  <2>0. step[p] # "idle"
    BY <1>10 DEF PublishUnsynced, Writing
  <2>1. /\ Writing(p) /\ MayWrite(p) /\ ~exists /\ exists' /\ frames' = BatchFrame(p)
        /\ made' = made /\ stored' = stored /\ ~handle[p].left
    BY <1>10, <2>0, BusyHasHandle, RunningAttached, AttachedData
       DEF PublishUnsynced, MayWrite, HandleInv, history
  <2>2. frames = <<>>
    BY <2>1 DEF FileInv
  <2>3. BatchFrame(p) = <<>> \o BatchFrame(p)
    <3> DEFINE fr == [events |-> batch[p], whole |-> TRUE]
    <3>1. BatchFrame(p) = <<>> \/ BatchFrame(p) = <<fr>>
      BY DEF BatchFrame
    <3> HIDE DEF fr
    <3> QED
      BY <3>1, Tuples
  <2>4. frames' = frames \o BatchFrame(p)
    BY <2>1, <2>2, <2>3
  <2>5. Records' = Records \o batch[p]
    BY <2>1, <2>4, BatchWritten
  <2> QED
    BY <1>1, <2>1, <2>5, ExtendStep DEF Durable!DNext
<1>11. CASE Crash(p)
  BY <1>11, CrashFile, ExtendStep, CutStep DEF Durable!DNext
<1> QED
  BY <1>3, <1>4, <1>5, <1>6, <1>7, <1>8, <1>9, <1>10, <1>11, LeaveOrTouch DEF Touch

\* The file keeps what the durable log promises, as long as no rejected append
\* is sent again: it grows at its end, only records that nobody has been promised
\* are cut off, and an acknowledged record keeps its place for ever.
THEOREM AcknowledgedCorrect == Spec /\ []LetsGoEmpty /\ []~resent => KeepsAcknowledged
<1>1. Init => Durable!DInit
  <2> SUFFICES ASSUME Init PROVE Durable!DInit
    OBVIOUS
  <2>1. frames = <<>> /\ stored = 0
    BY DEF Init
  <2>2. [events |-> <<>>, whole |-> TRUE] \in Frame /\ <<>> \in Seq(Frame)
    BY DEF Frame
  <2>3. Decode(<<>>) = <<>>
    BY <2>2, DecodeFacts
  <2> QED
    BY <2>1, <2>3, Tuples DEF Durable!DInit, Records
<1>2. IInv /\ (~resent)' /\ [Next]_vars => [Durable!DNext]_(Durable!dvars)
  <2> SUFFICES ASSUME IInv, ~resent', [Next]_vars PROVE [Durable!DNext]_(Durable!dvars)
    OBVIOUS
  <2>1. CASE UNCHANGED vars
    <3>1. frames' = frames /\ stored' = stored
      BY <2>1 DEF vars, file, history
    <3> QED
      BY <3>1 DEF Durable!dvars, Records
  <2>2. CASE Next
    <3>1. PICK p \in Proc : Acts(p)
      BY <2>2 DEF Next, Acts
    <3>2. TypeOK /\ LockInv /\ Control(p) /\ FlushBound(p)
      BY DEF IInv, CoreInv
    <3>3. ~resent
      BY <3>1, <3>2, ActsPromise
    <3>4. FileInv /\ DataInv(p)
      BY <3>3 DEF IInv, DataKept
    <3>5. Durable!DNext \/ (Records' = Records /\ stored' = stored)
      BY <3>1, <3>2, <3>4, ActsDurable
    <3> QED
      BY <3>5 DEF Durable!dvars
  <2> QED
    BY <2>1, <2>2
<1> QED
  BY <1>1, <1>2, SessionInvariant, PTL DEF Spec, KeepsAcknowledged, Durable!DSpec

=============================================================================
