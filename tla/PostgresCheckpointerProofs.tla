--------------------- MODULE PostgresCheckpointerProofs ---------------------
(***************************************************************************)
(* Proofs about PostgresCheckpointer, for every number of threads, batch   *)
(* size, capacity and bound.  IInv is inductive; the safety properties     *)
(* follow from it.                                                         *)
(***************************************************************************)
EXTENDS PostgresCheckpointer, FiniteSetTheorems, WellFoundedInduction,
        TLAPS

-----------------------------------------------------------------------------
(* Lemmas about the operators.                                             *)

(* Every nonempty set of checkpoints has a newest member. *)
LEMMA NewestExists ==
  ASSUME NEW n \in Nat, NEW S \in SUBSET (1..n), S # {}
  PROVE  \E m \in S : \A j \in S : j <= m
<1> DEFINE T == {k \in Nat : n - k \in S}
<1>1. T \subseteq Nat /\ T # {}
  <2>1. PICK i \in S : TRUE
    OBVIOUS
  <2>2. n - i \in Nat /\ n - (n - i) = i
    BY <2>1
  <2> QED BY <2>1, <2>2
<1>2. PICK x \in T : \A y \in T : ~ (<<y, x>> \in OpToRel(<, Nat))
  <2> HIDE DEF T
  <2> QED BY <1>1, NatLessThanWellFounded, WFMin
<1>3. ASSUME NEW j \in S PROVE j <= n - x
  <2>1. n - j \in T
    BY <1>3
  <2>2. ~ (n - j < x)
    BY <1>2, <2>1, n - j \in Nat, x \in Nat DEF OpToRel
  <2> QED BY <2>2
<1> QED BY <1>3

(* aget's answer within a set of checkpoints is its newest member. *)
LEMMA LatestIsNewest ==
  ASSUME NEW n \in Nat, NEW S \in SUBSET (1..n), S # {}
  PROVE  Latest(S) \in S /\ \A j \in S : j <= Latest(S)
<1>1. \E m \in S : \A j \in S : j <= m
  BY NewestExists
<1> QED BY <1>1 DEF Latest

(* A batch is a set of oldest entries. *)
LEMMA BatchIsPrefix ==
  ASSUME NEW n \in Nat, NEW S \in SUBSET (1..n)
  PROVE  /\ Batch(S) \subseteq S
         /\ \A i \in Batch(S), j \in S \ Batch(S) : i < j
<1>1. IsFiniteSet(S)
  BY FS_Interval, FS_Subset, 1 \in Int, n \in Int
<1>2. ASSUME NEW i \in Batch(S), NEW j \in S \ Batch(S), ~ (i < j)
      PROVE  FALSE
  <2> DEFINE Upto(k) == {l \in S : l <= k}
  <2>0. S \subseteq Int /\ i \in S /\ j \in S /\ j <= i
    BY <1>2 DEF Batch
  <2>1. ASSUME NEW l \in Upto(j) PROVE l \in Upto(i)
    BY <2>0, l \in Int, i \in Int, j \in Int
  <2>2. IsFiniteSet(Upto(i)) /\ IsFiniteSet(Upto(j))
    BY <1>1, FS_Subset
  <2>3. Cardinality(Upto(j)) <= Cardinality(Upto(i))
    BY <2>1, <2>2, FS_Subset, Upto(j) \in SUBSET Upto(i)
  <2>4. Cardinality(Upto(i)) \in Nat /\ Cardinality(Upto(j)) \in Nat
    BY <2>2, FS_CardinalityType
  <2>5. Cardinality(Upto(i)) <= BatchSize /\ ~ (Cardinality(Upto(j)) <= BatchSize)
    BY <1>2 DEF Batch
  <2> QED BY <2>3, <2>4, <2>5, SettingsAssumption
<1> QED BY <1>2 DEF Batch

(* What `del` takes from the buffer is a set of oldest entries of the batch. *)
LEMMA AfterDelFacts ==
  ASSUME NEW b \in SUBSET Int, NEW sent \in SUBSET Int,
         \A i \in sent, j \in b \ sent : i < j
  PROVE  /\ AfterDel(b, sent) \subseteq b
         /\ b \ AfterDel(b, sent) \subseteq sent
         /\ \A i \in b \ AfterDel(b, sent), j \in AfterDel(b, sent) : i < j
         /\ sent \subseteq b => AfterDel(b, sent) = b \ sent
BY DEF AfterDel

(* What the next put adds. *)
LEMMA PutFacts ==
  ASSUME owner \in Seq(Threads), NEW t \in Threads, owner' = Append(owner, t)
  PROVE  /\ Puts = 1..Len(owner) /\ Len(owner) \in Nat
         /\ Puts' = Puts \cup {Len(owner) + 1}
         /\ Len(owner) + 1 \notin Puts
         /\ owner' \in Seq(Threads)
BY DEF Puts

-----------------------------------------------------------------------------
(* The inductive invariant.                                                *)

LEMMA InitIInv == Init => IInv
<1> SUFFICES ASSUME Init PROVE IInv
  OBVIOUS
<1>1. owner \in Seq(Threads)
  BY DEF Init
<1>2. TypeOK
  BY <1>1 DEF Init, TypeOK, Flushers, LoopStates
<1> QED BY <1>2 DEF Init, IInv, NoLoss, LandedIsStored, BatchIsHeld, BatchIsOldest, FlushedInOrder,
                    FlushLockOwned

(* Buffering one more checkpoint, in any of the three ways aput gets there. *)
LEMMA InsertIInv ==
  ASSUME IInv, NEW t \in Threads, Insert(t), WriterUnchanged,
         forced' \in {forced, forced \cup {Len(owner) + 1}}
  PROVE  IInv'
<1> DEFINE i == Len(owner) + 1
<1>1. /\ Puts' = Puts \cup {i} /\ i \notin Puts /\ owner' \in Seq(Threads)
      /\ Puts \subseteq Int /\ i \in Int /\ \A j \in Puts : j < i
  BY PutFacts DEF IInv, TypeOK, Insert
<1>2. /\ buffer' = buffer \cup {i} /\ live' = live \cup {i}
      /\ UNCHANGED <<rows, lock, batch, landed, loop, stop, failures, deleting, faults>>
  BY DEF Insert, WriterUnchanged, flushVars
<1>3. spawned' \in Nat /\ panic' \in BOOLEAN
  BY BoundsAssumption DEF Insert, Spawned, IInv, TypeOK, Full
<1>4. /\ aputs' \in [Threads -> {"idle", "waiting", "notified"}]
      /\ polls' \in [Threads -> Nat]
  BY DEF Insert, IInv, TypeOK
<1>5. TypeOK'
  BY <1>1, <1>2, <1>3, <1>4 DEF IInv, TypeOK
<1>6. NoLoss' /\ LandedIsStored' /\ BatchIsHeld' /\ FlushLockOwned'
  BY <1>1, <1>2 DEF IInv, TypeOK, NoLoss, LandedIsStored, BatchIsHeld, FlushLockOwned
<1>7. BatchIsOldest' /\ FlushedInOrder'
  BY <1>1, <1>2 DEF IInv, TypeOK, BatchIsOldest, FlushedInOrder
<1> QED BY <1>5, <1>6, <1>7 DEF IInv

(* Waiting on backpressure touches none of the checkpoints. *)
LEMMA WaitIInv ==
  ASSUME IInv, NEW t \in Threads, NEW n \in Nat, Wait(t, n), WriterUnchanged
  PROVE  IInv'
<1>1. TypeOK'
  BY BoundsAssumption DEF IInv, TypeOK, Wait, WriterUnchanged, flushVars, histVars,
                          Spawned, Puts
<1> QED BY <1>1 DEF IInv, NoLoss, LandedIsStored, BatchIsHeld, BatchIsOldest, FlushedInOrder,
                    FlushLockOwned, Wait, WriterUnchanged, flushVars, histVars

LEMMA AputIInv ==
  ASSUME IInv, NEW t \in Threads, Aput(t) \/ AputNotified(t) \/ AputPollTimeout(t)
  PROVE  IInv'
<1>1. /\ WriterUnchanged
      /\ \/ Insert(t) /\ forced' \in {forced, forced \cup {Len(owner) + 1}}
         \/ \E n \in Nat : Wait(t, n)
  BY DEF Aput, AputNotified, AputPollTimeout, IInv, TypeOK
<1> QED BY <1>1, InsertIInv, WaitIInv

(* What a flush hands back to its caller keeps the types, and leaves the lock
   with nobody. *)
LEMMA HandBack ==
  ASSUME TypeOK, NEW p \in Flushers,
         \/ Returned(p) /\ failures' \in {failures, 0}
         \/ Raised(p)
  PROVE  /\ loop' \in LoopStates
         /\ stop' \in {"idle", "wait", "flush", "stopped"}
         /\ failures' \in Nat
BY DEF TypeOK, Returned, Raised, LoopStates, Flushers

(* Types at the level the ordering arguments need. *)
LEMMA IntTypes ==
  ASSUME TypeOK
  PROVE  /\ Len(owner) \in Nat /\ Puts = 1..Len(owner)
         /\ buffer \in SUBSET (1..Len(owner)) /\ batch \in SUBSET (1..Len(owner))
         /\ live \in SUBSET (1..Len(owner)) /\ rows \in SUBSET (1..Len(owner))
         /\ 1..Len(owner) \subseteq Int
BY DEF TypeOK, Puts

LEMMA BeginFlushIInv ==
  ASSUME IInv, NEW p \in Flushers, BeginFlush(p)
  PROVE  IInv'
<1>1. /\ batch' = Batch(buffer) /\ lock' = p /\ landed' = FALSE
      /\ UNCHANGED <<owner, buffer, rows, panic, aputs, polls, loop, failures, stop,
                     deleting, faults, live, forced>>
  BY DEF BeginFlush, writerVars, histVars
<1>2. batch' \subseteq buffer /\ \A i \in batch', j \in buffer \ batch' : i < j
  BY <1>1, BatchIsPrefix, IntTypes DEF IInv
<1>3. spawned' \in Nat
  BY DEF BeginFlush, Wants, IInv, TypeOK
<1>4. Puts' = Puts
  BY <1>1 DEF Puts
<1>5. TypeOK'
  BY <1>1, <1>2, <1>3, <1>4 DEF IInv, TypeOK
<1>6. NoLoss' /\ LandedIsStored' /\ BatchIsHeld' /\ FlushedInOrder' /\ BatchIsOldest'
  BY <1>1, <1>2 DEF IInv, NoLoss, LandedIsStored, BatchIsHeld, FlushedInOrder, BatchIsOldest
<1>7. FlushLockOwned'
  BY <1>1 DEF BeginFlush, Wants, FlushLockOwned, Flushers
<1> QED BY <1>5, <1>6, <1>7 DEF IInv

LEMMA SkipFlushIInv ==
  ASSUME IInv, NEW p \in Flushers, SkipFlush(p)
  PROVE  IInv'
<1>1. /\ UNCHANGED <<owner, buffer, rows, panic, aputs, polls, lock, batch, landed,
                     failures, deleting, faults, live, forced>>
      /\ lock = "free" /\ Returned(p)
  BY DEF SkipFlush, writerVars, flushVars, histVars
<1>2. spawned' \in Nat
  BY DEF SkipFlush, Wants, IInv, TypeOK
<1>3. TypeOK'
  BY <1>1, <1>2, HandBack DEF IInv, TypeOK, Puts
<1> QED BY <1>1, <1>3 DEF IInv, NoLoss, LandedIsStored, BatchIsHeld, FlushedInOrder, BatchIsOldest,
                          FlushLockOwned

LEMMA LandIInv ==
  ASSUME IInv, Land
  PROVE  IInv'
<1>1. /\ rows' = rows \cup batch /\ landed' = TRUE
      /\ UNCHANGED <<owner, buffer, panic, aputs, polls, lock, batch, spawned, loop,
                     failures, stop, deleting, faults, live, forced>>
  BY DEF Land, writerVars, histVars
<1>2. TypeOK'
  BY <1>1 DEF IInv, TypeOK, Puts
<1> QED BY <1>1, <1>2 DEF IInv, NoLoss, LandedIsStored, BatchIsHeld, FlushedInOrder, BatchIsOldest,
                          FlushLockOwned

(* The heart of the argument: a committed batch that leaves the buffer leaves
   no live checkpoint behind and lets no younger one overtake an older one. *)
LEMMA DropFlushed ==
  ASSUME IInv, landed, buffer' = AfterDel(buffer, batch), UNCHANGED <<owner, rows, live>>
  PROVE  /\ NoLoss'
         /\ FlushedInOrder'
         /\ buffer' \subseteq buffer
<1>1. /\ buffer' \subseteq buffer /\ buffer \ buffer' \subseteq batch
      /\ \A i \in buffer \ buffer', j \in buffer' : i < j
  <2>1. buffer \in SUBSET Int /\ batch \in SUBSET Int
    BY IntTypes DEF IInv
  <2> QED BY <2>1, AfterDelFacts DEF IInv, BatchIsOldest
<1>2. NoLoss'
  BY <1>1 DEF IInv, NoLoss, LandedIsStored, BatchIsHeld
<1>3. FlushedInOrder'
  BY <1>1 DEF IInv, FlushedInOrder
<1> QED BY <1>1, <1>2, <1>3

LEMMA NextBatchIInv ==
  ASSUME IInv, NextBatch
  PROVE  IInv'
<1>1. /\ landed /\ buffer' = AfterDel(buffer, batch) /\ batch' = Batch(buffer')
      /\ landed' = FALSE
      /\ UNCHANGED <<owner, rows, panic, aputs, polls, lock, spawned, loop, failures,
                     stop, deleting, faults, live, forced>>
  BY DEF NextBatch, writerVars, histVars
<1>2. NoLoss' /\ FlushedInOrder' /\ buffer' \subseteq buffer
  BY <1>1, DropFlushed
<1>3. batch' \subseteq buffer' /\ \A i \in batch', j \in buffer' \ batch' : i < j
  <2>1. buffer' \in SUBSET (1..Len(owner)) /\ Len(owner) \in Nat
    BY <1>2, IntTypes DEF IInv
  <2> QED BY <1>1, <2>1, BatchIsPrefix
<1>4. TypeOK'
  BY <1>1, <1>2, <1>3 DEF IInv, TypeOK, Puts
<1>5. LandedIsStored' /\ BatchIsHeld' /\ BatchIsOldest' /\ FlushLockOwned'
  BY <1>1, <1>3 DEF IInv, LandedIsStored, BatchIsHeld, BatchIsOldest, FlushLockOwned
<1> QED BY <1>2, <1>4, <1>5 DEF IInv

LEMMA FinishFlushIInv ==
  ASSUME IInv, FinishFlush
  PROVE  IInv'
<1>1. /\ landed /\ buffer' = {} /\ buffer' = AfterDel(buffer, batch)
      /\ lock' = "free" /\ batch' = {} /\ landed' = FALSE /\ failures' = 0
      /\ UNCHANGED <<owner, rows, spawned, deleting, faults, live, forced>>
  BY DEF FinishFlush, Release, histVars
<1>2. NoLoss' /\ FlushedInOrder'
  BY <1>1, DropFlushed
<1>3. /\ aputs' \in [Threads -> {"idle", "waiting", "notified"}]
      /\ polls' \in [Threads -> Nat]
      /\ panic' \in BOOLEAN
  BY DEF FinishFlush, IInv, TypeOK
<1>4. loop' \in LoopStates /\ stop' \in {"idle", "wait", "flush", "stopped"}
  BY HandBack DEF FinishFlush, IInv, TypeOK
<1>5. TypeOK'
  BY <1>1, <1>3, <1>4 DEF IInv, TypeOK, Puts
<1> QED BY <1>1, <1>2, <1>5 DEF IInv, LandedIsStored, BatchIsHeld, BatchIsOldest, FlushLockOwned

LEMMA FlushKeyErrorIInv ==
  ASSUME IInv, FlushKeyError
  PROVE  IInv'
<1>1. /\ landed /\ buffer' = AfterDel(buffer, batch)
      /\ lock' = "free" /\ batch' = {} /\ landed' = FALSE
      /\ UNCHANGED <<owner, rows, panic, aputs, polls, spawned, deleting, faults, live,
                     forced>>
  BY DEF FlushKeyError, Release, writerVars, histVars
<1>2. NoLoss' /\ FlushedInOrder' /\ buffer' \subseteq buffer
  BY <1>1, DropFlushed
<1>3. /\ loop' \in LoopStates /\ stop' \in {"idle", "wait", "flush", "stopped"}
      /\ failures' \in Nat
  BY HandBack DEF FlushKeyError, IInv, TypeOK
<1>4. TypeOK'
  BY <1>1, <1>2, <1>3 DEF IInv, TypeOK, Puts
<1> QED BY <1>1, <1>2, <1>4 DEF IInv, LandedIsStored, BatchIsHeld, BatchIsOldest, FlushLockOwned

LEMMA FailWriteIInv ==
  ASSUME IInv, FailWrite
  PROVE  IInv'
<1>1. /\ lock' = "free" /\ batch' = {} /\ landed' = FALSE
      /\ UNCHANGED <<owner, buffer, rows, panic, aputs, polls, spawned, deleting, live,
                     forced>>
  BY DEF FailWrite, Release, writerVars, histVars
<1>2. /\ loop' \in LoopStates /\ stop' \in {"idle", "wait", "flush", "stopped"}
      /\ failures' \in Nat /\ faults' \in Nat
  BY HandBack DEF FailWrite, IInv, TypeOK
<1>3. TypeOK'
  BY <1>1, <1>2 DEF IInv, TypeOK, Puts
<1> QED BY <1>1, <1>3 DEF IInv, NoLoss, FlushedInOrder, LandedIsStored, BatchIsHeld, BatchIsOldest,
                          FlushLockOwned

(* The steps of the loop task's life move no checkpoint; the lock a cancelled
   loop held is free again. *)
LEMMA LoopIInv ==
  ASSUME IInv,
         StartFlushLoop \/ LoopWakes \/ StopFlushLoop \/ StopSeesLoopEnd \/ StopWaitTimeout
  PROVE  IInv'
<1>1. /\ UNCHANGED <<owner, buffer, rows, panic, aputs, polls, spawned, failures,
                     deleting, faults, live, forced>>
      /\ \/ UNCHANGED <<lock, batch, landed>>
         \/ lock' = "free" /\ batch' = {} /\ landed' = FALSE
  BY DEF StartFlushLoop, LoopWakes, StopFlushLoop, StopSeesLoopEnd, StopWaitTimeout,
         LoopUnchanged, Release, writerVars, flushVars, histVars
<1>2. loop' \in LoopStates /\ stop' \in {"idle", "wait", "flush", "stopped"}
  BY DEF StartFlushLoop, LoopWakes, StopFlushLoop, StopSeesLoopEnd, StopWaitTimeout,
         IInv, TypeOK, LoopStates
<1>3. TypeOK'
  BY <1>1, <1>2 DEF IInv, TypeOK, Puts
<1>4. NoLoss' /\ LandedIsStored' /\ BatchIsHeld' /\ BatchIsOldest' /\ FlushedInOrder'
  BY <1>1 DEF IInv, NoLoss, LandedIsStored, BatchIsHeld, BatchIsOldest, FlushedInOrder
<1>5. FlushLockOwned'
  BY DEF IInv, FlushLockOwned, StartFlushLoop, LoopWakes, StopFlushLoop, StopSeesLoopEnd,
         StopWaitTimeout, Release, flushVars
<1> QED BY <1>3, <1>4, <1>5 DEF IInv

LEMMA DeleteIInv ==
  ASSUME IInv, NEW t \in Threads, DeleteDropsBuffer(t) \/ DeleteRows(t) \/ DeleteFails(t)
  PROVE  IInv'
<1>1. /\ UNCHANGED <<owner, panic, aputs, polls, lock, batch, landed, spawned, loop,
                     failures, stop, forced>>
      /\ faults' \in Nat /\ deleting' \subseteq Threads
  BY DEF DeleteDropsBuffer, DeleteRows, DeleteFails, writerVars, flushVars, histVars,
         IInv, TypeOK
<1>2. \/ buffer' = buffer \ Of(t) /\ live' = live \ Of(t) /\ rows' = rows
      \/ buffer' = buffer /\ live' = live \ Of(t) /\ rows' = rows \ Of(t)
      \/ buffer' = buffer /\ live' = live /\ rows' = rows
  BY DEF DeleteDropsBuffer, DeleteRows, DeleteFails, histVars
<1>3. TypeOK'
  BY <1>1, <1>2 DEF IInv, TypeOK, Puts
<1>4. NoLoss' /\ LandedIsStored' /\ BatchIsHeld'
  BY <1>1, <1>2 DEF IInv, NoLoss, LandedIsStored, BatchIsHeld
<1>5. BatchIsOldest' /\ FlushedInOrder' /\ FlushLockOwned'
  BY <1>1, <1>2 DEF IInv, BatchIsOldest, FlushedInOrder, FlushLockOwned
<1> QED BY <1>3, <1>4, <1>5 DEF IInv

LEMMA NextIInv == IInv /\ [Next]_vars => IInv'
<1> SUFFICES ASSUME IInv, [Next]_vars PROVE IInv'
  OBVIOUS
<1>1. CASE UNCHANGED vars
  BY <1>1 DEF vars, writerVars, flushVars, histVars, IInv, TypeOK, Puts, NoLoss,
              LandedIsStored, BatchIsHeld, BatchIsOldest, FlushedInOrder, FlushLockOwned
<1>2. ASSUME NEW t \in Threads,
             \/ Aput(t) \/ AputNotified(t) \/ AputPollTimeout(t)
             \/ DeleteDropsBuffer(t) \/ DeleteRows(t) \/ DeleteFails(t)
      PROVE  IInv'
  BY <1>2, AputIInv, DeleteIInv
<1>3. ASSUME NEW p \in Flushers, BeginFlush(p) \/ SkipFlush(p)
      PROVE  IInv'
  BY <1>3, BeginFlushIInv, SkipFlushIInv
<1>4. CASE Land \/ NextBatch \/ FinishFlush \/ FlushKeyError \/ FailWrite
  BY <1>4, LandIInv, NextBatchIInv, FinishFlushIInv, FlushKeyErrorIInv, FailWriteIInv
<1>5. CASE StartFlushLoop \/ LoopWakes \/ StopFlushLoop \/ StopSeesLoopEnd \/ StopWaitTimeout
  BY <1>5, LoopIInv
<1> QED BY <1>1, <1>2, <1>3, <1>4, <1>5 DEF Next

-----------------------------------------------------------------------------
(* The theorems.                                                           *)

(* IInv holds in every reachable state of PostgresCheckpointer. *)
THEOREM Inductive == Spec => []IInv
BY InitIInv, NextIInv, PTL DEF Spec

(* The buffer, the rows and the flush state keep their types. *)
THEOREM TypeCorrect == Spec => []TypeOK
<1>1. IInv => TypeOK
  BY DEF IInv
<1> QED BY <1>1, Inductive, PTL

(* Whatever _flush, its failures, its cancellation and adelete_thread of other
   threads do, an accepted checkpoint is in the buffer or in PostgreSQL. *)
THEOREM NothingLost == Spec => []NoLoss
<1>1. IInv => NoLoss
  BY DEF IInv
<1> QED BY <1>1, Inductive, PTL

(* A task that ended never keeps _flush_lock. *)
THEOREM LockOwned == Spec => []FlushLockOwned
<1>1. IInv => FlushLockOwned
  BY DEF IInv
<1> QED BY <1>1, Inductive, PTL

(* aget, buffer first and then the newest row, never answers a checkpoint older
   than the last one accepted: because the buffer is flushed in order. *)
THEOREM LatestRead == Spec => []ReadsLatest
<1>1. IInv => ReadsLatest
  <2> SUFFICES ASSUME IInv, NEW t \in Threads, live \cap Of(t) # {}
               PROVE  Aget(t) >= Latest(live \cap Of(t))
    BY DEF ReadsLatest
  <2> DEFINE n == Len(owner)
             m == Latest(live \cap Of(t))
  <2>1. /\ n \in Nat /\ live \subseteq buffer \cup rows
        /\ live \in SUBSET (1..n) /\ buffer \in SUBSET (1..n) /\ rows \in SUBSET (1..n)
    BY IntTypes DEF IInv, NoLoss
  <2>2. m \in live \cap Of(t)
    BY <2>1, LatestIsNewest
  <2>3. CASE buffer \cap Of(t) # {}
    <3>1. /\ Aget(t) \in buffer \cap Of(t)
          /\ \A j \in buffer \cap Of(t) : j <= Aget(t)
      BY <2>1, <2>3, LatestIsNewest, buffer \cap Of(t) \in SUBSET (1..n) DEF Aget
    <3>2. m \in buffer \/ m < Aget(t)
      BY <2>2, <3>1 DEF IInv, FlushedInOrder
    <3>3. m \in 1..n /\ Aget(t) \in 1..n
      BY <2>1, <2>2, <3>1, Zenon
    <3>4. m <= Aget(t)
      BY <2>1, <2>2, <3>1, <3>2, <3>3
    <3> QED BY <2>1, <3>3, <3>4
  <2>4. CASE buffer \cap Of(t) = {}
    <3>1. m \in rows \cap Of(t)
      BY <2>1, <2>2, <2>4
    <3>2. \A j \in rows \cap Of(t) : j <= Aget(t)
      BY <2>1, <2>4, <3>1, LatestIsNewest, rows \cap Of(t) \in SUBSET (1..n) DEF Aget
    <3>3. Aget(t) \in rows \cap Of(t)
      BY <2>1, <2>4, <3>1, LatestIsNewest, rows \cap Of(t) \in SUBSET (1..n) DEF Aget
    <3> QED BY <2>1, <3>1, <3>2, <3>3
  <2> QED BY <2>3, <2>4
<1> QED BY <1>1, Inductive, PTL

(* Sets of checkpoints are finite, and a subset of one has no more members. *)
LEMMA FewerCheckpoints ==
  ASSUME TypeOK, NEW S \in SUBSET Puts, NEW T \in SUBSET S
  PROVE  IsFiniteSet(S) /\ Cardinality(S) \in Nat /\ Cardinality(T) \in Nat /\ Cardinality(T) <= Cardinality(S)
<1>1. Puts = 1..Len(owner) /\ Len(owner) \in Int /\ 1 \in Int
  BY DEF TypeOK, Puts
<1>2. IsFiniteSet(Puts)
  BY <1>1, FS_Interval
<1>3. IsFiniteSet(S) /\ IsFiniteSet(T)
  BY <1>2, FS_Subset
<1> QED BY <1>3, FS_Subset, FS_CardinalityType

(* aput buffers a checkpoint into a buffer that has room, or after the wait. *)
LEMMA InsertBounded ==
  ASSUME TypeOK, BackpressureBounds, NEW t \in Threads, Insert(t),
         \/ ~Full(buffer) /\ forced' = forced
         \/ forced' = forced \cup {Len(owner) + 1}
  PROVE  BackpressureBounds'
<1>1. buffer' = buffer \cup {Len(owner) + 1}
  BY DEF Insert
<1>2. CASE ~Full(buffer) /\ forced' = forced
  <2>1. IsFiniteSet(buffer) /\ Cardinality(buffer) \in Nat
    BY FewerCheckpoints DEF TypeOK
  <2>2. IsFiniteSet(buffer') /\ Cardinality(buffer') <= Cardinality(buffer) + 1
    BY <1>1, <2>1, FS_AddElement
  <2>3. Cardinality(buffer) + 1 <= MaxBuffer
    BY <1>2, <2>1, SettingsAssumption DEF Full, MaxBuffer
  <2>4. /\ Cardinality(buffer' \ forced') <= Cardinality(buffer')
        /\ Cardinality(buffer' \ forced') \in Nat /\ Cardinality(buffer') \in Nat
    BY <2>2, FS_Subset, FS_CardinalityType, buffer' \ forced' \in SUBSET buffer'
  <2>5. MaxBuffer \in Nat
    BY SettingsAssumption DEF MaxBuffer
  <2> QED BY <2>1, <2>2, <2>3, <2>4, <2>5 DEF BackpressureBounds, MaxBuffer
<1>3. CASE forced' = forced \cup {Len(owner) + 1}
  <2>1. buffer' \ forced' \subseteq buffer \ forced
    BY <1>1, <1>3
  <2>2. /\ Cardinality(buffer' \ forced') <= Cardinality(buffer \ forced)
        /\ Cardinality(buffer' \ forced') \in Nat /\ Cardinality(buffer \ forced) \in Nat
    BY <2>1, FewerCheckpoints, buffer \ forced \in SUBSET Puts DEF TypeOK
  <2>3. MaxBuffer \in Nat
    BY SettingsAssumption DEF MaxBuffer
  <2> QED BY <2>2, <2>3 DEF BackpressureBounds, MaxBuffer
<1> QED BY <1>2, <1>3

(* A step that buffers nothing and forgets no forced put keeps the bound. *)
LEMMA DrainBounded ==
  ASSUME TypeOK, BackpressureBounds, buffer' \subseteq buffer, forced' = forced
  PROVE  BackpressureBounds'
<1>1. buffer' \ forced' \subseteq buffer \ forced
  OBVIOUS
<1>2. /\ Cardinality(buffer' \ forced') <= Cardinality(buffer \ forced)
      /\ Cardinality(buffer' \ forced') \in Nat /\ Cardinality(buffer \ forced) \in Nat
  BY <1>1, FewerCheckpoints, buffer \ forced \in SUBSET Puts DEF TypeOK
<1>3. MaxBuffer \in Nat
  BY SettingsAssumption DEF MaxBuffer
<1> QED BY <1>2, <1>3 DEF BackpressureBounds, MaxBuffer

(* Of however many puts that a drain wakes at once, each looks again before it
   buffers: beyond its capacity _buffer holds only what gave up waiting. *)
THEOREM BufferBounded == Spec => []BackpressureBounds
<1>1. Init => BackpressureBounds
  BY SettingsAssumption, FS_EmptySet DEF Init, BackpressureBounds, MaxBuffer
<1>2. TypeOK /\ BackpressureBounds /\ [Next]_vars => BackpressureBounds'
  <2> SUFFICES ASSUME TypeOK, BackpressureBounds, [Next]_vars PROVE BackpressureBounds'
    OBVIOUS
  <2>1. ASSUME NEW t \in Threads, Aput(t) \/ AputNotified(t) \/ AputPollTimeout(t)
        PROVE  BackpressureBounds'
    <3>1. \/ /\ Insert(t)
             /\ \/ ~Full(buffer) /\ forced' = forced
                \/ forced' = forced \cup {Len(owner) + 1}
          \/ buffer' = buffer /\ forced' = forced
      BY <2>1 DEF Aput, AputNotified, AputPollTimeout, Wait, histVars
    <3> QED BY <3>1, InsertBounded, DrainBounded
  <2>2. ASSUME NEW t \in Threads, DeleteDropsBuffer(t) \/ DeleteRows(t) \/ DeleteFails(t)
        PROVE  BackpressureBounds'
    BY <2>2, DrainBounded DEF DeleteDropsBuffer, DeleteRows, DeleteFails, histVars
  <2>3. ASSUME NEW p \in Flushers, BeginFlush(p) \/ SkipFlush(p)
        PROVE  BackpressureBounds'
    BY <2>3, DrainBounded DEF BeginFlush, SkipFlush, histVars
  <2>4. CASE Land \/ NextBatch \/ FinishFlush \/ FlushKeyError \/ FailWrite
    BY <2>4, DrainBounded DEF Land, NextBatch, FinishFlush, FlushKeyError, FailWrite, AfterDel, histVars
  <2>5. CASE StartFlushLoop \/ LoopWakes \/ StopFlushLoop \/ StopSeesLoopEnd \/ StopWaitTimeout
    BY <2>5, DrainBounded DEF StartFlushLoop, LoopWakes, StopFlushLoop, StopSeesLoopEnd,
                              StopWaitTimeout, LoopUnchanged, histVars
  <2>6. CASE UNCHANGED vars
    BY <2>6, DrainBounded DEF vars, histVars
  <2> QED BY <2>1, <2>2, <2>3, <2>4, <2>5, <2>6 DEF Next
<1> QED BY <1>1, <1>2, TypeCorrect, PTL DEF Spec

(* A shutdown that ends without a failed write and without a delete breaking
   its last flush leaves every accepted checkpoint in PostgreSQL. *)
THEOREM ShutdownPersists == Spec => StopPersists
<1>1. ASSUME IInv, IInv', [Next]_vars, stop # "stopped", stop' = "stopped",
             faults' = faults, batch \subseteq buffer
      PROVE  live' \subseteq rows'
  <2>1. SkipFlush("stop") \/ FinishFlush
    <3>1. ~ UNCHANGED vars
      BY <1>1 DEF vars
    <3>2. ASSUME NEW t \in Threads
          PROVE  /\ ~ Aput(t) /\ ~ AputNotified(t) /\ ~ AputPollTimeout(t)
                 /\ ~ DeleteDropsBuffer(t) /\ ~ DeleteRows(t) /\ ~ DeleteFails(t)
      BY <1>1 DEF Aput, AputNotified, AputPollTimeout, WriterUnchanged,
                  DeleteDropsBuffer, DeleteRows, DeleteFails
    <3>3. ASSUME NEW p \in Flushers, BeginFlush(p) \/ SkipFlush(p)
          PROVE  SkipFlush("stop")
      BY <1>1, <3>3 DEF BeginFlush, SkipFlush, Returned
    <3>4. ~ Land /\ ~ NextBatch /\ ~ FlushKeyError
      BY <1>1 DEF Land, NextBatch, FlushKeyError
    <3>5. ~ FailWrite
      BY <1>1, faults + 1 # faults DEF FailWrite, IInv, TypeOK
    <3>6. ~ StartFlushLoop /\ ~ LoopWakes /\ ~ StopFlushLoop /\ ~ StopSeesLoopEnd
          /\ ~ StopWaitTimeout
      BY <1>1 DEF StartFlushLoop, LoopWakes, StopFlushLoop, StopSeesLoopEnd,
                  StopWaitTimeout
    <3> QED BY <1>1, <3>1, <3>2, <3>3, <3>4, <3>5, <3>6 DEF Next
  <2>2. buffer' = {}
    BY <2>1 DEF SkipFlush, FinishFlush
  <2> QED BY <1>1, <2>2 DEF IInv, NoLoss
<1>2. IInv /\ IInv' /\ [Next]_vars
      => [stop # "stopped" /\ stop' = "stopped" /\ faults' = faults /\ batch \subseteq buffer
          => live' \subseteq rows']_vars
  BY <1>1
<1> QED BY <1>2, Inductive, PTL DEF Spec, StopPersists
-----------------------------------------------------------------------------
(* The refinement: every step is one step of a WriteBehind store or leaves it
   unchanged. *)

LEMMA InsertIsPut ==
  ASSUME NEW t \in Threads, Insert(t), WriterUnchanged
  PROVE  WB!Next
<1>1. WB!Put(t)
  BY DEF Insert, WriterUnchanged, WB!Put
<1> QED BY <1>1 DEF WB!Next

LEMMA LandIsPersist ==
  ASSUME IInv, Land
  PROVE  WB!Next
<1>1. batch \in SUBSET WB!Puts
  BY DEF IInv, TypeOK, Puts, WB!Puts
<1>2. batch \subseteq buffer \cup (WB!Puts \ live)
  BY <1>1 DEF IInv, BatchIsHeld
<1>3. \A i \in batch, j \in buffer : j < i => j \in batch
  <2> SUFFICES ASSUME NEW i \in batch, NEW j \in buffer, j < i, j \notin batch PROVE FALSE
    OBVIOUS
  <2>1. i < j
    BY DEF IInv, BatchIsOldest
  <2>2. i \in Int /\ j \in Int
    BY IntTypes DEF IInv
  <2> QED BY <2>1, <2>2
<1>4. WB!Persist(batch)
  BY <1>2, <1>3 DEF Land, histVars, WB!Persist
<1> QED BY <1>1, <1>4 DEF WB!Next

LEMMA DropIsClean ==
  ASSUME IInv, landed, buffer' = AfterDel(buffer, batch), UNCHANGED <<owner, rows, live>>
  PROVE  WB!Next
<1> DEFINE S == buffer \ AfterDel(buffer, batch)
<1>1. /\ AfterDel(buffer, batch) \subseteq buffer /\ S \subseteq batch
      /\ \A i \in S, j \in AfterDel(buffer, batch) : i < j
  <2>1. buffer \in SUBSET Int /\ batch \in SUBSET Int
    BY IntTypes DEF IInv
  <2> QED BY <2>1, AfterDelFacts DEF IInv, BatchIsOldest
<1>2. S \in SUBSET WB!Puts /\ S \cap live \subseteq rows /\ buffer' = buffer \ S
      /\ buffer \ S = AfterDel(buffer, batch)
  BY <1>1 DEF IInv, TypeOK, LandedIsStored, Puts, WB!Puts
<1>3. WB!Clean(S)
  BY <1>1, <1>2 DEF WB!Clean
<1> QED BY <1>2, <1>3 DEF WB!Next

(* PostgresCheckpointer implements the WriteBehind store: callers see puts,
   oldest-first persistence and deletes, and nothing of how a flush runs. *)
THEOREM Refinement == Spec => ImplementsWriteBehind
<1>1. Init => WB!Init
  BY DEF Init, WB!Init
<1>2. IInv /\ [Next]_vars => [WB!Next]_(WB!vars)
  <2> SUFFICES ASSUME IInv, [Next]_vars, ~ UNCHANGED WB!vars PROVE WB!Next
    OBVIOUS
  <2>1. ~ UNCHANGED <<owner, buffer, rows, live>>
    BY DEF WB!vars
  <2>2. ASSUME NEW t \in Threads, Aput(t) \/ AputNotified(t) \/ AputPollTimeout(t)
        PROVE  WB!Next
    <3>1. WriterUnchanged /\ (Insert(t) \/ \E n : Wait(t, n))
      BY <2>2 DEF Aput, AputNotified, AputPollTimeout
    <3>2. ~ \E n : Wait(t, n)
      BY <2>1, <3>1 DEF Wait, WriterUnchanged, histVars
    <3> QED BY <3>1, <3>2, InsertIsPut
  <2>3. ASSUME NEW t \in Threads,
               DeleteDropsBuffer(t) \/ DeleteRows(t) \/ DeleteFails(t)
        PROVE  WB!Next
    <3>1. WB!Drop(t) \/ WB!DropRows(t)
      BY <2>1, <2>3 DEF DeleteDropsBuffer, DeleteRows, DeleteFails, histVars, Of, Puts,
                        WB!Drop, WB!DropRows, WB!Of, WB!Puts
    <3> QED BY <3>1 DEF WB!Next
  <2>4. ASSUME NEW p \in Flushers PROVE ~ BeginFlush(p) /\ ~ SkipFlush(p)
    BY <2>1 DEF BeginFlush, SkipFlush, histVars
  <2>5. CASE Land
    BY <2>5, LandIsPersist
  <2>6. CASE NextBatch \/ FinishFlush \/ FlushKeyError
    <3>1. landed /\ buffer' = AfterDel(buffer, batch) /\ UNCHANGED <<owner, rows, live>>
      BY <2>6 DEF NextBatch, FinishFlush, FlushKeyError, histVars
    <3> QED BY <3>1, DropIsClean
  <2>7. ~ FailWrite
    BY <2>1 DEF FailWrite, histVars
  <2>8. ~ StartFlushLoop /\ ~ LoopWakes /\ ~ StopFlushLoop /\ ~ StopSeesLoopEnd
        /\ ~ StopWaitTimeout
    BY <2>1 DEF StartFlushLoop, LoopWakes, StopFlushLoop, StopSeesLoopEnd,
                StopWaitTimeout, LoopUnchanged, histVars
  <2>9. ~ UNCHANGED vars
    BY <2>1 DEF vars, histVars
  <2> QED BY <2>2, <2>3, <2>4, <2>5, <2>6, <2>7, <2>8, <2>9 DEF Next
<1> QED BY <1>1, <1>2, Inductive, PTL DEF Spec, ImplementsWriteBehind, WB!Spec
=============================================================================
