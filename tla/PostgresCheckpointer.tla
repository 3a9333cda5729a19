------------------------ MODULE PostgresCheckpointer ------------------------
(***************************************************************************)
(* The write-behind buffer of PostgresCheckpointer: aput appends to an     *)
(* in-memory dict, and _flush, run by the background loop, by              *)
(* fire-and-forget tasks and by shutdown, upserts it batch by batch.       *)
(*                                                                         *)
(* A checkpoint is the number of the aput that buffered it, so numbers     *)
(* give both the insertion order of the dict and, within a thread (whose   *)
(* graph puts one checkpoint at a time, each under a fresh id), the order  *)
(* of created_at.  An await is where one step ends and another task may    *)
(* run; everything between two awaits is one step.                         *)
(***************************************************************************)
EXTENDS Integers, Sequences, FiniteSets

CONSTANTS
  Threads,      \* the conversation threads; each has one graph writing to it
  BatchSize,    \* flush_batch_size
  Multiplier,   \* max_buffer_multiplier
  PollLimit,    \* backpressure polls before a put gives up waiting
  FatalAfter,   \* consecutive failures that kill the flush loop (10)
  MaxPuts,      \* bound: how many checkpoints are put
  MaxFaults,    \* bound: how many writes PostgreSQL fails
  MaxSpawned    \* bound: fire-and-forget flush tasks queued on the lock

ASSUME SettingsAssumption ==    \* __init__ raises ValueError otherwise
  /\ BatchSize \in Nat \ {0}
  /\ Multiplier \in Nat \ {0, 1}

ASSUME BoundsAssumption ==
  /\ PollLimit \in Nat \ {0}
  /\ FatalAfter \in Nat \ {0}
  /\ MaxPuts \in Nat
  /\ MaxFaults \in Nat
  /\ MaxSpawned \in Nat \ {0}

MaxBuffer == BatchSize * Multiplier

VARIABLES
  owner,      \* owner[i] is the thread of the i-th checkpoint put
  buffer,     \* _buffer: the checkpoints awaiting a flush
  rows,       \* the checkpoints in the agent_checkpoints table
  panic,      \* _panic_mode
  aputs,      \* where each thread's aput stands in _apply_backpressure
  polls,      \* polls its current wait has timed out on
  lock,       \* who holds _flush_lock and runs _flush
  batch,      \* the batch its _write_batch is sending
  landed,     \* whether PostgreSQL has committed that batch
  spawned,    \* fire-and-forget _flush tasks that wait for the lock
  loop,       \* where the _flush_loop task stands
  failures,   \* _consecutive_failures
  stop,       \* where stop_flush_loop stands
  deleting,   \* threads whose adelete_thread awaits its DELETE
  faults,     \* how many writes have failed
  live,       \* history: put, and no delete of the thread has overlapped or followed
  forced      \* history: put into a full buffer after the backpressure timeout

writerVars == <<aputs, polls>>
flushVars  == <<lock, batch, landed>>
histVars   == <<live, forced>>
vars == <<owner, buffer, rows, panic, writerVars, flushVars, spawned, loop,
          failures, stop, deleting, faults, histVars>>

Puts == DOMAIN owner
Of(t) == {i \in Puts : owner[i] = t}

Flushers == {"loop", "task", "stop"}
LoopStates == {"off", "new", "sleep", "flush", "backoff", "final", "done", "fatal"}

-----------------------------------------------------------------------------
(* The operators the steps are made of.                                    *)

(* Variant: the capacity test is one too late. *)
FullTooLate(b) == Cardinality(b) > MaxBuffer

Full(b) == Cardinality(b) >= MaxBuffer

(* _peek_batch: the first flush_batch_size entries in insertion order. *)
Batch(b) == {i \in b : Cardinality({j \in b : j <= i}) <= BatchSize}

(* Variant: the buffer is cleared once the batch is written. *)
ClearAfterWrite(b, sent) == {}

(* The `del` loop of _flush: entries go in order until one is missing, where
   `del` raises KeyError. *)
AfterDel(b, sent) == b \ {i \in sent : \A j \in sent : j <= i => j \in b}

(* asyncio.create_task(self._flush()).  The queued tasks are alike, so the
   count saturates. *)
Spawned == IF spawned < MaxSpawned THEN spawned + 1 ELSE spawned

(* What aget answers: the latest buffered entry of the thread, else the row
   with the greatest created_at, else nothing (0).  Variant: rows first. *)
Latest(S) == IF S = {} THEN 0 ELSE CHOOSE i \in S : \A j \in S : j <= i
AgetRowsFirst(t) == IF rows \cap Of(t) # {} THEN Latest(rows \cap Of(t))
                                             ELSE Latest(buffer \cap Of(t))
Aget(t) == IF buffer \cap Of(t) # {} THEN Latest(buffer \cap Of(t))
                                     ELSE Latest(rows \cap Of(t))

-----------------------------------------------------------------------------
(* aput.                                                                   *)

(* From the dict assignment to the return: the panic switch and the flush a
   panicking or batch-sized buffer spawns. *)
Insert(t) ==
  LET i == Len(owner) + 1
      b == buffer \cup {i}
  IN /\ owner' = Append(owner, t)
     /\ buffer' = b
     /\ live' = live \cup {i}
     /\ panic' = (panic \/ Full(b))
     /\ spawned' = IF panic' \/ Cardinality(b) >= BatchSize
                   THEN Spawned ELSE spawned
     /\ aputs' = [aputs EXCEPT ![t] = "idle"]
     /\ polls' = [polls EXCEPT ![t] = 0]

(* One turn of the backpressure loop: kick a flush and wait for a notify. *)
Wait(t, waited) ==
  /\ aputs' = [aputs EXCEPT ![t] = "waiting"]
  /\ polls' = [polls EXCEPT ![t] = waited]
  /\ spawned' = Spawned
  /\ UNCHANGED <<owner, buffer, panic, histVars>>

WriterUnchanged == UNCHANGED <<rows, flushVars, loop, failures, stop, deleting, faults>>

(* aput arrives (also replay_checkpoint, which is an aput). *)
Aput(t) ==
  /\ aputs[t] = "idle"
  /\ stop # "stopped"
  /\ Len(owner) + Cardinality({u \in Threads : aputs[u] # "idle"}) < MaxPuts
  /\ \/ ~Full(buffer) /\ Insert(t) /\ UNCHANGED forced
     \/ Full(buffer) /\ Wait(t, 0)
  /\ WriterUnchanged

(* A drained flush woke the waiter: it looks again before it inserts. *)
AputNotified(t) ==
  /\ aputs[t] = "notified"
  /\ \/ ~Full(buffer) /\ Insert(t) /\ UNCHANGED forced
     \/ Full(buffer) /\ Wait(t, 0)
  /\ WriterUnchanged

(* Variant: the wait for a drained flush has no timeout. *)
AputNeverTimesOut(t) == aputs[t] = "timed out"

(* The 0.1 s wait times out: give up at the limit, else look again. *)
AputPollTimeout(t) ==
  /\ aputs[t] = "waiting"
  /\ \/ /\ polls[t] + 1 >= PollLimit
        /\ Insert(t)
        /\ forced' = forced \cup {Len(owner) + 1}
     \/ /\ polls[t] + 1 < PollLimit
        /\ ~Full(buffer)
        /\ Insert(t) /\ UNCHANGED forced
     \/ /\ polls[t] + 1 < PollLimit
        /\ Full(buffer)
        /\ Wait(t, polls[t] + 1)
  /\ WriterUnchanged

-----------------------------------------------------------------------------
(* _flush, by its three callers.                                           *)

(* Variant: a flush task that was never spawned. *)
WantsUnspawned(p) == \/ p = "loop" /\ loop \in {"flush", "final"}
                     \/ p = "task"
                     \/ p = "stop" /\ stop = "flush"

Wants(p) == \/ p = "loop" /\ loop \in {"flush", "final"}
            \/ p = "task" /\ spawned > 0
            \/ p = "stop" /\ stop = "flush"

(* _flush returned to p: the loop sleeps or, after its final flush, ends;
   stop_flush_loop forgets the task. *)
Returned(p) ==
  /\ loop' = CASE p = "loop" /\ loop = "flush" -> "sleep"
               [] p = "loop" /\ loop = "final" -> "done"
               [] p = "stop" -> "off"
               [] OTHER -> loop
  /\ stop' = IF p = "stop" THEN "stopped" ELSE stop

(* _flush raised in p.  Only the loop counts it; a fire-and-forget task's
   exception is never retrieved, and shutdown logs it. *)
Raised(p) ==
  LET counted == p = "loop" /\ loop = "flush" IN
  /\ failures' = IF counted THEN failures + 1 ELSE failures
  /\ loop' = CASE counted /\ failures + 1 >= FatalAfter -> "fatal"
               [] counted /\ failures + 1 < FatalAfter -> "backoff"
               [] p = "loop" /\ loop = "final" -> "done"
               [] p = "stop" -> "off"
               [] OTHER -> loop
  /\ stop' = IF p = "stop" THEN "stopped" ELSE stop

Release == lock' = "free" /\ batch' = {} /\ landed' = FALSE

(* The lock is taken over a buffer with entries and the first batch is sent. *)
BeginFlush(p) ==
  /\ lock = "free" /\ Wants(p) /\ buffer # {}
  /\ lock' = p
  /\ batch' = Batch(buffer)
  /\ landed' = FALSE
  /\ spawned' = IF p = "task" THEN spawned - 1 ELSE spawned
  /\ UNCHANGED <<owner, buffer, rows, panic, writerVars, loop, failures, stop,
                 deleting, faults, histVars>>

(* The lock is taken over an empty buffer: _flush returns at once. *)
SkipFlush(p) ==
  /\ lock = "free" /\ Wants(p) /\ buffer = {}
  /\ spawned' = IF p = "task" THEN spawned - 1 ELSE spawned
  /\ Returned(p)
  /\ UNCHANGED <<owner, buffer, rows, panic, writerVars, flushVars, failures,
                 deleting, faults, histVars>>

(* PostgreSQL commits the upsert the flusher is waiting for. *)
Land ==
  /\ lock # "free" /\ ~landed
  /\ rows' = rows \cup batch
  /\ landed' = TRUE
  /\ UNCHANGED <<owner, buffer, panic, writerVars, lock, batch, spawned, loop,
                 failures, stop, deleting, faults, histVars>>

(* execute() returned and the buffer still has entries: the next batch. *)
NextBatch ==
  /\ lock # "free" /\ landed /\ batch \subseteq buffer
  /\ AfterDel(buffer, batch) # {}
  /\ buffer' = AfterDel(buffer, batch)
  /\ batch' = Batch(buffer')
  /\ landed' = FALSE
  /\ UNCHANGED <<owner, rows, panic, writerVars, lock, spawned, loop, failures,
                 stop, deleting, faults, histVars>>

(* execute() returned and nothing is left: wake the waiters, end the failure
   streak, leave panic mode. *)
FinishFlush ==
  /\ lock # "free" /\ landed /\ batch \subseteq buffer
  /\ AfterDel(buffer, batch) = {}
  /\ buffer' = {}
  /\ aputs' = [t \in Threads |-> IF aputs[t] = "waiting" THEN "notified"
                                                         ELSE aputs[t]]
  /\ polls' = [t \in Threads |-> 0]
  /\ failures' = 0
  /\ panic' = (panic /\ Cardinality(buffer') >= MaxBuffer \div 2)
  /\ Release
  /\ Returned(lock)
  /\ UNCHANGED <<owner, rows, spawned, deleting, faults, histVars>>

(* execute() returned, but adelete_thread dropped an entry of the batch in the
   meantime: `del` raises KeyError and the flush ends there. *)
FlushKeyError ==
  /\ lock # "free" /\ landed /\ ~(batch \subseteq buffer)
  /\ buffer' = AfterDel(buffer, batch)
  /\ Release
  /\ Raised(lock)
  /\ UNCHANGED <<owner, rows, panic, writerVars, spawned, deleting, faults, histVars>>

(* execute() raised, before or after the commit: the buffer stays as it is. *)
FailWrite ==
  /\ lock # "free" /\ faults < MaxFaults
  /\ faults' = faults + 1
  /\ Release
  /\ Raised(lock)
  /\ UNCHANGED <<owner, buffer, rows, panic, writerVars, spawned, deleting, histVars>>

-----------------------------------------------------------------------------
(* The loop task, its start and its stop.                                  *)

LoopUnchanged == UNCHANGED <<owner, buffer, rows, panic, writerVars, spawned,
                             failures, deleting, faults, histVars>>

(* start_flush_loop, which the service calls once, at startup. *)
StartFlushLoop ==
  /\ stop = "idle" /\ loop = "off"
  /\ loop' = "new"
  /\ UNCHANGED <<flushVars, stop>>
  /\ LoopUnchanged

(* Variant: the loop flushes under pressure only. *)
LoopWakesInPanic ==
  /\ stop = "idle" /\ loop \in {"new", "sleep", "backoff"}
  /\ loop' = IF panic THEN "flush" ELSE "sleep"
  /\ UNCHANGED <<flushVars, stop>>
  /\ LoopUnchanged

(* The loop runs, after its start, its sleep or its 1 s backoff: flush if
   there is anything, else sleep. *)
LoopWakes ==
  /\ stop = "idle" /\ loop \in {"new", "sleep", "backoff"}
  /\ loop' = IF buffer # {} THEN "flush" ELSE "sleep"
  /\ UNCHANGED <<flushVars, stop>>
  /\ LoopUnchanged

(* stop_flush_loop cancels the task.  CancelledError meets it in its sleep, at
   the lock or inside the write, and it turns to the final flush; a task never
   scheduled, or in its backoff sleep, just ends. *)
StopFlushLoop ==
  /\ stop = "idle"
  /\ \/ /\ loop \in {"sleep", "flush"}
        /\ loop' = "final" /\ stop' = "wait"
        /\ IF lock = "loop" THEN Release ELSE UNCHANGED flushVars
     \/ /\ loop \in {"new", "backoff"}
        /\ loop' = "done" /\ stop' = "wait"
        /\ UNCHANGED flushVars
     \/ /\ loop \in {"off", "fatal"}
        /\ stop' = "flush"
        /\ UNCHANGED <<flushVars, loop>>
  /\ LoopUnchanged

(* Variant: shutdown trusts the task's own final flush. *)
StopTrustsLoop ==
  /\ stop = "wait" /\ loop = "done"
  /\ stop' = "stopped"
  /\ UNCHANGED <<flushVars, loop>>
  /\ LoopUnchanged

(* wait_for saw the task end: shutdown goes on to its own final flush. *)
StopSeesLoopEnd ==
  /\ stop = "wait" /\ loop = "done"
  /\ stop' = "flush"
  /\ UNCHANGED <<flushVars, loop>>
  /\ LoopUnchanged

(* Variant: the cancelled task keeps the lock. *)
StopTimeoutKeepsLock ==
  /\ stop = "wait" /\ loop = "final"
  /\ stop' = "flush"
  /\ loop' = "done"
  /\ UNCHANGED flushVars
  /\ LoopUnchanged

(* wait_for gave up after 10 s and cancelled the task in its final flush. *)
StopWaitTimeout ==
  /\ stop = "wait" /\ loop = "final"
  /\ stop' = "flush"
  /\ loop' = "done"
  /\ IF lock = "loop" THEN Release ELSE UNCHANGED flushVars
  /\ LoopUnchanged

-----------------------------------------------------------------------------
(* adelete_thread: the buffer entries go at once, the rows at the DELETE.  *)

DeleteDropsBuffer(t) ==
  /\ t \notin deleting
  /\ buffer' = buffer \ Of(t)
  /\ live' = live \ Of(t)
  /\ deleting' = deleting \cup {t}
  /\ UNCHANGED <<owner, rows, panic, writerVars, flushVars, spawned, loop, failures,
                 stop, faults, forced>>

(* A put that overlaps the delete gets no promise, so `live` forgets it too. *)
DeleteRows(t) ==
  /\ t \in deleting
  /\ deleting' = deleting \ {t}
  /\ rows' = rows \ Of(t)
  /\ live' = live \ Of(t)
  /\ UNCHANGED <<owner, buffer, panic, writerVars, flushVars, spawned, loop,
                 failures, stop, faults, forced>>

DeleteFails(t) ==
  /\ t \in deleting /\ faults < MaxFaults
  /\ deleting' = deleting \ {t}
  /\ faults' = faults + 1
  /\ UNCHANGED <<owner, buffer, rows, panic, writerVars, flushVars, spawned, loop,
                 failures, stop, histVars>>

-----------------------------------------------------------------------------
Init ==
  /\ owner = <<>>
  /\ buffer = {} /\ rows = {}
  /\ panic = FALSE
  /\ aputs = [t \in Threads |-> "idle"]
  /\ polls = [t \in Threads |-> 0]
  /\ lock = "free" /\ batch = {} /\ landed = FALSE
  /\ spawned = 0
  /\ loop = "off" /\ failures = 0 /\ stop = "idle"
  /\ deleting = {}
  /\ faults = 0
  /\ live = {} /\ forced = {}

Next ==
  \/ \E t \in Threads : \/ Aput(t) \/ AputNotified(t) \/ AputPollTimeout(t)
                        \/ DeleteDropsBuffer(t) \/ DeleteRows(t) \/ DeleteFails(t)
  \/ \E p \in Flushers : BeginFlush(p) \/ SkipFlush(p)
  \/ Land \/ NextBatch \/ FinishFlush \/ FlushKeyError \/ FailWrite
  \/ StartFlushLoop \/ LoopWakes \/ StopFlushLoop \/ StopSeesLoopEnd \/ StopWaitTimeout

(* The event loop runs every task that is ready: a waiting put is woken or
   times out, a task that wants the free lock gets it (asyncio.Lock is FIFO),
   PostgreSQL answers a statement, a sleep ends.  Nothing makes a caller put,
   delete, start or stop, and nothing makes PostgreSQL fail. *)
Fairness ==
  /\ \A t \in Threads : /\ WF_vars(AputNotified(t))
                        /\ WF_vars(AputPollTimeout(t))
                        /\ WF_vars(DeleteRows(t))
  /\ \A p \in Flushers : SF_vars(BeginFlush(p)) /\ SF_vars(SkipFlush(p))
  /\ WF_vars(Land)
  /\ WF_vars(NextBatch) /\ WF_vars(FinishFlush) /\ WF_vars(FlushKeyError)
  /\ WF_vars(LoopWakes) /\ WF_vars(StopSeesLoopEnd)

Spec == Init /\ [][Next]_vars /\ Fairness

-----------------------------------------------------------------------------
(* Properties.                                                             *)

(* Every variable keeps its type; checkpoints are the puts made so far. *)
TypeOK ==
  /\ owner \in Seq(Threads)
  /\ buffer \subseteq Puts /\ rows \subseteq Puts /\ batch \subseteq Puts
  /\ panic \in BOOLEAN /\ landed \in BOOLEAN
  /\ aputs \in [Threads -> {"idle", "waiting", "notified"}]
  /\ polls \in [Threads -> Nat]
  /\ lock \in Flushers \cup {"free"}
  /\ spawned \in Nat
  /\ loop \in LoopStates
  /\ failures \in Nat
  /\ stop \in {"idle", "wait", "flush", "stopped"}
  /\ deleting \subseteq Threads
  /\ faults \in Nat
  /\ live \subseteq Puts /\ forced \subseteq Puts

(* No accepted checkpoint is dropped: whatever flushes fail, overlap, get
   cancelled by shutdown or race a delete of another thread, a checkpoint
   whose thread nobody deletes is in the buffer or in PostgreSQL. *)
NoLoss == live \subseteq buffer \cup rows

(* A resumed run never sees an older state than the last one accepted: aget,
   buffer first and then PostgreSQL, answers the thread's newest checkpoint. *)
ReadsLatest ==
  \A t \in Threads : live \cap Of(t) # {} => Aget(t) >= Latest(live \cap Of(t))

(* Backpressure holds the buffer at its capacity however many puts wait for
   the same drain: only a put that gave up waiting goes over. *)
BackpressureBounds == Cardinality(buffer \ forced) <= MaxBuffer

(* _flush_lock is never left behind by a task that ended: the loop or the
   shutdown that holds it is still in a flush. *)
FlushLockOwned ==
  /\ lock = "loop" => loop \in {"flush", "final"}
  /\ lock = "stop" => stop = "flush"

(* A graceful shutdown, whether the loop slept, was mid-write, backed off, had
   died or had never run, leaves no accepted checkpoint in memory only, unless
   its last write failed or a delete broke its last flush. *)
StopPersists ==
  [][ stop # "stopped" /\ stop' = "stopped" /\ faults' = faults /\ batch \subseteq buffer
      => live' \subseteq rows' ]_vars

(* While the loop lives, a buffered checkpoint reaches PostgreSQL or is deleted. *)
EventuallyDurable ==
  \A i \in 1..MaxPuts :
    i \in live ~> (i \in rows \/ i \notin live \/ loop \in {"off", "done", "fatal"})

(* Backpressure never blocks a graph forever, even if nothing drains the buffer. *)
PutReturns == \A t \in Threads : aputs[t] # "idle" ~> aputs[t] = "idle"

(* For the code above it the checkpointer is a WriteBehind store: no lock,
   batch, retry, cancellation or backpressure shows through. *)
WB == INSTANCE WriteBehind
ImplementsWriteBehind == WB!Spec

(* adelete_thread drops "every checkpoint for a thread from PostgreSQL and from
   the buffer": once it is done, no write brings one of them back. *)
DeletedStaysDeleted ==
  [][ \A i \in rows' \ rows : i \in buffer \/ owner[i] \in deleting ]_vars

-----------------------------------------------------------------------------
(* What makes the safety invariants inductive.                             *)

(* A committed batch is in the table, but for what a delete has taken. *)
LandedIsStored == landed => batch \cap live \subseteq rows

(* The batch in flight stays buffered, but for what a delete has taken. *)
BatchIsHeld == batch \cap live \subseteq buffer

(* The batch in flight is older than every other buffered checkpoint. *)
BatchIsOldest == \A i \in batch, j \in buffer \ batch : i < j

(* Checkpoints leave the buffer in the order they came. *)
FlushedInOrder == \A i \in live \ buffer, j \in buffer : i < j

IInv == /\ TypeOK
        /\ NoLoss
        /\ LandedIsStored
        /\ BatchIsHeld
        /\ BatchIsOldest
        /\ FlushedInOrder
        /\ FlushLockOwned

=============================================================================
