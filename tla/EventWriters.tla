---------------------------- MODULE EventWriters ----------------------------
(***************************************************************************)
(* The two log streams of the service: OperationalStreamWriter, which      *)
(* sends a whole batch of events to a log sink, and ForensicStreamWriter,  *)
(* which encrypts an event and saves a batch record by record to S3.  They *)
(* share their shape (a buffer, a flush that swaps it out, a flush loop, a *)
(* close), so a behaviour is one of either, told apart by `stream`.        *)
(*                                                                         *)
(* Who writes: the listeners of cancel messages, each one event, and, into *)
(* the forensic stream, AccessLogIngestor, which forwards the lines of the *)
(* S3 access logs.  `_lock` is left out: no block that holds it awaits.    *)
(***************************************************************************)
EXTENDS Integers, Sequences

CONSTANTS
  Listeners,   \* the listeners, and the cancel events they write
  Lines,       \* Lines[k]: how many lines of the k-th access log parse
  MaxBatch,    \* _max_batch
  MaxFaults    \* bound: how many calls of the sink, S3 or the KMS fail

ASSUME StreamsAssumption ==
  /\ Listeners \cap {"loop", "ingestor", "close"} = {}
  /\ Lines \in Seq(Nat) /\ MaxBatch \in Nat \ {0} /\ MaxFaults \in Nat

Objects == DOMAIN Lines
Records == Listeners \cup UNION {{<<k, i>> : i \in 1..Lines[k]} : k \in Objects}
Tasks   == Listeners \cup {"loop", "ingestor", "close"}

VARIABLES
  stream,     \* which writer this is; never changes
  buffer,     \* _buffer
  batch,      \* what each task's _flush has swapped out and not yet written
  pc,         \* where each task stands
  stage,      \* how far the shutdown is
  stored,     \* what the sink or the bucket holds
  objects,    \* the access logs in the bucket
  todo,       \* the keys ingest_once has yet to read
  line,       \* the line of the first of them that is being written, or 0
  marker,     \* _last_marker, 0 for None
  faults,
  taken       \* history: the lines of access logs that were ever appended to the buffer

ingestVars == <<objects, todo, line, marker>>
vars == <<stream, buffer, batch, pc, stage, stored, ingestVars, faults, taken>>

Elements(s) == {s[i] : i \in DOMAIN s}
Ended  == {"done", "raised", "cut"}
Closed == stage = "close"

-----------------------------------------------------------------------------
(* How a write or a flush ends for the task that made it.                  *)

Goto(t, where) == pc' = [pc EXCEPT ![t] = where]

Rest(t) == CASE t = "loop" -> "sleeping" [] t = "close" -> "closed" [] OTHER -> "done"

(* The log that ingest_once reads: the keys are sorted. *)
Key == CHOOSE k \in todo : \A j \in todo : k <= j

(* ingest_once goes on with line i of the log, or with the next log. *)
Ingest(i) ==
  IF i <= Lines[Key]
  THEN Goto("ingestor", "encrypting") /\ line' = i /\ UNCHANGED <<todo, marker>>
  ELSE /\ marker' = Key /\ todo' = todo \ {Key} /\ line' = 0
       /\ Goto("ingestor", IF todo' = {} THEN "sleeping" ELSE "getting")

Return(t) ==
  /\ IF t = "ingestor" THEN Ingest(line + 1)
                       ELSE Goto(t, Rest(t)) /\ UNCHANGED <<todo, line, marker>>
  /\ UNCHANGED objects

(* Variant: the marker is set in a finally block. *)
RaiseAndMark(t) ==
  /\ CASE t = "ingestor" -> Goto(t, "sleeping") /\ todo' = {} /\ line' = 0 /\ marker' = Key
       [] t = "loop"     -> Goto(t, "dead")   /\ UNCHANGED <<todo, line, marker>>
       [] OTHER          -> Goto(t, "raised") /\ UNCHANGED <<todo, line, marker>>
  /\ UNCHANGED objects

(* A ForensicWriteError leaves the task: the ingestor polls again later, the
   flush loop is over for good. *)
Raise(t) ==
  /\ CASE t = "ingestor" -> Goto(t, "sleeping") /\ todo' = {} /\ line' = 0 /\ UNCHANGED marker
       [] t = "loop"     -> Goto(t, "dead")   /\ UNCHANGED <<todo, line, marker>>
       [] OTHER          -> Goto(t, "raised") /\ UNCHANGED <<todo, line, marker>>
  /\ UNCHANGED objects

-----------------------------------------------------------------------------
(* write and _flush.                                                       *)

(* A full buffer is flushed by the write that filled it.  The operational
   writer no longer does so once it is closed. *)
FlushNow(buf) == Len(buf) >= MaxBatch /\ (stream = "operational" => ~Closed)

Append1(t, r) ==
  LET buf == Append(buffer, r) IN
  /\ taken' = IF t = "ingestor" THEN taken \cup {r} ELSE taken
  /\ IF FlushNow(buf)
     THEN /\ buffer' = <<>> /\ batch' = [batch EXCEPT ![t] = buf]
          /\ Goto(t, "flushing") /\ UNCHANGED ingestVars
     ELSE buffer' = buf /\ UNCHANGED batch /\ Return(t)
  /\ UNCHANGED <<stream, stage, stored, faults>>

(* A cancel message arrives and its listener writes the event: at once, or
   after the KMS has encrypted it. *)
WriteMasked(l) == stream = "operational" /\ pc[l] = "idle" /\ Append1(l, l)

Encrypt(l) ==
  /\ stream = "forensic" /\ pc[l] = "idle"
  /\ Goto(l, "encrypting")
  /\ UNCHANGED <<stream, buffer, batch, stage, stored, ingestVars, faults, taken>>

Encrypted(t) ==
  /\ pc[t] = "encrypting"
  /\ Append1(t, IF t = "ingestor" THEN <<Key, line>> ELSE t)

EncryptFails(t) ==
  /\ pc[t] = "encrypting" /\ faults < MaxFaults
  /\ faults' = faults + 1
  /\ Raise(t)
  /\ UNCHANGED <<stream, buffer, batch, stage, stored, taken>>

(* _flush of the loop and of close: an empty buffer needs no call. *)
Swap(t) ==
  /\ buffer' = <<>> /\ batch' = [batch EXCEPT ![t] = buffer]
  /\ Goto(t, IF buffer = <<>> THEN Rest(t) ELSE "flushing")
  /\ UNCHANGED <<stream, stage, stored, ingestVars, faults, taken>>

Tick == pc["loop"] = "sleeping" /\ buffer # <<>> /\ Swap("loop")

(* Operational: the sink takes the batch, or fails, and the batch goes back to
   the front.  A request that failed may have been served. *)
Sent(t) ==
  /\ stream = "operational" /\ pc[t] = "flushing"
  /\ stored' = stored \cup Elements(batch[t])
  /\ batch' = [batch EXCEPT ![t] = <<>>]
  /\ Return(t)
  /\ UNCHANGED <<stream, buffer, stage, faults, taken>>

(* Variant: what was buffered during the flush is overwritten. *)
RequeueOver(t) == batch[t]

Requeue(t) == batch[t] \o buffer

(* Variant: the failure ends the loop. *)
SwallowedFatal(t) == CASE t = "loop" -> "dead" [] t = "close" -> "failed" [] OTHER -> "done"

(* The failure is logged and swallowed; of close, nothing is left to retry. *)
Swallowed(t) == IF t = "close" THEN "failed" ELSE Rest(t)

SinkFails(t) ==
  /\ stream = "operational" /\ pc[t] = "flushing" /\ faults < MaxFaults
  /\ faults' = faults + 1
  /\ \E served \in {{}, Elements(batch[t])} : stored' = stored \cup served
  /\ buffer' = Requeue(t) /\ batch' = [batch EXCEPT ![t] = <<>>]
  /\ Goto(t, Swallowed(t))
  /\ UNCHANGED <<stream, stage, ingestVars, taken>>

(* Forensic: the next record is saved, or not, and the rest of the batch is
   dropped with it. *)
Saved(t) ==
  /\ stream = "forensic" /\ pc[t] = "flushing"
  /\ stored' = stored \cup {Head(batch[t])}
  /\ batch' = [batch EXCEPT ![t] = Tail(@)]
  /\ IF Len(batch[t]) = 1 THEN Return(t) ELSE UNCHANGED <<pc, ingestVars>>
  /\ UNCHANGED <<stream, buffer, stage, faults, taken>>

SaveFails(t) ==
  /\ stream = "forensic" /\ pc[t] = "flushing" /\ faults < MaxFaults
  /\ faults' = faults + 1
  /\ \E served \in {{}, {Head(batch[t])}} : stored' = stored \cup served
  /\ batch' = [batch EXCEPT ![t] = <<>>]
  /\ Raise(t)
  /\ UNCHANGED <<stream, buffer, stage, taken>>

-----------------------------------------------------------------------------
(* AccessLogIngestor.                                                      *)

(* Logs are delivered, in any order, and removed by the bucket's lifecycle. *)
Deliver(k) ==
  /\ stream = "forensic" /\ objects[k] = "none"
  /\ objects' = [objects EXCEPT ![k] = "there"]
  /\ UNCHANGED <<stream, buffer, batch, pc, stage, stored, todo, line, marker, faults, taken>>

Expire(k) ==
  /\ objects[k] = "there"
  /\ objects' = [objects EXCEPT ![k] = "gone"]
  /\ UNCHANGED <<stream, buffer, batch, pc, stage, stored, todo, line, marker, faults, taken>>

(* A poll lists the keys after the marker. *)
List ==
  /\ pc["ingestor"] = "sleeping"
  /\ todo' = {k \in Objects : objects[k] = "there" /\ k > marker}
  /\ todo' # {}
  /\ Goto("ingestor", "getting")
  /\ UNCHANGED <<stream, buffer, batch, stage, stored, objects, line, marker, faults, taken>>

(* The log is read; one that is gone meanwhile is passed over. *)
Get ==
  /\ pc["ingestor"] = "getting"
  /\ IF objects[Key] = "there"
     THEN Ingest(1)
     ELSE /\ todo' = todo \ {Key} /\ UNCHANGED <<line, marker>>
          /\ Goto("ingestor", IF todo' = {} THEN "sleeping" ELSE "getting")
  /\ UNCHANGED <<stream, buffer, batch, stage, stored, objects, faults, taken>>

-----------------------------------------------------------------------------
(* Cancellation and shutdown.                                              *)

(* CancelledError at the task's await: a batch it had swapped out is gone, but
   for what the request in flight achieves. *)
Cut(t) ==
  LET inFlight == IF batch[t] = <<>> THEN {}
                  ELSE IF stream = "operational" THEN Elements(batch[t])
                  ELSE {Head(batch[t])} IN
  /\ \E served \in {{}, inFlight} : stored' = stored \cup served
  /\ batch' = [batch EXCEPT ![t] = <<>>]
  /\ Goto(t, "cut")
  /\ UNCHANGED <<stream, buffer, ingestVars, faults, taken>>

(* unsubscribe, at the end of a session's stream or by unsubscribe_all. *)
Unsubscribe(l) == pc[l] \notin Ended /\ Cut(l) /\ UNCHANGED stage

(* _shutdown: the listeners first, then the ingestor, then the writers. *)
Shutdown ==
  /\ stage = "up"
  /\ stage' = "listeners"
  /\ UNCHANGED <<stream, buffer, batch, pc, stored, ingestVars, faults, taken>>

CloseIngestor ==
  /\ stage = "listeners" /\ \A l \in Listeners : pc[l] \in Ended
  /\ Cut("ingestor")
  /\ stage' = "ingestor"

(* Variant: the writer is closed before those who write to it. *)
WritersFirst == stage = "up"

WritersLast == stage = "ingestor"

(* close sets _closed and cancels the flush loop, if that is not over. *)
Close ==
  /\ WritersLast
  /\ stage' = "close"
  /\ IF pc["loop"] = "dead"
     THEN UNCHANGED <<stream, buffer, batch, pc, stored, ingestVars, faults, taken>>
     ELSE Cut("loop")

FinalFlush == Closed /\ pc["close"] = "open" /\ Swap("close")

-----------------------------------------------------------------------------
Init ==
  /\ stream \in {"operational", "forensic"}
  /\ buffer = <<>> /\ batch = [t \in Tasks |-> <<>>]
  /\ pc = [t \in Tasks |-> CASE t \in Listeners -> "idle" [] t = "close" -> "open"
                             [] OTHER -> "sleeping"]
  /\ stage = "up" /\ stored = {} /\ objects = [k \in Objects |-> "none"]
  /\ todo = {} /\ line = 0 /\ marker = 0 /\ faults = 0 /\ taken = {}

SinkReturns(t) == Sent(t) \/ SinkFails(t) \/ Saved(t) \/ SaveFails(t)

Next ==
  \/ \E l \in Listeners : WriteMasked(l) \/ Encrypt(l) \/ Unsubscribe(l)
  \/ \E t \in Tasks : Encrypted(t) \/ EncryptFails(t) \/ SinkReturns(t)
  \/ \E k \in Objects : Deliver(k) \/ Expire(k)
  \/ Tick \/ List \/ Get
  \/ Shutdown \/ CloseIngestor \/ Close \/ FinalFlush

(* The loop's sleep ends and every call is answered.  Nobody has to cancel a
   session, and nothing has to shut the service down. *)
Fairness == WF_vars(Tick) /\ \A t \in Tasks : WF_vars(SinkReturns(t))

Spec == Init /\ [][Next]_vars /\ Fairness

-----------------------------------------------------------------------------
(* Every variable has its type, and a batch belongs to a task in a flush. *)
TypeOK ==
  /\ stream \in {"operational", "forensic"}
  /\ buffer \in Seq(Records) /\ batch \in [Tasks -> Seq(Records)]
  /\ pc \in [Tasks -> Ended \cup {"idle", "encrypting", "flushing", "sleeping", "dead",
                                  "getting", "open", "closed", "failed"}]
  /\ \A t \in Tasks : batch[t] # <<>> <=> pc[t] = "flushing"
  /\ stage \in {"up", "listeners", "ingestor", "close"}
  /\ stored \subseteq Records /\ taken \subseteq Records
  /\ objects \in [Objects -> {"none", "there", "gone"}]
  /\ todo \subseteq Objects /\ line \in Nat /\ marker \in Objects \cup {0}
  /\ faults \in 0..MaxFaults

Accounted == Elements(buffer) \cup stored \cup UNION {Elements(batch[t]) : t \in Tasks}

DropsForCause ==
  \A r \in Accounted \ Accounted' : \E t \in Tasks :
    /\ r \in Elements(batch[t])
    /\ pc'[t] = "cut" \/ (stream = "forensic" /\ faults' > faults)

(* Concurrent flushes by writers, the loop and close lose no event ("re-enqueue
   so nothing is silently lost"): one disappears only from the batch of a task
   that is cancelled in its flush or, in the forensic stream, by a failed save. *)
NothingDropped == [][DropsForCause]_vars

(* Timer: a buffered event does not wait for the batch to fill; it is written
   once the sink works, unless it is lost with a batch, the service shuts down
   or, in the forensic stream, a failed save has ended the loop. *)
TimerDrains ==
  \A r \in Records :
    r \in Elements(buffer) ~>
      \/ r \in stored \/ r \notin Accounted
      \/ stage # "up" \/ (stream = "forensic" /\ pc["loop"] = "dead")

(* Shutdown order ("Ingestor first — it may still push events into the
   forensic writer"): after a close whose last flush did not fail, no event is
   left in the buffer or in a flush. *)
ShutdownDrains ==
  pc["close"] = "closed" => buffer = <<>> /\ \A t \in Tasks : batch[t] = <<>>

(* The marker passes a log only when each of its lines has reached the forensic
   writer, whatever flush of others' records failed on the way; else the log is
   read again. *)
MarkerCovers == \A k \in Objects : marker = k => \A i \in 1..Lines[k] : <<k, i>> \in taken

=============================================================================
