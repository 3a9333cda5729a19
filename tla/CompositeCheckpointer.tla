----------------------- MODULE CompositeCheckpointer -----------------------
(***************************************************************************)
(* RedisPostgresCheckpointer: every checkpoint goes to Redis at once and   *)
(* into the write-behind store of PostgreSQL, reads ask Redis first, and   *)
(* recover() reconciles the layers after a restart.  The process may crash *)
(* between any two awaits, a call of either layer may fail (a failed Redis *)
(* write may have been applied), Redis forgets keys when their TTL ends.   *)
(*                                                                         *)
(* PostgresCheckpointer is taken as the WriteBehind store it implements.   *)
(* A checkpoint is a number, drawn when the graph makes it; a thread's     *)
(* numbers are ordered as their `ts` are.                                  *)
(***************************************************************************)
EXTENDS Integers, Sequences

CONSTANTS
  Threads,      \* the conversation threads; each has one graph writing to it
  MaxPuts,      \* bound: how many checkpoints are made
  MaxFaults,    \* bound: how many calls to a layer fail
  MaxCrashes,   \* bound: how often the process ends
  MaxLapses,    \* bound: how many Redis keys expire or are damaged
  MaxDeletes    \* bound: how many threads are cleared

ASSUME BoundsAssumption ==
  /\ MaxPuts \in Nat /\ MaxFaults \in Nat /\ MaxCrashes \in Nat
  /\ MaxLapses \in Nat /\ MaxDeletes \in Nat

VARIABLES
  owner,      \* owner[i] is the thread of checkpoint i
  near,       \* checkpoints whose ts is within the slack of the thread's previous one
  keys,       \* Redis: the checkpoint:{thread}:{id} keys
  latest,     \* Redis: what checkpoint:{thread}:latest names, 0 without the key
  damaged,    \* Redis: keys whose checkpoint lacks a field it should have
  buffer, rows, live,   \* the write-behind store
  puts,       \* where each thread's aput stands
  dels,       \* where each thread's adelete_thread stands
  dropped,    \* buffered checkpoints a delete dropped, maybe in a batch in flight
  phase,      \* of the process
  todo,       \* threads recover() has yet to reconcile
  redisUp,    \* whether recover() found Redis reachable
  rec,        \* the thread recover() is at, its step and what it read
  faults, crashes, lapses, deletes,
  hot,        \* history: Redis took key and pointer; not expired; no damage, no delete since
  void,       \* history: a delete of the thread overlapped or followed the put
  replayed,   \* history: threads counted as redis_delta_replayed since the restart
  blind,      \* history: those replayed although PostgreSQL could not be read
  smooth      \* history: nothing failed, lapsed or timed out since the restart

pgVars     == <<buffer, rows, live>>
redisVars  == <<keys, latest, damaged>>
boundVars  == <<faults, crashes, lapses, deletes>>
recVars    == <<todo, redisUp, rec>>
replayVars == <<replayed, blind>>
vars == <<owner, near, redisVars, pgVars, puts, dels, dropped, phase, recVars,
          boundVars, hot, void, replayVars, smooth>>

Store == INSTANCE WriteBehind

Puts   == Store!Puts
Of(t)  == Store!Of(t)
Newest(S) == Store!Latest(S)

Idle == [at |-> "none", thread |-> 0, pg |-> 0, pgFailed |-> FALSE]

Fault == faults < MaxFaults /\ faults' = faults + 1 /\ smooth' = FALSE
NoFault == UNCHANGED <<faults, smooth>>

-----------------------------------------------------------------------------
(* Reads.                                                                  *)

(* RedisCheckpointer.aget: the pointer, then the key it names. *)
RedisGet(t) == IF latest[t] \in keys THEN latest[t] ELSE 0

PgGet(t) == Store!Aget(t)

(* aget: Redis first, PostgreSQL if Redis has nothing. *)
Read(t) == IF RedisGet(t) # 0 THEN RedisGet(t) ELSE PgGet(t)

(* _compare_timestamps: a is newer than b by more than the slack. *)
Newer(a, b) == \E k \in Of(owner[a]) : b < k /\ k <= a /\ k \notin near

SameInstant(a, b) == ~ Newer(a, b) /\ ~ Newer(b, a)

-----------------------------------------------------------------------------
(* aput: SET of the key, SET of the pointer, then the PostgreSQL buffer.   *)

Current(t) == Newest(Of(t))

PutUnchanged == UNCHANGED <<dels, dropped, phase, recVars, crashes, lapses, deletes,
                            replayVars>>

(* The graph makes a checkpoint and calls aput. *)
Begin(t) ==
  /\ phase = "up" /\ puts[t] = "idle" /\ Len(owner) < MaxPuts
  /\ owner' = Append(owner, t)
  /\ \/ near' = near
     \/ Of(t) # {} /\ near' = near \cup {Len(owner) + 1}
  /\ puts' = [puts EXCEPT ![t] = "key"]
  /\ void' = IF dels[t] = "idle" THEN void ELSE void \cup {Len(owner) + 1}
  /\ UNCHANGED <<redisVars, pgVars, hot>> /\ NoFault
  /\ PutUnchanged

(* The first SET returns. *)
PutKey(t) ==
  /\ puts[t] = "key"
  /\ keys' = keys \cup {Current(t)}
  /\ puts' = [puts EXCEPT ![t] = "pointer"]
  /\ UNCHANGED <<owner, near, latest, damaged, pgVars, hot, void>> /\ NoFault
  /\ PutUnchanged

(* The second SET returns: Redis has taken the checkpoint. *)
PutPointer(t) ==
  /\ puts[t] = "pointer"
  /\ latest' = [latest EXCEPT ![t] = Current(t)]
  /\ hot' = hot \cup ({Current(t)} \ (void \cup damaged))
  /\ puts' = [puts EXCEPT ![t] = "pg"]
  /\ UNCHANGED <<owner, near, keys, damaged, pgVars, void>> /\ NoFault
  /\ PutUnchanged

(* What a SET that raised, or whose caller was cancelled, may have done. *)
MaybeApplied(t) ==
  \/ UNCHANGED <<keys, latest>>
  \/ puts[t] = "key" /\ keys' = keys \cup {Current(t)} /\ UNCHANGED latest
  \/ puts[t] = "pointer" /\ latest' = [latest EXCEPT ![t] = Current(t)] /\ UNCHANGED keys

(* A SET raises after its retries: aput goes on to PostgreSQL. *)
PutRedisFails(t) ==
  /\ puts[t] \in {"key", "pointer"} /\ Fault
  /\ MaybeApplied(t)
  /\ puts' = [puts EXCEPT ![t] = "pg"]
  /\ UNCHANGED <<owner, near, damaged, pgVars, hot, void>>
  /\ PutUnchanged

(* The buffer takes the checkpoint, after its backpressure if it was full,
   and aput returns. *)
PutBuffer(t) ==
  /\ puts[t] = "pg"
  /\ Store!Insert(Current(t))
  /\ puts' = [puts EXCEPT ![t] = "idle"]
  /\ UNCHANGED <<near, redisVars, hot, void>> /\ NoFault
  /\ PutUnchanged

(* A cancelled chat cancels the graph's task inside aput. *)
PutCancelled(t) ==
  /\ puts[t] # "idle"
  /\ MaybeApplied(t)
  /\ puts' = [puts EXCEPT ![t] = "idle"]
  /\ UNCHANGED <<owner, near, damaged, pgVars, hot, void>> /\ NoFault
  /\ PutUnchanged

-----------------------------------------------------------------------------
(* adelete_thread (clear_context), which may run beside a put: the scanned *)
(* keys one by one, the pointer, the buffer, the rows.                     *)

DelUnchanged == UNCHANGED <<owner, near, puts, phase, recVars, crashes, lapses, replayVars>>

BeginDelete(t) ==
  /\ phase = "up" /\ dels[t] = "idle" /\ deletes < MaxDeletes
  /\ deletes' = deletes + 1
  /\ dels' = [dels EXCEPT ![t] = "keys"]
  /\ hot' = hot \ Of(t)
  /\ void' = void \cup Of(t)
  /\ UNCHANGED <<redisVars, pgVars, dropped>> /\ NoFault
  /\ DelUnchanged

DeleteKey(t) ==
  /\ dels[t] = "keys"
  /\ \E i \in keys \cap Of(t) : keys' = keys \ {i} /\ damaged' = damaged \ {i}
  /\ UNCHANGED <<latest, pgVars, dels, dropped, deletes, hot, void>> /\ NoFault
  /\ DelUnchanged

(* The scan finds no more; a key it missed is one a put sets after this. *)
ScanEnds(t) ==
  /\ dels[t] = "keys" /\ keys \cap Of(t) = {}
  /\ dels' = [dels EXCEPT ![t] = "pointer"]
  /\ UNCHANGED <<redisVars, pgVars, dropped, deletes, hot, void>> /\ NoFault
  /\ DelUnchanged

(* PostgreSQL's turn: its buffer is purged in the same step. *)
DropBuffer(t) ==
  /\ dels' = [dels EXCEPT ![t] = "rows"]
  /\ Store!Drop(t)
  /\ dropped' = dropped \cup (buffer \cap Of(t))

DeletePointer(t) ==
  /\ dels[t] = "pointer"
  /\ latest' = [latest EXCEPT ![t] = 0]
  /\ DropBuffer(t)
  /\ UNCHANGED <<keys, damaged, deletes, hot, void>> /\ NoFault
  /\ DelUnchanged

(* A Redis call raises: it is logged and PostgreSQL is cleared all the same. *)
DeleteRedisFails(t) ==
  /\ dels[t] \in {"keys", "pointer"} /\ Fault
  /\ DropBuffer(t)
  /\ UNCHANGED <<redisVars, deletes, hot, void>>
  /\ DelUnchanged

DeleteRows(t) ==
  /\ dels[t] = "rows"
  /\ Store!DropRows(t)
  /\ dels' = [dels EXCEPT ![t] = "idle"]
  /\ UNCHANGED <<redisVars, dropped, deletes, hot, void>> /\ NoFault
  /\ DelUnchanged

DeleteRowsFails(t) ==
  /\ dels[t] = "rows" /\ Fault
  /\ dels' = [dels EXCEPT ![t] = "idle"]
  /\ UNCHANGED <<redisVars, pgVars, dropped, deletes, hot, void>>
  /\ DelUnchanged

-----------------------------------------------------------------------------
(* The store's flushes, and what time does to Redis.                       *)

Still == UNCHANGED <<owner, near, puts, dels, dropped, phase, recVars, crashes, deletes,
                     void, replayVars>>

Flush ==
  /\ phase # "down"
  /\ \/ \E S \in SUBSET (buffer \cup dropped) : S # {} /\ Store!Persist(S)
     \/ \E S \in SUBSET buffer : S # {} /\ Store!Clean(S)
  /\ UNCHANGED <<redisVars, lapses, hot>> /\ NoFault
  /\ Still

Lapse == lapses < MaxLapses /\ lapses' = lapses + 1 /\ smooth' = FALSE

(* A thread's keys share one TTL, so the oldest goes first, and none while the
   thread's keys are being written. *)
Expire(t) ==
  /\ Lapse /\ puts[t] = "idle" /\ rec.thread # t
  /\ \/ \E i \in keys \cap Of(t) :
          /\ \A j \in keys \cap Of(t) : i <= j
          /\ keys' = keys \ {i} /\ damaged' = damaged \ {i}
          /\ hot' = hot \ {i}
          /\ UNCHANGED latest
     \/ /\ latest[t] # 0 /\ keys \cap Of(t) = {}
        /\ latest' = [latest EXCEPT ![t] = 0]
        /\ UNCHANGED <<keys, damaged, hot>>
  /\ UNCHANGED <<pgVars, faults>>
  /\ Still

(* A stored checkpoint no longer has the shape _is_valid_checkpoint asks for. *)
Damage(i) ==
  /\ Lapse
  /\ i \in keys \ damaged
  /\ damaged' = damaged \cup {i}
  /\ hot' = hot \ Of(owner[i])
  /\ UNCHANGED <<keys, latest, pgVars, faults>>
  /\ Still

-----------------------------------------------------------------------------
(* The end of the process and recover(), which runs before it serves.      *)

(* Any end: nothing stops the composite's flusher, so its buffer goes even in
   a graceful shutdown. *)
Crash ==
  /\ phase # "down" /\ crashes < MaxCrashes
  /\ crashes' = crashes + 1
  /\ phase' = "down"
  /\ buffer' = {} /\ live' = live \cap rows /\ dropped' = {}
  /\ puts' = [t \in Threads |-> "idle"] /\ dels' = [t \in Threads |-> "idle"]
  /\ todo' = {} /\ rec' = Idle /\ redisUp' = TRUE
  /\ replayed' = {} /\ blind' = {} /\ smooth' = TRUE
  /\ UNCHANGED <<owner, near, redisVars, rows, faults, lapses, deletes, hot, void>>

RecUnchanged == UNCHANGED <<owner, near, puts, dels, dropped, crashes, lapses, deletes,
                            hot, void>>

(* Variant: PostgreSQL alone names the threads. *)
CollectRows ==
  /\ phase = "down"
  /\ phase' = "recovering"
  /\ todo' = {t \in Threads : rows \cap Of(t) # {}}
  /\ redisUp' = TRUE
  /\ UNCHANGED <<redisVars, pgVars, rec, replayVars>> /\ NoFault
  /\ RecUnchanged

(* _collect_recovery_threads: the threads with rows, then those with a pointer;
   a layer that does not answer contributes none. *)
Collect ==
  /\ phase = "down"
  /\ phase' = "recovering"
  /\ \E pgOk, redisOk \in BOOLEAN :
       /\ IF pgOk /\ redisOk THEN NoFault ELSE Fault
       /\ todo' = {t \in Threads : (pgOk /\ rows \cap Of(t) # {}) \/ (redisOk /\ latest[t] # 0)}
       /\ redisUp' = redisOk
  /\ UNCHANGED <<redisVars, pgVars, rec, replayVars>>
  /\ RecUnchanged

(* The next thread: PostgreSQL's tuple is read, or cannot be. *)
RecoverReadPg(t) ==
  /\ phase = "recovering" /\ rec = Idle /\ t \in todo
  /\ todo' = todo \ {t}
  /\ \/ rec' = [at |-> "redis", thread |-> t, pg |-> PgGet(t), pgFailed |-> FALSE] /\ NoFault
     \/ rec' = [at |-> "redis", thread |-> t, pg |-> 0, pgFailed |-> TRUE] /\ Fault
  /\ UNCHANGED <<redisVars, pgVars, phase, redisUp, replayVars>>
  /\ RecUnchanged

(* Redis has nothing, cannot be read, or holds nothing newer: the snapshot
   stands, and so does an older Redis copy. *)
RecoverPgStands ==
  /\ rec.at = "redis"
  /\ LET r == RedisGet(rec.thread) IN
     \/ ~ redisUp /\ NoFault
     \/ redisUp /\ Fault
     \/ r = 0 /\ NoFault
     \/ r # 0 /\ rec.pg # 0 /\ Newer(rec.pg, r) /\ NoFault
     \/ r # 0 /\ r = rec.pg /\ r \notin damaged /\ NoFault
  /\ rec' = Idle
  /\ UNCHANGED <<redisVars, pgVars, phase, todo, redisUp, replayVars>>
  /\ RecUnchanged

(* Variant: whatever Redis holds is taken for a delta. *)
AheadIfDifferent(r) == r # 0 /\ r # rec.pg

(* Redis is ahead, by its ts or because no PostgreSQL tuple was read. *)
RedisAhead(r) == r # 0 /\ (rec.pg = 0 \/ Newer(r, rec.pg))

(* _replayable refuses a damaged checkpoint: the thread is left as it was. *)
RecoverNeedsReview ==
  /\ rec.at = "redis" /\ redisUp
  /\ RedisAhead(RedisGet(rec.thread)) /\ RedisGet(rec.thread) \in damaged
  /\ rec' = Idle
  /\ UNCHANGED <<redisVars, pgVars, phase, todo, redisUp, replayVars>> /\ NoFault
  /\ RecUnchanged

(* replay_checkpoint appends to the buffer, which needs no PostgreSQL. *)
RecoverReplay ==
  /\ rec.at = "redis" /\ redisUp
  /\ LET r == RedisGet(rec.thread) IN
       /\ RedisAhead(r) /\ r \notin damaged
       /\ Store!Insert(r)
       /\ replayed' = replayed \cup {r}
       /\ blind' = IF rec.pgFailed THEN blind \cup {r} ELSE blind
  /\ rec' = Idle
  /\ UNCHANGED <<near, redisVars, phase, todo, redisUp>> /\ NoFault
  /\ UNCHANGED <<puts, dels, dropped, crashes, lapses, deletes, hot, void>>

(* Variant: PostgreSQL wins over any other content. *)
ConflictWheneverDifferent ==
  /\ rec.at = "redis" /\ redisUp /\ rec.pg # 0
  /\ RedisGet(rec.thread) \notin {0, rec.pg}
  /\ rec' = [rec EXCEPT !.at = "key"]
  /\ UNCHANGED <<redisVars, pgVars, phase, todo, redisUp, replayVars>> /\ NoFault
  /\ RecUnchanged

(* Variant: a thread PostgreSQL does not know is rewritten too. *)
ConflictWithNothing ==
  /\ rec.at = "redis" /\ redisUp
  /\ RedisGet(rec.thread) \in damaged
  /\ rec' = [rec EXCEPT !.at = "key"]
  /\ UNCHANGED <<redisVars, pgVars, phase, todo, redisUp, replayVars>> /\ NoFault
  /\ RecUnchanged

(* Same instant and other content, or a damaged ts that cannot be compared:
   Redis is rewritten from PostgreSQL, key and pointer. *)
RecoverConflict ==
  /\ rec.at = "redis" /\ redisUp /\ rec.pg # 0
  /\ LET r == RedisGet(rec.thread) IN
       /\ r # 0
       /\ \/ r # rec.pg /\ SameInstant(r, rec.pg)
          \/ r \in damaged
  /\ rec' = [rec EXCEPT !.at = "key"]
  /\ UNCHANGED <<redisVars, pgVars, phase, todo, redisUp, replayVars>> /\ NoFault
  /\ RecUnchanged

RewriteKey ==
  /\ rec.at = "key"
  /\ keys' = keys \cup {rec.pg} /\ damaged' = damaged \ {rec.pg}
  /\ rec' = [rec EXCEPT !.at = "pointer"]
  /\ UNCHANGED <<latest, pgVars, phase, todo, redisUp, replayVars>> /\ NoFault
  /\ RecUnchanged

RewritePointer ==
  /\ rec.at = "pointer"
  /\ latest' = [latest EXCEPT ![rec.thread] = rec.pg]
  /\ rec' = Idle
  /\ UNCHANGED <<keys, damaged, pgVars, phase, todo, redisUp, replayVars>> /\ NoFault
  /\ RecUnchanged

(* The rewrite raised, applied or not: it is logged. *)
RewriteFails ==
  /\ rec.at \in {"key", "pointer"} /\ Fault
  /\ \/ UNCHANGED redisVars
     \/ /\ rec.at = "key" /\ keys' = keys \cup {rec.pg} /\ damaged' = damaged \ {rec.pg}
        /\ UNCHANGED latest
     \/ /\ rec.at = "pointer" /\ latest' = [latest EXCEPT ![rec.thread] = rec.pg]
        /\ UNCHANGED <<keys, damaged>>
  /\ rec' = Idle
  /\ UNCHANGED <<pgVars, phase, todo, redisUp, replayVars>>
  /\ RecUnchanged

(* All threads are done, or the budget is used up with some left: the service
   accepts requests. *)
Serve ==
  /\ phase = "recovering" /\ rec = Idle
  /\ phase' = "up" /\ todo' = {}
  /\ smooth' = (smooth /\ todo = {})
  /\ UNCHANGED <<redisVars, pgVars, redisUp, rec, faults, replayVars>>
  /\ RecUnchanged

-----------------------------------------------------------------------------
Init ==
  /\ owner = <<>> /\ near = {}
  /\ keys = {} /\ latest = [t \in Threads |-> 0] /\ damaged = {}
  /\ buffer = {} /\ rows = {} /\ live = {}
  /\ puts = [t \in Threads |-> "idle"] /\ dels = [t \in Threads |-> "idle"]
  /\ dropped = {}
  /\ phase = "down" /\ todo = {} /\ redisUp = TRUE /\ rec = Idle
  /\ faults = 0 /\ crashes = 0 /\ lapses = 0 /\ deletes = 0
  /\ hot = {} /\ void = {} /\ replayed = {} /\ blind = {} /\ smooth = TRUE

Next ==
  \/ \E t \in Threads :
       \/ Begin(t) \/ PutKey(t) \/ PutPointer(t) \/ PutRedisFails(t) \/ PutBuffer(t)
       \/ PutCancelled(t)
       \/ BeginDelete(t) \/ DeleteKey(t) \/ ScanEnds(t) \/ DeletePointer(t)
       \/ DeleteRedisFails(t) \/ DeleteRows(t) \/ DeleteRowsFails(t)
       \/ Expire(t) \/ RecoverReadPg(t)
  \/ \E i \in keys : Damage(i)
  \/ Flush \/ Crash \/ Collect
  \/ RecoverPgStands \/ RecoverNeedsReview \/ RecoverReplay \/ RecoverConflict
  \/ RewriteKey \/ RewritePointer \/ RewriteFails \/ Serve

Spec == Init /\ [][Next]_vars

-----------------------------------------------------------------------------
(* Properties.                                                             *)

(* Every variable keeps its type; a thread's Redis pointer names a checkpoint of
   that thread, and PostgreSQL answers only for what it holds. *)
TypeOK ==
  /\ owner \in Seq(Threads)
  /\ near \subseteq Puts /\ keys \subseteq Puts /\ damaged \subseteq keys
  /\ latest \in [Threads -> Puts \cup {0}]
  /\ \A t \in Threads : latest[t] # 0 => owner[latest[t]] = t
  /\ buffer \subseteq Puts /\ rows \subseteq Puts /\ live \subseteq buffer \cup rows
  /\ puts \in [Threads -> {"idle", "key", "pointer", "pg"}]
  /\ dels \in [Threads -> {"idle", "keys", "pointer", "rows"}]
  /\ dropped \subseteq Puts
  /\ phase \in {"down", "recovering", "up"}
  /\ todo \subseteq Threads /\ redisUp \in BOOLEAN /\ smooth \in BOOLEAN
  /\ rec = Idle \/ rec \in [at : {"redis", "key", "pointer"}, thread : Threads,
                            pg : Puts \cup {0}, pgFailed : BOOLEAN]
  /\ hot \subseteq Puts /\ void \subseteq Puts
  /\ blind \subseteq replayed /\ replayed \subseteq Puts

(* A checkpoint Redis accepted whole stays what the thread resumes from until a
   newer one replaces it: no crash in the middle of a later put, failed write,
   cancelled put or recovery makes a read answer an older state, but one of the
   same instant that won a conflict. *)
HotReadable ==
  \A i \in hot : LET r == Read(owner[i]) IN r >= i \/ (r # 0 /\ SameInstant(r, i))

(* A recovery in which no layer failed and no time ran out leaves PostgreSQL at
   least as new as Redis for every thread whose Redis copy is sound. *)
RecoveryReconciles ==
  [][ phase = "recovering" /\ phase' = "up" /\ smooth'
      => \A t \in Threads : LET r == RedisGet(t) IN
           \/ r = 0 \/ r \in damaged \/ r <= PgGet(t)
           \/ PgGet(t) # 0 /\ SameInstant(r, PgGet(t)) ]_vars

(* The buffer, which PostgreSQL's reads prefer, never hides a newer row, unless
   recovery replayed a thread whose rows it could not read. *)
BufferHidesNoRow ==
  \A t \in Threads : blind \cap Of(t) = {} => PgGet(t) >= Newest(rows \cap Of(t))

(* "the delta is durable before the first request" *)
ReplayDurable == phase = "up" => replayed \subseteq rows

(* "When PG is merely unreachable the replay cannot land, so the thread is left
   for the next pass rather than counted as replayed." *)
NoBlindReplay == blind = {}
=============================================================================
