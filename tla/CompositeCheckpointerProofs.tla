--------------------- MODULE CompositeCheckpointerProofs ---------------------
(***************************************************************************)
(* CompositeCheckpointer, for every set of threads and every number of     *)
(* checkpoints, faults, crashes, lapses and deletes: what a reader of a    *)
(* thread finds, and what a recovery leaves.                               *)
(*                                                                         *)
(* The invariant follows a checkpoint that Redis accepted whole (HotInv):  *)
(* the pointer reaches it, and if the pointer is behind it because a       *)
(* recovery resolved a conflict, PostgreSQL reaches it as well, so that    *)
(* the key may expire.  Around it: what each phase of the process has      *)
(* left, where recovery stands, and why the buffer is never behind.        *)
(***************************************************************************)
EXTENDS CompositeCheckpointer, NaturalsInduction, WellFoundedInduction, TLAPS

-----------------------------------------------------------------------------
(* The newest of a set of checkpoints.                                     *)

(* A set of numbers up to n has a greatest. *)
LEMMA GreatestExists ==
  ASSUME NEW n \in Nat, NEW S \in SUBSET (1..n), S # {}
  PROVE  \E m \in S : \A j \in S : j <= m
<1> DEFINE D == {k \in Nat : n - k \in S}
<1>1. D \subseteq Nat /\ D # {}
  <2>1. PICK i \in S : TRUE
    OBVIOUS
  <2>2. n - i \in Nat /\ n - (n - i) = i
    BY <2>1
  <2> QED BY <2>1, <2>2
<1>2. PICK d \in D : \A e \in D : ~ (<<e, d>> \in OpToRel(<, Nat))
  <2> HIDE DEF D
  <2> QED BY <1>1, NatLessThanWellFounded, WFMin
<1>3. ASSUME NEW j \in S PROVE j <= n - d
  <2>1. n - j \in D
    BY <1>3
  <2>2. ~ (n - j < d)
    BY <1>2, <2>1, n - j \in Nat, d \in Nat DEF OpToRel
  <2> QED BY <2>2
<1> QED BY <1>3

(* ... which is the one a read answers. *)
LEMMA NewestIs ==
  ASSUME NEW n \in Nat, NEW S \in SUBSET (1..n), S # {}
  PROVE  Newest(S) \in S /\ \A j \in S : j <= Newest(S)
<1>1. \E m \in S : \A j \in S : j <= m
  BY GreatestExists
<1> QED BY <1>1 DEF Newest, Store!Latest

(* Of no checkpoints a read answers 0. *)
LEMMA NewestOfNone == Newest({}) = 0
BY DEF Newest, Store!Latest

(* What PostgreSQL answers when B is in its buffer and R in its table. *)
Answer(B, R) == IF B # {} THEN Newest(B) ELSE Newest(R)

(* PostgreSQL answers from its buffer first, before a step and after it. *)
LEMMA PgAnswers == \A t : PgGet(t) = Answer(buffer \cap Of(t), rows \cap Of(t))
BY DEF PgGet, Store!Aget, Answer, Newest, Of

(* The same of the state after a step. *)
LEMMA PgAnswersNext == \A t : PgGet(t)' = Answer(buffer' \cap Of(t)', rows' \cap Of(t)')
BY DEF PgGet, Store!Aget, Answer, Newest, Of, Store!Of

-----------------------------------------------------------------------------
(* The numbers of checkpoints.                                             *)

(* Checkpoints are numbered from 1, and each belongs to a thread. *)
LEMMA Numbers ==
  ASSUME TypeOK
  PROVE  /\ Len(owner) \in Nat /\ Puts = 1..Len(owner) /\ Puts \subseteq Int
         /\ \A t : Of(t) \in SUBSET (1..Len(owner)) /\ Of(t) \subseteq Puts
         /\ \A i \in Puts : owner[i] \in Threads /\ i \in Of(owner[i]) /\ i >= 1
BY DEF TypeOK, Puts, Of, Store!Puts, Store!Of

(* A thread's newest checkpoint, once it has any. *)
LEMMA CurrentIs ==
  ASSUME TypeOK, NEW t, Of(t) # {}
  PROVE  Current(t) \in Of(t) /\ \A j \in Of(t) : j <= Current(t)
BY Numbers, NewestIs DEF Current

(* A new checkpoint is the newest of its thread. *)
LEMMA Made ==
  ASSUME TypeOK, NEW t \in Threads, owner' = Append(owner, t)
  PROVE  /\ owner' \in Seq(Threads)
         /\ Puts' = Puts \cup {Len(owner) + 1} /\ Len(owner) + 1 \notin Puts
         /\ \A i \in Puts : owner'[i] = owner[i] /\ i < Len(owner) + 1
         /\ owner'[Len(owner) + 1] = t
         /\ Of(t)' = Of(t) \cup {Len(owner) + 1}
         /\ \A u : u # t => Of(u)' = Of(u)
         /\ Current(t)' = Len(owner) + 1
<1>1. owner \in Seq(Threads) /\ Len(owner) \in Nat
  BY DEF TypeOK
<1>2. /\ owner' \in Seq(Threads) /\ Len(owner') = Len(owner) + 1
      /\ \A i \in 1..Len(owner) : owner'[i] = owner[i]
      /\ owner'[Len(owner) + 1] = t
  BY <1>1
<1>3. /\ Puts = 1..Len(owner) /\ Puts' = 1..(Len(owner) + 1)
  BY <1>1, <1>2 DEF Puts, Store!Puts
<1>4. \A u : Of(u) = {i \in 1..Len(owner) : owner[i] = u}
  BY <1>3 DEF Of, Store!Of, Puts
<1>5. \A u : Of(u)' = {i \in 1..(Len(owner) + 1) : owner'[i] = u}
  BY <1>3 DEF Of, Store!Of, Puts
<1>6. Of(t)' = Of(t) \cup {Len(owner) + 1}
  BY <1>1, <1>2, <1>4, <1>5
<1>7. ASSUME NEW u, u # t PROVE Of(u)' = Of(u)
  <2>1. \A i \in 1..(Len(owner) + 1) : i \in 1..Len(owner) \/ i = Len(owner) + 1
    BY <1>1
  <2>2. \A i : i \in Of(u)' <=> i \in Of(u)
    BY <1>1, <1>2, <1>4, <1>5, <1>7, <2>1
  <2> QED BY <2>2
<1>8. Current(t)' = Len(owner) + 1
  <2> DEFINE S == Of(t) \cup {Len(owner) + 1}
  <2>1. S \in SUBSET (1..(Len(owner) + 1)) /\ Len(owner) + 1 \in S /\ Len(owner) + 1 \in Nat
    BY <1>1, <1>4
  <2>2. Current(t)' = Newest(S)
    BY <1>6 DEF Current, Newest
  <2> HIDE DEF S
  <2>3. Newest(S) \in S /\ \A j \in S : j <= Newest(S)
    BY <2>1, NewestIs
  <2>4. Newest(S) \in 1..(Len(owner) + 1) /\ Len(owner) + 1 <= Newest(S)
    BY <2>1, <2>3
  <2> QED BY <1>1, <2>2, <2>4
<1> QED BY <1>1, <1>2, <1>3, <1>6, <1>7, <1>8

(* Without a new checkpoint all of this stays. *)
LEMMA SamePuts == owner' = owner => Puts' = Puts
BY DEF Puts, Store!Puts

(* The threads of the checkpoints, and each thread's newest. *)
LEMMA SameOwner == owner' = owner => \A t : Of(t)' = Of(t) /\ Current(t)' = Current(t)
BY DEF Of, Current, Newest, Store!Puts, Store!Of

-----------------------------------------------------------------------------
(* The invariant.                                                          *)

(* p is as new as i, or of the same instant. *)
Reaches(p, i) == p # 0 /\ \A k \in Of(owner[i]) : p < k /\ k <= i => k \in near

(* A process that is down or recovering has nothing under way for a client, and
   the buffer has nothing of a thread that recovery has yet to look at. *)
PhaseInv ==
  /\ phase # "up" => /\ \A t \in Threads : puts[t] = "idle" /\ dels[t] = "idle"
                     /\ dropped = {} /\ buffer \subseteq live
  /\ phase = "down" => buffer = {} /\ blind = {} /\ rec = Idle /\ todo = {}
  /\ rec # Idle \/ todo # {} => phase = "recovering"
  /\ \A t \in todo : buffer \cap Of(t) = {}

(* What recover() has read of a thread is still so, and what it will rewrite
   Redis with reaches what Redis had. *)
RecInv ==
  rec # Idle =>
    /\ rec.thread \notin todo /\ buffer \cap Of(rec.thread) = {}
    /\ rec.pg = IF rec.pgFailed THEN 0 ELSE Newest(rows \cap Of(rec.thread))
    /\ rec.at # "redis" => rec.pg # 0 /\ \A i \in hot \cap Of(rec.thread) : Reaches(rec.pg, i)
    /\ rec.at = "pointer" => rec.pg \in keys /\ (rec.pg \in damaged => hot \cap Of(rec.thread) = {})

(* A put under way is of the thread's newest; a delete under way, or one that
   met the newest, has voided the whole thread. *)
PutInv(t) ==
  /\ puts[t] # "idle" => Of(t) # {}
  /\ puts[t] = "pointer" => Current(t) \in keys \/ Of(t) \subseteq void
  /\ dels[t] # "idle" => Of(t) \subseteq void
  /\ Of(t) # {} /\ Current(t) \in void => Of(t) \subseteq void

(* The buffer's newest of a thread is newer than what the table has, or may yet
   get from a batch in flight. *)
BufferInv(t) ==
  blind \cap Of(t) = {} /\ buffer \cap Of(t) # {} =>
    \A i \in (rows \cup dropped) \cap Of(t) : \E j \in buffer \cap Of(t) : i <= j

Behind(t) == \E i \in hot \cap Of(t) : latest[t] < i

(* PostgreSQL answers with something that reaches i, whatever is flushed. *)
PgReaches(t, i) ==
  /\ \E p \in rows \cap Of(t) : Reaches(p, i)
  /\ buffer \cap Of(t) # {} => \E p \in buffer \cap Of(t) : Reaches(p, i)

(* A checkpoint Redis accepted whole is reached by the pointer; and the key that
   the pointer names is there, unless the pointer is behind. *)
HotThread(t) ==
  \A i \in hot \cap Of(t) :
    /\ i \in keys /\ i \notin void
    /\ \A d \in damaged \cap Of(t) : d < i
    /\ Reaches(latest[t], i) /\ latest[t] \notin damaged
    /\ IF Behind(t) THEN PgReaches(t, i) ELSE latest[t] \in keys

HotInv == \A t \in Threads : HotThread(t)

(* A recovery that met no failure has left PostgreSQL as new as Redis for each
   thread it is done with. *)
Reconciled(t) ==
  LET r == RedisGet(t) IN r = 0 \/ r \in damaged \/ Reaches(PgGet(t), r)

ReconciledInv ==
  phase = "recovering" /\ smooth =>
    redisUp /\ \A t \in Threads \ todo : ~ (rec # Idle /\ rec.thread = t) => Reconciled(t)

LayersInv == TypeOK /\ PhaseInv /\ RecInv /\ \A t \in Threads : PutInv(t) /\ BufferInv(t)

IInv == LayersInv /\ HotInv /\ ReconciledInv

(* The checkpoint that recover() has read from PostgreSQL is a row of the thread. *)
LEMMA RecOwned ==
  ASSUME LayersInv, rec # Idle
  PROVE  /\ rec.thread \in Threads /\ rec.pg \in Of(rec.thread) \cup {0} /\ rec.pg \in Puts \cup {0}
         /\ rec.pg # 0 => rec.pg \in rows \cap Of(rec.thread)
         /\ rec.pg # 0 => \A j \in rows \cap Of(rec.thread) : j <= rec.pg
         /\ rec = [at |-> rec.at, thread |-> rec.thread, pg |-> rec.pg, pgFailed |-> rec.pgFailed]
         /\ rec.at \in {"redis", "key", "pointer"} /\ rec.pgFailed \in BOOLEAN
<1> DEFINE S == rows \cap Of(rec.thread)
<1>1. TypeOK /\ RecInv
  BY DEF LayersInv
<1>2. rec \in [at : {"redis", "key", "pointer"}, thread : Threads, pg : Puts \cup {0}, pgFailed : BOOLEAN]
  BY <1>1 DEF TypeOK
<1>3. Len(owner) \in Nat /\ S \in SUBSET (1..Len(owner)) /\ Of(rec.thread) \subseteq Puts
  BY <1>1, Numbers
<1>4. rec.pg = IF rec.pgFailed THEN 0 ELSE Newest(S)
  BY <1>1 DEF RecInv
<1> HIDE DEF S
<1>5. S = {} => Newest(S) = 0
  BY NewestOfNone
<1>6. S # {} => Newest(S) \in S /\ \A j \in S : j <= Newest(S)
  BY <1>3, NewestIs
<1>7. rec.pg # 0 => rec.pg \in S /\ \A j \in S : j <= rec.pg
  BY <1>4, <1>5, <1>6
<1> USE DEF S
<1> QED BY <1>2, <1>3, <1>7

(* What PostgreSQL answers for a thread is one of its checkpoints, or 0. *)
LEMMA PgOwned ==
  ASSUME TypeOK, NEW t
  PROVE  /\ PgGet(t) \in Of(t) \cup {0} /\ PgGet(t) \in Puts \cup {0}
         /\ buffer \cap Of(t) = {} => PgGet(t) = Newest(rows \cap Of(t))
<1> DEFINE B == buffer \cap Of(t)
           R == rows \cap Of(t)
<1>1. Len(owner) \in Nat /\ B \in SUBSET (1..Len(owner)) /\ R \in SUBSET (1..Len(owner)) /\ Of(t) \subseteq Puts
  BY Numbers
<1>2. PgGet(t) = Answer(B, R) /\ B \subseteq Of(t) /\ R \subseteq Of(t)
  BY PgAnswers
<1> HIDE DEF B, R
<1>3. Answer(B, R) \in B \cup R \cup {0} /\ (B = {} => Answer(B, R) = Newest(R))
  BY <1>1, NewestIs, NewestOfNone DEF Answer
<1> QED BY <1>1, <1>2, <1>3 DEF B, R

(* The invariant at the start. *)
LEMMA CompositeInit == Init => IInv
<1> SUFFICES ASSUME Init PROVE IInv
  OBVIOUS
<1>1. owner \in Seq(Threads) /\ \A t : Of(t) = {}
  BY DEF Init, Of, Store!Of, Store!Puts
<1>2. TypeOK
  BY <1>1 DEF Init, TypeOK
<1>3. LayersInv
  BY <1>1, <1>2 DEF Init, LayersInv, PhaseInv, RecInv, PutInv, BufferInv
<1>4. HotInv /\ ReconciledInv
  BY DEF Init, HotInv, HotThread, ReconciledInv
<1> QED BY <1>3, <1>4 DEF IInv

-----------------------------------------------------------------------------
(* Types, under every step.                                                *)

(* Types are kept. *)
LEMMA TypeStep == LayersInv /\ [Next]_vars => TypeOK'
<1> SUFFICES ASSUME LayersInv, [Next]_vars PROVE TypeOK'
  OBVIOUS
<1>0. /\ TypeOK /\ PhaseInv /\ RecInv
      /\ \A t \in Threads : puts[t] # "idle" => Current(t) \in Puts /\ owner[Current(t)] = t
  BY Numbers, CurrentIs DEF LayersInv, PutInv, Of, Store!Of
<1> USE <1>0
<1> USE DEF redisVars, pgVars, boundVars, recVars, replayVars, PutUnchanged, DelUnchanged, Still,
            RecUnchanged, NoFault, Fault, Lapse
<1>1. ASSUME NEW t \in Threads, Begin(t) PROVE TypeOK'
  <2>1. owner' \in Seq(Threads) /\ Puts \subseteq Puts' /\ Len(owner) + 1 \in Puts' /\ Puts' = DOMAIN owner'
        /\ \A i \in Puts : owner'[i] = owner[i]
    BY <1>1, Made DEF Begin, Puts, Store!Puts
  <2>2. \A u \in Threads : latest'[u] # 0 => owner'[latest'[u]] = u
    BY <1>1, <2>1 DEF Begin, TypeOK
  <2> QED BY <1>1, <2>1, <2>2 DEF Begin, TypeOK
<1>2. ASSUME NEW t \in Threads, PutKey(t) \/ PutPointer(t) PROVE TypeOK'
  BY <1>2, SamePuts DEF PutKey, PutPointer, TypeOK
<1>3. ASSUME NEW t \in Threads, PutRedisFails(t) \/ PutCancelled(t) PROVE TypeOK'
  <2>1. keys \subseteq keys' /\ keys' \subseteq Puts /\ owner' = owner
    BY <1>3 DEF PutRedisFails, PutCancelled, MaybeApplied, TypeOK
  <2>2. latest' \in [Threads -> Puts \cup {0}] /\ \A u \in Threads : latest'[u] # 0 => owner[latest'[u]] = u
    <3>1. latest' = latest \/ (puts[t] # "idle" /\ latest' = [latest EXCEPT ![t] = Current(t)])
      BY <1>3 DEF PutRedisFails, PutCancelled, MaybeApplied
    <3> QED BY <3>1 DEF TypeOK
  <2> QED BY <1>3, <2>1, <2>2, SamePuts DEF PutRedisFails, PutCancelled, TypeOK
<1>4. ASSUME NEW t \in Threads, PutBuffer(t) PROVE TypeOK'
  BY <1>4, SamePuts DEF PutBuffer, Store!Insert, TypeOK
<1>5. ASSUME NEW t \in Threads, BeginDelete(t) \/ DeleteKey(t) \/ ScanEnds(t) \/ DeleteRowsFails(t) PROVE TypeOK'
  <2>1. Of(t) \subseteq Puts
    BY Numbers
  <2> QED BY <1>5, <2>1, SamePuts DEF BeginDelete, DeleteKey, ScanEnds, DeleteRowsFails, TypeOK
<1>6. ASSUME NEW t \in Threads, DeletePointer(t) \/ DeleteRedisFails(t) PROVE TypeOK'
  <2>1. /\ buffer' = buffer \ Of(t) /\ live' = live \ Of(t) /\ owner' = owner
        /\ dropped' = dropped \cup (buffer \cap Of(t)) /\ dels' = [dels EXCEPT ![t] = "rows"]
    BY <1>6 DEF DeletePointer, DeleteRedisFails, DropBuffer, Store!Drop, Of
  <2>2. Of(t) \subseteq Puts
    BY Numbers
  <2>3. /\ UNCHANGED <<near, keys, damaged, rows, puts, phase, todo, redisUp, rec, hot, void, replayed, blind>>
        /\ smooth' \in BOOLEAN /\ (latest' = latest \/ latest' = [latest EXCEPT ![t] = 0])
    BY <1>6 DEF DeletePointer, DeleteRedisFails, DropBuffer, Store!Drop, TypeOK
  <2>4. /\ latest' \in [Threads -> Puts \cup {0}] /\ \A u \in Threads : latest'[u] # 0 => owner[latest'[u]] = u
        /\ dels' \in [Threads -> {"idle", "keys", "pointer", "rows"}]
        /\ live' \subseteq buffer' \cup rows' /\ buffer' \subseteq Puts /\ dropped' \subseteq Puts
    BY <2>1, <2>2, <2>3 DEF TypeOK
  <2> QED BY <2>1, <2>3, <2>4, SamePuts DEF TypeOK
<1>7. ASSUME NEW t \in Threads, DeleteRows(t) PROVE TypeOK'
  <2>1. /\ rows' = rows \ Of(t) /\ live' = live \ Of(t) /\ UNCHANGED <<owner, buffer>>
        /\ dels' = [dels EXCEPT ![t] = "idle"]
    BY <1>7 DEF DeleteRows, Store!DropRows, Of
  <2>2. UNCHANGED <<near, keys, latest, damaged, puts, dropped, phase, todo, redisUp, rec, hot, void,
                    replayed, blind, smooth>>
    BY <1>7 DEF DeleteRows
  <2>3. live' \subseteq buffer' \cup rows' /\ rows' \subseteq Puts /\ dels' \in [Threads -> {"idle", "keys", "pointer", "rows"}]
    BY <2>1 DEF TypeOK
  <2> QED BY <2>1, <2>2, <2>3, SamePuts DEF TypeOK
<1>8. CASE Flush
  <2>1. /\ owner' = owner /\ buffer' \subseteq buffer /\ rows \subseteq rows' /\ rows' \subseteq rows \cup buffer \cup dropped
        /\ live' = live /\ live' \subseteq buffer' \cup rows'
    <3>1. ASSUME NEW S \in SUBSET (buffer \cup dropped), Store!Persist(S) PROVE <2>1!:
      BY <3>1 DEF Store!Persist, TypeOK
    <3>2. ASSUME NEW S \in SUBSET buffer, Store!Clean(S) PROVE <2>1!:
      BY <3>2 DEF Store!Clean, TypeOK
    <3> QED BY <1>8, <3>1, <3>2 DEF Flush
  <2> QED BY <1>8, <2>1, SamePuts DEF Flush, TypeOK
<1>9. ASSUME NEW t \in Threads, Expire(t) PROVE TypeOK'
  BY <1>9, SamePuts DEF Expire, TypeOK
<1>10. ASSUME NEW i \in keys, Damage(i) PROVE TypeOK'
  BY <1>10, SamePuts DEF Damage, TypeOK
<1>11. CASE Crash
  BY <1>11, SamePuts DEF Crash, TypeOK
<1>12. CASE Collect \/ RecoverPgStands \/ RecoverNeedsReview \/ Serve
  <2>1. CASE Collect
    BY <2>1, SamePuts DEF Collect, TypeOK
  <2>2. CASE RecoverPgStands \/ RecoverNeedsReview
    BY <2>2, SamePuts DEF RecoverPgStands, RecoverNeedsReview, TypeOK
  <2>3. CASE Serve
    BY <2>3, SamePuts DEF Serve, TypeOK
  <2> QED BY <1>12, <2>1, <2>2, <2>3
<1>13. ASSUME NEW t \in Threads, RecoverReadPg(t) PROVE TypeOK'
  <2>1. PgGet(t) \in Puts \cup {0}
    BY PgOwned
  <2>2. rec' \in [at : {"redis", "key", "pointer"}, thread : Threads, pg : Puts \cup {0}, pgFailed : BOOLEAN]
    <3>1. \E p \in Puts \cup {0}, b \in BOOLEAN :
             rec' = [at |-> "redis", thread |-> t, pg |-> p, pgFailed |-> b]
      BY <1>13, <2>1 DEF RecoverReadPg
    <3> QED BY <3>1
  <2>3. /\ todo' \subseteq Threads /\ smooth' \in BOOLEAN
        /\ UNCHANGED <<owner, near, keys, latest, damaged, buffer, rows, live, puts, dels, dropped,
                       phase, redisUp, hot, void, replayed, blind>>
    BY <1>13 DEF RecoverReadPg, TypeOK
  <2> QED BY <2>2, <2>3, SamePuts DEF TypeOK
<1>14. CASE RecoverReplay
  <2>1. RedisGet(rec.thread) \in Puts
    BY <1>14, RecOwned DEF RecoverReplay, RedisAhead, RedisGet, TypeOK, Idle
  <2> QED BY <1>14, <2>1, SamePuts DEF RecoverReplay, Store!Insert, TypeOK
<1>15. CASE RecoverConflict
  BY <1>15, RecOwned, SamePuts DEF RecoverConflict, TypeOK, Idle
<1>16. CASE RewriteKey \/ RewritePointer \/ RewriteFails
  <2>1. rec # Idle /\ rec.at \in {"key", "pointer"}
    BY <1>16 DEF RewriteKey, RewritePointer, RewriteFails, Idle
  <2>2. rec.pg \in Puts /\ owner[rec.pg] = rec.thread /\ rec.thread \in Threads
    BY <2>1, RecOwned DEF RecInv, Of, Store!Of
  <2>3. CASE RewriteKey
    BY <2>1, <2>2, <2>3, SamePuts DEF RewriteKey, TypeOK
  <2>4. CASE RewritePointer
    BY <2>1, <2>2, <2>4, SamePuts DEF RewritePointer, TypeOK
  <2>5. CASE RewriteFails
    BY <2>1, <2>2, <2>5, SamePuts DEF RewriteFails, TypeOK
  <2> QED BY <1>16, <2>3, <2>4, <2>5
<1>17. CASE UNCHANGED vars
  BY <1>17, SamePuts DEF vars, TypeOK
<1> QED
  BY <1>1, <1>2, <1>3, <1>4, <1>5, <1>6, <1>7, <1>8, <1>9, <1>10, <1>11, <1>12, <1>13, <1>14, <1>15,
     <1>16, <1>17 DEF Next

-----------------------------------------------------------------------------
(* The buffer, under every step.                                           *)

(* The steps of Redis, of recovery and of the process that leave the store alone. *)
StoreUntouched ==
  \/ \E t \in Threads : \/ PutKey(t) \/ PutPointer(t) \/ PutRedisFails(t) \/ PutCancelled(t)
                        \/ BeginDelete(t) \/ DeleteKey(t) \/ ScanEnds(t) \/ DeleteRowsFails(t)
                        \/ Expire(t) \/ RecoverReadPg(t)
  \/ \E i \in keys : Damage(i)
  \/ Collect \/ RecoverPgStands \/ RecoverNeedsReview \/ RecoverConflict
  \/ RewriteKey \/ RewritePointer \/ RewriteFails \/ Serve
  \/ UNCHANGED vars

(* They change nothing that the store is made of. *)
LEMMA StoreKept == StoreUntouched => UNCHANGED <<owner, buffer, rows, live, dropped, replayed, blind>>
<1> USE DEF redisVars, pgVars, boundVars, recVars, replayVars, PutUnchanged, DelUnchanged, Still, RecUnchanged
<1>1. ASSUME NEW t \in Threads, PutKey(t) \/ PutPointer(t) \/ PutRedisFails(t) \/ PutCancelled(t)
      PROVE  UNCHANGED <<owner, buffer, rows, live, dropped, replayed, blind>>
  BY <1>1 DEF PutKey, PutPointer, PutRedisFails, PutCancelled
<1>2. ASSUME NEW t \in Threads, BeginDelete(t) \/ DeleteKey(t) \/ ScanEnds(t) \/ DeleteRowsFails(t)
      PROVE  UNCHANGED <<owner, buffer, rows, live, dropped, replayed, blind>>
  BY <1>2 DEF BeginDelete, DeleteKey, ScanEnds, DeleteRowsFails
<1>3. ASSUME NEW t \in Threads, Expire(t) \/ RecoverReadPg(t)
      PROVE  UNCHANGED <<owner, buffer, rows, live, dropped, replayed, blind>>
  BY <1>3 DEF Expire, RecoverReadPg
<1>4. ASSUME NEW i \in keys, Damage(i)
      PROVE  UNCHANGED <<owner, buffer, rows, live, dropped, replayed, blind>>
  BY <1>4 DEF Damage
<1>5. ASSUME Collect \/ RecoverPgStands \/ RecoverNeedsReview \/ RecoverConflict \/ RewriteKey
             \/ RewritePointer \/ RewriteFails \/ Serve \/ UNCHANGED vars
      PROVE  UNCHANGED <<owner, buffer, rows, live, dropped, replayed, blind>>
  BY <1>5 DEF Collect, RecoverPgStands, RecoverNeedsReview, RecoverConflict, RewriteKey,
              RewritePointer, RewriteFails, Serve, vars
<1> QED BY <1>1, <1>2, <1>3, <1>4, <1>5 DEF StoreUntouched

(* The other steps. *)
LEMMA StoreSteps ==
  ASSUME [Next]_vars
  PROVE  \/ StoreUntouched \/ Flush \/ Crash \/ RecoverReplay
         \/ \E t \in Threads : \/ Begin(t) \/ PutBuffer(t) \/ DeletePointer(t)
                               \/ DeleteRedisFails(t) \/ DeleteRows(t)
BY DEF Next, StoreUntouched

(* More rows, of what is in the buffer, do not put it behind. *)
LEMMA BufferKept ==
  ASSUME TypeOK, NEW t, BufferInv(t), owner' = owner, buffer' = buffer, blind \subseteq blind',
         rows' \cup dropped' \subseteq rows \cup dropped \cup buffer
  PROVE  BufferInv(t)'
<1>1. Of(t)' = Of(t)
  BY SameOwner
<1>2. Of(t) \subseteq Int
  BY Numbers
<1>3. \A i \in Of(t) : i <= i
  BY <1>2
<1> QED BY <1>1, <1>3 DEF BufferInv

(* Nor does one that is newer than what there is of its thread. *)
LEMMA BufferTakes ==
  ASSUME TypeOK, NEW t, BufferInv(t), NEW r, owner' = owner, buffer' = buffer \cup {r},
         blind \subseteq blind', rows' \cup dropped' \subseteq rows \cup dropped,
         r \in Of(t) => \/ r \in blind' 
                        \/ \A i \in (rows \cup dropped) \cap Of(t) : i <= r
  PROVE  BufferInv(t)'
<1>1. Of(t)' = Of(t)
  BY SameOwner
<1>2. CASE r \notin Of(t)
  BY <1>1, <1>2 DEF BufferInv
<1>3. CASE r \in Of(t)
  BY <1>1, <1>3 DEF BufferInv
<1> QED BY <1>2, <1>3

(* What Redis is ahead with is newer than what was read from PostgreSQL. *)
LEMMA AheadIsNewer ==
  ASSUME TypeOK, NEW r \in Puts, NEW p \in Int, Newer(r, p)
  PROVE  p < r
BY Numbers DEF Newer

(* The buffer's newest stays the newest of its thread. *)
LEMMA BufferStep == LayersInv /\ [Next]_vars => \A t \in Threads : BufferInv(t)'
<1> SUFFICES ASSUME LayersInv, [Next]_vars, NEW u \in Threads PROVE BufferInv(u)'
  OBVIOUS
<1>0. /\ TypeOK /\ BufferInv(u) /\ PhaseInv
      /\ \A t : Of(t) \subseteq Int
  BY Numbers DEF LayersInv
<1> USE <1>0
<1>1. CASE StoreUntouched
  BY <1>1, StoreKept, BufferKept
<1>2. ASSUME NEW t \in Threads, Begin(t) PROVE BufferInv(u)'
  <2>1. UNCHANGED <<buffer, rows, dropped, blind>> /\ owner' = Append(owner, t)
    BY <1>2 DEF Begin, PutUnchanged, pgVars, replayVars
  <2>2. \A S \in SUBSET Puts : S \cap Of(u)' = S \cap Of(u)
    BY <2>1, Made
  <2>3. buffer \in SUBSET Puts /\ rows \cup dropped \in SUBSET Puts /\ blind \in SUBSET Puts
    BY DEF TypeOK
  <2> QED BY <2>1, <2>2, <2>3 DEF BufferInv
<1>3. ASSUME NEW t \in Threads, PutBuffer(t) PROVE BufferInv(u)'
  <2>1. /\ owner' = owner /\ buffer' = buffer \cup {Current(t)} /\ UNCHANGED <<rows, dropped, blind>>
        /\ Of(t) # {}
    BY <1>3 DEF PutBuffer, PutUnchanged, replayVars, Store!Insert, LayersInv, PutInv
  <2>2. Current(t) \in Of(t) /\ \A i \in Of(t) : i <= Current(t)
    BY <2>1, CurrentIs
  <2>3. Current(t) \in Of(u) => u = t
    BY <2>2 DEF Of, Store!Of
  <2> QED BY <2>1, <2>2, <2>3, BufferTakes
<1>4. ASSUME NEW t \in Threads, DeletePointer(t) \/ DeleteRedisFails(t) PROVE BufferInv(u)'
  <2>1. /\ buffer' = buffer \ Of(t) /\ owner' = owner /\ rows' = rows /\ blind' = blind
        /\ dropped' = dropped \cup (buffer \cap Of(t))
    BY <1>4 DEF DeletePointer, DeleteRedisFails, DropBuffer, Store!Drop, Of, DelUnchanged, replayVars
  <2>2. Of(u)' = Of(u)
    BY <2>1, SameOwner
  <2>3. u # t => Of(u) \cap Of(t) = {}
    BY DEF Of, Store!Of
  <2>4. CASE u # t
    <3>1. buffer' \cap Of(u) = buffer \cap Of(u) /\ dropped' \cap Of(u) = dropped \cap Of(u)
      BY <2>1, <2>3, <2>4
    <3> QED BY <2>1, <2>2, <3>1 DEF BufferInv
  <2>5. CASE u = t
    BY <2>1, <2>2, <2>5 DEF BufferInv
  <2> QED BY <2>4, <2>5
<1>5. ASSUME NEW t \in Threads, DeleteRows(t) PROVE BufferInv(u)'
  BY <1>5, BufferKept DEF DeleteRows, Store!DropRows, DelUnchanged, replayVars
<1>6. CASE Flush
  <2>1. owner' = owner /\ dropped' = dropped /\ blind' = blind
    BY <1>6 DEF Flush, Still, replayVars
  <2>2. ASSUME NEW S \in SUBSET (buffer \cup dropped), Store!Persist(S) PROVE BufferInv(u)'
    BY <2>1, <2>2, BufferKept DEF Store!Persist
  <2>3. ASSUME NEW S \in SUBSET buffer, Store!Clean(S) PROVE BufferInv(u)'
    <3>1. /\ buffer' = buffer \ S /\ rows' = rows
          /\ \A i \in S, j \in buffer \ S : owner[i] = owner[j] => i < j
      BY <2>3 DEF Store!Clean
    <3>2. Of(u)' = Of(u)
      BY <2>1, SameOwner
    <3>3. ASSUME NEW j \in buffer \cap Of(u), NEW k \in buffer' \cap Of(u)
          PROVE  \E l \in buffer' \cap Of(u) : j <= l
      <4>1. owner[j] = owner[k] /\ j \in Int /\ k \in Int
        BY <3>1, <3>3 DEF Of, Store!Of
      <4>2. CASE j \in S
        BY <3>1, <3>3, <4>1, <4>2
      <4>3. CASE j \notin S
        BY <3>1, <3>3, <4>1, <4>3
      <4> QED BY <4>2, <4>3
    <3>4. SUFFICES ASSUME blind \cap Of(u) = {}, buffer' \cap Of(u) # {}, NEW i \in (rows \cup dropped) \cap Of(u)
                   PROVE  \E l \in buffer' \cap Of(u) : i <= l
      BY <2>1, <3>1, <3>2 DEF BufferInv
    <3>5. PICK j \in buffer \cap Of(u) : i <= j
      BY <3>1, <3>4 DEF BufferInv
    <3>6. PICK l \in buffer' \cap Of(u) : j <= l
      BY <3>3, <3>4
    <3>7. i \in Int /\ j \in Int /\ l \in Int
      OBVIOUS
    <3> QED BY <3>5, <3>6, <3>7
  <2> QED BY <1>6, <2>2, <2>3 DEF Flush
<1>7. CASE Crash
  BY <1>7 DEF Crash, BufferInv
<1>8. CASE RecoverReplay
  <2> DEFINE r == RedisGet(rec.thread)
  <2>1. /\ rec # Idle /\ RedisAhead(r) /\ owner' = owner /\ buffer' = buffer \cup {r}
        /\ UNCHANGED <<rows, dropped>> /\ blind' = IF rec.pgFailed THEN blind \cup {r} ELSE blind
    BY <1>8 DEF RecoverReplay, Idle, Store!Insert
  <2>2. /\ rec.thread \in Threads /\ rec.pg \in Puts \cup {0}
        /\ rec.pg # 0 => rec.pg \in rows \cap Of(rec.thread) /\ \A j \in rows \cap Of(rec.thread) : j <= rec.pg
    BY <2>1, RecOwned
  <2>3. r \in Puts /\ owner[r] = rec.thread
    BY <2>1, <2>2 DEF RedisAhead, RedisGet, TypeOK
  <2>4. r \in Of(u) => u = rec.thread
    BY <2>3 DEF Of, Store!Of
  <2>5. dropped = {}
    BY <2>1 DEF PhaseInv
  <2>6. ASSUME ~ rec.pgFailed, NEW i \in rows \cap Of(rec.thread) PROVE i <= r
    <3>1. rec.pg = Newest(rows \cap Of(rec.thread))
      BY <2>1, <2>6 DEF LayersInv, RecInv
    <3>2. rec.pg \in rows \cap Of(rec.thread) /\ i <= rec.pg
      <4>1. Len(owner) \in Nat /\ rows \cap Of(rec.thread) \in SUBSET (1..Len(owner))
        BY Numbers
      <4> QED BY <2>6, <3>1, <4>1, NewestIs
    <3>3. rec.pg # 0 /\ rec.pg \in Int /\ i \in Int /\ r \in Int
      BY <2>3, <3>2, Numbers
    <3>4. rec.pg < r
      BY <2>1, <2>3, <3>3, AheadIsNewer DEF RedisAhead
    <3> QED BY <3>2, <3>3, <3>4
  <2> HIDE DEF r
  <2>7. r \in Of(u) => r \in blind' \/ \A i \in (rows \cup dropped) \cap Of(u) : i <= r
    BY <2>1, <2>4, <2>5, <2>6
  <2> QED BY <2>1, <2>7, BufferTakes
<1> QED BY <1>1, <1>2, <1>3, <1>4, <1>5, <1>6, <1>7, <1>8, StoreSteps

-----------------------------------------------------------------------------
(* The puts and deletes under way, under every step.                       *)

(* A put stays of the newest, and a thread under deletion void. *)
LEMMA PutStep == LayersInv /\ [Next]_vars => \A t \in Threads : PutInv(t)'
<1> SUFFICES ASSUME LayersInv, [Next]_vars, NEW u \in Threads PROVE PutInv(u)'
  OBVIOUS
<1>0. TypeOK /\ PutInv(u) /\ \A t : t # u => Of(t) \cap Of(u) = {}
  BY DEF LayersInv, Of, Store!Of
<1> USE <1>0
<1> USE DEF redisVars, pgVars, boundVars, recVars, replayVars, PutUnchanged, DelUnchanged, Still, RecUnchanged
<1>1. ASSUME owner' = owner, puts'[u] \in {puts[u], "idle"} \/ (puts[u] # "idle" /\ puts'[u] = "pg"),
             dels'[u] \in {dels[u], "idle"} \/ dels[u] # "idle",
             void' = void, keys \cap Of(u) \subseteq keys'
      PROVE  PutInv(u)'
  <2>1. Of(u)' = Of(u) /\ Current(u)' = Current(u)
    BY <1>1, SameOwner
  <2>2. Of(u) # {} => Current(u) \in Of(u)
    BY CurrentIs
  <2>3. puts'[u] = "pointer" => Current(u) \in keys' \/ Of(u) \subseteq void
    BY <1>1, <2>2 DEF PutInv
  <2>4. (puts'[u] # "idle" => Of(u) # {}) /\ (dels'[u] # "idle" => Of(u) \subseteq void)
    BY <1>1 DEF PutInv
  <2> QED BY <1>1, <2>1, <2>3, <2>4 DEF PutInv
<1>2. ASSUME NEW t \in Threads, Begin(t) PROVE PutInv(u)'
  <2>1. /\ owner' = Append(owner, t) /\ keys' = keys /\ puts' = [puts EXCEPT ![t] = "key"] /\ dels' = dels
        /\ void' = IF dels[t] = "idle" THEN void ELSE void \cup {Len(owner) + 1}
    BY <1>2 DEF Begin
  <2>2. CASE t = u
    <3>1. Of(u)' = Of(u) \cup {Len(owner) + 1} /\ Current(u)' = Len(owner) + 1 /\ Len(owner) + 1 \notin void
      BY <2>1, <2>2, Made DEF TypeOK
    <3> QED BY <2>1, <2>2, <3>1 DEF PutInv, TypeOK
  <2>3. CASE t # u
    <3>1. Of(u)' = Of(u) /\ Current(u)' = Current(u)
      BY <2>1, <2>3, Made DEF Current, Newest
    <3>2. Of(u) # {} => Current(u) \in Puts
      BY CurrentIs, Numbers
    <3>3. Len(owner) + 1 \notin Puts
      BY <2>1, Made
    <3> QED BY <2>1, <2>3, <3>1, <3>2, <3>3 DEF PutInv, TypeOK
  <2> QED BY <2>2, <2>3
<1>3. ASSUME NEW t \in Threads, PutKey(t) PROVE PutInv(u)'
  <2>1. /\ owner' = owner /\ dels' = dels /\ void' = void /\ keys' = keys \cup {Current(t)}
        /\ puts[t] = "key" /\ puts' = [puts EXCEPT ![t] = "pointer"]
    BY <1>3 DEF PutKey
  <2>2. Of(u)' = Of(u) /\ Current(u)' = Current(u)
    BY <2>1, SameOwner
  <2> QED BY <2>1, <2>2 DEF PutInv, TypeOK
<1>4. ASSUME NEW t \in Threads, PutPointer(t) \/ PutBuffer(t) PROVE PutInv(u)'
  <2>1. /\ owner' = owner /\ dels' = dels /\ void' = void /\ keys' = keys
        /\ puts'[u] \in {puts[u], "idle"} \/ (puts[u] # "idle" /\ puts'[u] = "pg")
    BY <1>4 DEF PutPointer, PutBuffer, Store!Insert, TypeOK
  <2> QED BY <1>1, <2>1
<1>5. ASSUME NEW t \in Threads, PutRedisFails(t) \/ PutCancelled(t) PROVE PutInv(u)'
  <2>1. /\ owner' = owner /\ dels' = dels /\ void' = void /\ keys \subseteq keys'
        /\ puts'[u] \in {puts[u], "idle"} \/ (puts[u] # "idle" /\ puts'[u] = "pg")
    BY <1>5 DEF PutRedisFails, PutCancelled, MaybeApplied, TypeOK
  <2> QED BY <1>1, <2>1
<1>6. ASSUME NEW t \in Threads, BeginDelete(t) PROVE PutInv(u)'
  <2>1. /\ owner' = owner /\ puts' = puts /\ keys' = keys /\ void' = void \cup Of(t)
        /\ dels' = [dels EXCEPT ![t] = "keys"]
    BY <1>6 DEF BeginDelete
  <2>2. Of(u)' = Of(u) /\ Current(u)' = Current(u)
    BY <2>1, SameOwner
  <2>3. Of(u) # {} => Current(u) \in Of(u)
    BY CurrentIs
  <2>4. CASE t = u
    BY <2>1, <2>2, <2>4 DEF PutInv
  <2>5. CASE t # u
    <3>1. dels'[u] = dels[u] /\ (Of(u) # {} => Current(u) \notin Of(t))
      BY <2>1, <2>3, <2>5 DEF TypeOK
    <3> QED BY <2>1, <2>2, <3>1 DEF PutInv
  <2> QED BY <2>4, <2>5
<1>7. ASSUME NEW t \in Threads, DeleteKey(t) PROVE PutInv(u)'
  <2>1. /\ owner' = owner /\ puts' = puts /\ dels' = dels /\ void' = void
        /\ dels[t] = "keys" /\ keys \ Of(t) \subseteq keys'
    BY <1>7 DEF DeleteKey
  <2>2. Of(u)' = Of(u) /\ Current(u)' = Current(u)
    BY <2>1, SameOwner
  <2>3. CASE t = u
    BY <2>1, <2>2, <2>3 DEF PutInv
  <2>4. CASE t # u
    BY <1>1, <2>1, <2>4
  <2> QED BY <2>3, <2>4
<1>8. ASSUME NEW t \in Threads, ScanEnds(t) \/ DeletePointer(t) \/ DeleteRedisFails(t) \/ DeleteRows(t) \/ DeleteRowsFails(t)
      PROVE  PutInv(u)'
  <2>1. /\ owner' = owner /\ puts' = puts /\ keys' = keys /\ void' = void
        /\ dels[t] # "idle" /\ \E x : dels' = [dels EXCEPT ![t] = x]
    BY <1>8 DEF ScanEnds, DeletePointer, DeleteRedisFails, DeleteRows, DeleteRowsFails, DropBuffer, Store!Drop, Store!DropRows
  <2>2. dels'[u] \in {dels[u], "idle"} \/ dels[u] # "idle"
    BY <2>1 DEF TypeOK
  <2> QED BY <1>1, <2>1, <2>2
<1>9. ASSUME NEW t \in Threads, Expire(t) PROVE PutInv(u)'
  <2>1. /\ owner' = owner /\ puts' = puts /\ dels' = dels /\ void' = void
        /\ puts[t] = "idle" /\ keys \ Of(t) \subseteq keys'
    BY <1>9 DEF Expire
  <2>2. Of(u)' = Of(u) /\ Current(u)' = Current(u)
    BY <2>1, SameOwner
  <2>3. CASE t = u
    BY <2>1, <2>2, <2>3 DEF PutInv
  <2>4. CASE t # u
    BY <1>1, <2>1, <2>4
  <2> QED BY <2>3, <2>4
<1>10. CASE Crash
  BY <1>1, <1>10 DEF Crash
<1>11. CASE \/ Flush \/ Collect \/ RecoverPgStands \/ RecoverNeedsReview \/ RecoverReplay \/ RecoverConflict
            \/ RewriteKey \/ RewritePointer \/ RewriteFails \/ Serve \/ UNCHANGED vars
            \/ (\E t \in Threads : RecoverReadPg(t)) \/ (\E i \in keys : Damage(i))
  <2>1. /\ owner' = owner /\ puts' = puts /\ dels' = dels /\ void' = void
        /\ keys \subseteq keys'
    <3>1. CASE \/ Flush \/ Collect \/ RecoverPgStands \/ RecoverNeedsReview \/ RecoverReplay \/ RecoverConflict
               \/ RewriteKey \/ RewritePointer \/ RewriteFails \/ Serve \/ UNCHANGED vars
      BY <3>1 DEF Flush, Collect, RecoverPgStands, RecoverNeedsReview, RecoverReplay, RecoverConflict,
                  RewriteKey, RewritePointer, RewriteFails, Serve, vars, Store!Insert
    <3>2. CASE (\E t \in Threads : RecoverReadPg(t)) \/ (\E i \in keys : Damage(i))
      BY <3>2 DEF RecoverReadPg, Damage
    <3> QED BY <1>11, <3>1, <3>2
  <2> QED BY <1>1, <2>1
<1> QED BY <1>2, <1>3, <1>4, <1>5, <1>6, <1>7, <1>8, <1>9, <1>10, <1>11 DEF Next

-----------------------------------------------------------------------------
(* The phases of the process, under every step.                            *)

(* Nothing is under way for a client before the process serves. *)
LEMMA PhaseStep == LayersInv /\ [Next]_vars => PhaseInv'
<1> SUFFICES ASSUME LayersInv, [Next]_vars PROVE PhaseInv'
  OBVIOUS
<1>0. TypeOK /\ PhaseInv
  BY DEF LayersInv
<1> USE <1>0
<1> USE DEF redisVars, pgVars, boundVars, recVars, replayVars, PutUnchanged, DelUnchanged, Still, RecUnchanged
<1>1. ASSUME phase = "up", UNCHANGED <<phase, rec, todo>> PROVE PhaseInv'
  BY <1>1 DEF PhaseInv
<1>2. ASSUME NEW t \in Threads, \/ Begin(t) \/ PutKey(t) \/ PutPointer(t) \/ PutRedisFails(t) \/ PutBuffer(t)
                                \/ PutCancelled(t)
      PROVE  PhaseInv'
  <2>1. phase = "up"
    BY <1>2 DEF Begin, PutKey, PutPointer, PutRedisFails, PutBuffer, PutCancelled, PhaseInv
  <2>2. UNCHANGED <<phase, rec, todo>>
    BY <1>2 DEF Begin, PutKey, PutPointer, PutRedisFails, PutBuffer, PutCancelled
  <2> QED BY <1>1, <2>1, <2>2
<1>3. ASSUME NEW t \in Threads, \/ BeginDelete(t) \/ DeleteKey(t) \/ ScanEnds(t) \/ DeletePointer(t)
                                \/ DeleteRedisFails(t) \/ DeleteRows(t) \/ DeleteRowsFails(t)
      PROVE  PhaseInv'
  <2>1. phase = "up"
    BY <1>3 DEF BeginDelete, DeleteKey, ScanEnds, DeletePointer, DeleteRedisFails, DeleteRows, DeleteRowsFails, PhaseInv
  <2>2. UNCHANGED <<phase, rec, todo>>
    BY <1>3 DEF BeginDelete, DeleteKey, ScanEnds, DeletePointer, DeleteRedisFails, DeleteRows, DeleteRowsFails
  <2> QED BY <1>1, <2>1, <2>2
<1>4. ASSUME UNCHANGED <<owner, phase, puts, dels, dropped, rec, todo>>, buffer' \subseteq buffer, live' = live,
             blind' = blind
      PROVE  PhaseInv'
  <2>1. \A t : Of(t)' = Of(t)
    BY <1>4, SameOwner
  <2> QED BY <1>4, <2>1 DEF PhaseInv
<1>5. CASE Flush
  BY <1>4, <1>5 DEF Flush, Store!Persist, Store!Clean
<1>6. CASE (\E t \in Threads : Expire(t)) \/ (\E i \in keys : Damage(i)) \/ UNCHANGED vars
  BY <1>4, <1>6 DEF Expire, Damage, vars
<1>7. CASE Crash
  BY <1>7 DEF Crash, PhaseInv
<1>8. CASE Collect
  BY <1>8 DEF Collect, PhaseInv
<1>9. ASSUME UNCHANGED <<owner, puts, dels, dropped, buffer, live, blind, phase>>, phase = "recovering",
             todo' \subseteq todo
      PROVE  PhaseInv'
  <2>1. \A t : Of(t)' = Of(t)
    BY <1>9, SameOwner
  <2> QED BY <1>9, <2>1 DEF PhaseInv
<1>10. ASSUME NEW t \in Threads, RecoverReadPg(t) PROVE PhaseInv'
  BY <1>9, <1>10 DEF RecoverReadPg
<1>11. CASE RecoverPgStands \/ RecoverNeedsReview \/ RecoverConflict \/ RewriteKey \/ RewritePointer \/ RewriteFails
  <2>1. rec # Idle
    BY <1>11 DEF RecoverPgStands, RecoverNeedsReview, RecoverConflict, RewriteKey, RewritePointer, RewriteFails, Idle
  <2>2. phase = "recovering"
    BY <2>1 DEF PhaseInv
  <2>3. UNCHANGED <<owner, puts, dels, dropped, buffer, live, blind, phase, todo>>
    BY <1>11 DEF RecoverPgStands, RecoverNeedsReview, RecoverConflict, RewriteKey, RewritePointer, RewriteFails
  <2> QED BY <1>9, <2>2, <2>3
<1>12. CASE RecoverReplay
  <2> DEFINE r == RedisGet(rec.thread)
  <2>1. /\ rec # Idle /\ r # 0 /\ UNCHANGED <<owner, puts, dels, dropped, phase, todo>>
        /\ buffer' = buffer \cup {r} /\ live' = live \cup {r}
    BY <1>12 DEF RecoverReplay, RedisAhead, Idle, Store!Insert
  <2>2. phase = "recovering" /\ rec.thread \notin todo
    BY <2>1 DEF PhaseInv, LayersInv, RecInv
  <2>3. owner[r] = rec.thread
    BY <2>1, RecOwned DEF RedisGet, TypeOK
  <2>4. \A t : Of(t)' = Of(t)
    BY <2>1, SameOwner
  <2>5. \A t \in todo : r \notin Of(t)
    BY <2>2, <2>3 DEF Of, Store!Of
  <2> HIDE DEF r
  <2> QED BY <2>1, <2>2, <2>4, <2>5 DEF PhaseInv
<1>13. CASE Serve
  BY <1>13 DEF Serve, PhaseInv
<1> QED BY <1>2, <1>3, <1>5, <1>6, <1>7, <1>8, <1>10, <1>11, <1>12, <1>13 DEF Next

-----------------------------------------------------------------------------
(* Reaching.                                                               *)

(* Without a new checkpoint, what reaches what does not change. *)
LEMMA ReachesKept ==
  ASSUME owner' = owner, near' = near
  PROVE  \A p, i : Reaches(p, i)' <=> Reaches(p, i)
BY SameOwner DEF Reaches

(* What is no newer and no older than what reaches i reaches it too. *)
LEMMA ReachesSame ==
  ASSUME TypeOK, NEW i \in Puts, NEW r \in Of(owner[i]), NEW p \in Of(owner[i]), Reaches(r, i), ~ Newer(r, p)
  PROVE  Reaches(p, i)
<1>1. Of(owner[i]) \subseteq Int /\ i \in Int /\ r \in Int /\ p \in Int /\ p # 0 /\ owner[r] = owner[i]
  BY Numbers DEF Of, Store!Of
<1>2. SUFFICES ASSUME NEW k \in Of(owner[i]), p < k, k <= i PROVE k \in near
  BY <1>1 DEF Reaches
<1>3. CASE k <= r
  BY <1>1, <1>2, <1>3 DEF Newer
<1>4. CASE ~ (k <= r)
  <2>1. r < k
    BY <1>1, <1>4
  <2> QED BY <1>2, <2>1 DEF Reaches
<1> QED BY <1>3, <1>4

(* Of two checkpoints the newer reaches what the older does. *)
LEMMA ReachesUp ==
  ASSUME TypeOK, NEW i \in Puts, NEW r \in Puts \cup {0}, NEW p \in Puts, Reaches(r, i), r <= p
  PROVE  Reaches(p, i)
<1>1. Of(owner[i]) \subseteq Int /\ r \in Int /\ p \in Int /\ p # 0
  BY Numbers
<1> QED BY <1>1 DEF Reaches

(* A checkpoint reaches itself and what is older. *)
LEMMA ReachesOlder ==
  ASSUME TypeOK, NEW i \in Puts, NEW p \in Puts, i <= p
  PROVE  Reaches(p, i)
<1>1. Of(owner[i]) \subseteq Int /\ i \in Int /\ p \in Int /\ p # 0
  BY Numbers
<1> QED BY <1>1 DEF Reaches

-----------------------------------------------------------------------------
(* Recovery of one thread, under every step.                               *)

(* What recover() read stays so until it is done with the thread. *)
LEMMA RecStep == LayersInv /\ HotInv /\ [Next]_vars => RecInv'
<1> SUFFICES ASSUME LayersInv, HotInv, [Next]_vars PROVE RecInv'
  OBVIOUS
<1>0. TypeOK /\ PhaseInv /\ RecInv
  BY DEF LayersInv
<1> USE <1>0
<1> USE DEF redisVars, pgVars, boundVars, recVars, replayVars, PutUnchanged, DelUnchanged, Still, RecUnchanged
<1>1. ASSUME rec' = Idle PROVE RecInv'
  BY <1>1 DEF RecInv
<1>2. ASSUME NEW t \in Threads, \/ Begin(t) \/ PutKey(t) \/ PutPointer(t) \/ PutRedisFails(t) \/ PutBuffer(t)
                                \/ PutCancelled(t)
      PROVE  RecInv'
  <2>1. phase = "up"
    BY <1>2 DEF Begin, PutKey, PutPointer, PutRedisFails, PutBuffer, PutCancelled, PhaseInv
  <2>2. rec' = rec
    BY <1>2 DEF Begin, PutKey, PutPointer, PutRedisFails, PutBuffer, PutCancelled
  <2> QED BY <1>1, <2>1, <2>2 DEF PhaseInv
<1>3. ASSUME NEW t \in Threads, \/ BeginDelete(t) \/ DeleteKey(t) \/ ScanEnds(t) \/ DeletePointer(t)
                                \/ DeleteRedisFails(t) \/ DeleteRows(t) \/ DeleteRowsFails(t)
      PROVE  RecInv'
  <2>1. phase = "up"
    BY <1>3 DEF BeginDelete, DeleteKey, ScanEnds, DeletePointer, DeleteRedisFails, DeleteRows, DeleteRowsFails, PhaseInv
  <2>2. rec' = rec
    BY <1>3 DEF BeginDelete, DeleteKey, ScanEnds, DeletePointer, DeleteRedisFails, DeleteRows, DeleteRowsFails
  <2> QED BY <1>1, <2>1, <2>2 DEF PhaseInv
<1>4. ASSUME rec # Idle, UNCHANGED <<owner, near, todo, rec>>, buffer' \subseteq buffer, 
             rows' \cap Of(rec.thread) = rows \cap Of(rec.thread), hot' \subseteq hot,
             keys \cap Of(rec.thread) \subseteq keys',
             rec.pg \in damaged' => rec.pg \in damaged \/ hot' \cap Of(rec.thread) = {}
      PROVE  RecInv'
  <2>1. \A t : Of(t)' = Of(t)
    BY <1>4, SameOwner
  <2>2. \A p, i : Reaches(p, i)' <=> Reaches(p, i)
    BY <1>4, ReachesKept
  <2>3. PICK q : q = rec
    OBVIOUS
  <2>4. rec.pg # 0 => rec.pg \in Of(rec.thread)
    BY <1>4, RecOwned
  <2>5. buffer' \cap Of(q.thread)' = {} /\ rows' \cap Of(q.thread)' = rows \cap Of(q.thread)
    BY <1>4, <2>1, <2>3 DEF RecInv
  <2>6. q.pg = IF q.pgFailed THEN 0 ELSE Newest(rows \cap Of(q.thread))'
    BY <1>4, <2>3, <2>5 DEF RecInv, Newest, Store!Latest
  <2>7. q.at # "redis" => q.pg # 0 /\ \A i \in hot' \cap Of(q.thread)' : Reaches(q.pg, i)'
    BY <1>4, <2>1, <2>2, <2>3 DEF RecInv
  <2>8. q.at = "pointer" => q.pg \in keys' /\ (q.pg \in damaged' => hot' \cap Of(q.thread)' = {})
    BY <1>4, <2>1, <2>3, <2>4 DEF RecInv
  <2>9. rec' = q /\ q.thread \notin todo'
    BY <1>4, <2>3 DEF RecInv
  <2> QED BY <2>5, <2>6, <2>7, <2>8, <2>9 DEF RecInv
<1>5. CASE rec = Idle /\ rec' = rec
  BY <1>1, <1>5
<1>6. ASSUME rec # Idle PROVE phase = "recovering" /\ dropped = {} /\ buffer \cap Of(rec.thread) = {}
  BY <1>6 DEF PhaseInv, RecInv
<1>7. ASSUME Flush, rec # Idle PROVE RecInv'
  <2>1. UNCHANGED <<owner, near, todo, rec, keys, damaged, hot>>
    BY <1>7 DEF Flush
  <2>2. ASSUME NEW S \in SUBSET (buffer \cup dropped), Store!Persist(S) PROVE RecInv'
    <3>1. buffer' = buffer /\ rows' \cap Of(rec.thread) = rows \cap Of(rec.thread)
      BY <1>6, <1>7, <2>2 DEF Store!Persist
    <3> QED BY <1>4, <1>7, <2>1, <3>1
  <2>3. ASSUME NEW S \in SUBSET buffer, Store!Clean(S) PROVE RecInv'
    <3>1. buffer' \subseteq buffer /\ rows' = rows
      BY <2>3 DEF Store!Clean
    <3> QED BY <1>4, <1>7, <2>1, <3>1
  <2> QED BY <1>7, <2>2, <2>3 DEF Flush
<1>8. ASSUME NEW t \in Threads, Expire(t), rec # Idle PROVE RecInv'
  <2>1. /\ UNCHANGED <<owner, near, todo, rec, buffer, rows>> /\ hot' \subseteq hot /\ damaged' \subseteq damaged
        /\ keys \ Of(t) \subseteq keys' /\ rec.thread # t
    BY <1>8 DEF Expire
  <2>2. Of(t) \cap Of(rec.thread) = {}
    BY <2>1 DEF Of, Store!Of
  <2> QED BY <1>4, <1>8, <2>1, <2>2
<1>9. ASSUME NEW i \in keys, Damage(i), rec # Idle PROVE RecInv'
  <2>1. /\ UNCHANGED <<owner, near, todo, rec, buffer, rows, keys>> /\ hot' = hot \ Of(owner[i])
        /\ damaged' = damaged \cup {i}
    BY <1>9 DEF Damage
  <2>2. i \in Puts /\ (i = rec.pg => owner[i] = rec.thread)
    BY <1>9, RecOwned, Numbers DEF Of, Store!Of, TypeOK
  <2>3. rec.pg \in damaged' => rec.pg \in damaged \/ hot' \cap Of(rec.thread) = {}
    BY <2>1, <2>2
  <2> QED BY <1>4, <1>9, <2>1, <2>3
<1>10. CASE UNCHANGED vars
  <2>1. CASE rec # Idle
    BY <1>4, <1>10, <2>1 DEF vars
  <2>2. rec' = rec
    BY <1>10 DEF vars
  <2> QED BY <1>5, <2>1, <2>2
<1>11. CASE Crash \/ RecoverPgStands \/ RecoverNeedsReview \/ RecoverReplay \/ RewritePointer \/ RewriteFails
  BY <1>1, <1>11 DEF Crash, RecoverPgStands, RecoverNeedsReview, RecoverReplay, RewritePointer, RewriteFails
<1>12. CASE Collect \/ Serve
  BY <1>5, <1>12 DEF Collect, Serve, PhaseInv
<1>13. ASSUME NEW t \in Threads, RecoverReadPg(t) PROVE RecInv'
  <2>1. /\ UNCHANGED <<owner, near, buffer, rows, keys, damaged, hot>> /\ t \in todo /\ todo' = todo \ {t}
    BY <1>13 DEF RecoverReadPg
  <2>2. PICK p, b : /\ rec' = [at |-> "redis", thread |-> t, pg |-> p, pgFailed |-> b]
                    /\ p = IF b THEN 0 ELSE PgGet(t)
    BY <1>13 DEF RecoverReadPg
  <2>3. Of(t)' = Of(t)
    BY <2>1, SameOwner
  <2>4. buffer \cap Of(t) = {} /\ PgGet(t) = Newest(rows \cap Of(t))
    BY <2>1, PgOwned DEF PhaseInv
  <2>5. Newest(rows \cap Of(t))' = Newest(rows \cap Of(t))
    BY <2>1, <2>3 DEF Newest, Store!Latest
  <2> QED BY <2>1, <2>2, <2>3, <2>4, <2>5 DEF RecInv
<1>14. ASSUME RecoverConflict \/ RewriteKey
       PROVE  /\ rec # Idle /\ UNCHANGED <<owner, near, todo, buffer, rows, hot>>
              /\ \A t : Of(t)' = Of(t)
              /\ \A p, i : Reaches(p, i)' <=> Reaches(p, i)
              /\ \A t : Newest(rows \cap Of(t))' = Newest(rows \cap Of(t))
  <2>1. UNCHANGED <<owner, near, todo, buffer, rows, hot>> /\ rec # Idle
    BY <1>14 DEF RecoverConflict, RewriteKey, Idle
  <2>2. \A t : Of(t)' = Of(t)
    BY <2>1, SameOwner
  <2>3. ASSUME NEW t PROVE Newest(rows \cap Of(t))' = Newest(rows \cap Of(t))
    <3>1. rows' = rows /\ Of(t)' = Of(t)
      BY <2>1, <2>2
    <3> QED BY <3>1 DEF Newest, Store!Latest
  <2> QED BY <2>1, <2>2, <2>3, ReachesKept
<1>15. CASE RecoverConflict
  <2>1. /\ rec.pg # 0 /\ RedisGet(rec.thread) # 0 /\ rec' = [rec EXCEPT !.at = "key"]
        /\ SameInstant(RedisGet(rec.thread), rec.pg) \/ RedisGet(rec.thread) \in damaged
    BY <1>15 DEF RecoverConflict
  <2>2. rec.thread \in Threads /\ rec.pg \in Of(rec.thread)
    BY <1>14, <1>15, <2>1, RecOwned
  <2>3. RedisGet(rec.thread) = latest[rec.thread] /\ latest[rec.thread] \in Of(rec.thread)
    <3>1. RedisGet(rec.thread) = latest[rec.thread] /\ latest[rec.thread] # 0
      BY <2>1 DEF RedisGet
    <3>2. latest[rec.thread] \in Puts /\ owner[latest[rec.thread]] = rec.thread
      BY <2>2, <3>1 DEF TypeOK
    <3> QED BY <3>1, <3>2 DEF Of, Puts, Store!Of
  <2>4. ASSUME NEW i \in hot \cap Of(rec.thread) PROVE Reaches(rec.pg, i)
    <3>1. owner[i] = rec.thread /\ i \in Puts
      BY DEF Of, Store!Of, TypeOK
    <3>2. Reaches(latest[rec.thread], i) /\ latest[rec.thread] \notin damaged
      BY <2>2, <3>1 DEF HotInv, HotThread
    <3>3. ~ Newer(latest[rec.thread], rec.pg)
      BY <2>1, <2>3, <3>2 DEF SameInstant
    <3> QED BY <2>2, <2>3, <3>1, <3>2, <3>3, ReachesSame
  <2>5. rec' = [at |-> "key", thread |-> rec.thread, pg |-> rec.pg, pgFailed |-> rec.pgFailed]
    BY <1>14, <1>15, <2>1, RecOwned
  <2>6. PICK t, p, b : t = rec.thread /\ p = rec.pg /\ b = rec.pgFailed
    OBVIOUS
  <2>7. /\ t \notin todo /\ buffer \cap Of(t) = {} /\ p = IF b THEN 0 ELSE Newest(rows \cap Of(t))
    BY <1>14, <1>15, <2>6 DEF RecInv
  <2> QED BY <1>14, <1>15, <2>1, <2>4, <2>5, <2>6, <2>7 DEF RecInv
<1>16. CASE RewriteKey
  <2>1. /\ rec.at = "key" /\ rec' = [rec EXCEPT !.at = "pointer"]
        /\ keys' = keys \cup {rec.pg} /\ damaged' = damaged \ {rec.pg}
    BY <1>16 DEF RewriteKey
  <2>5. rec' = [at |-> "pointer", thread |-> rec.thread, pg |-> rec.pg, pgFailed |-> rec.pgFailed]
    BY <1>14, <1>16, <2>1, RecOwned
  <2>6. PICK t, p, b : t = rec.thread /\ p = rec.pg /\ b = rec.pgFailed
    OBVIOUS
  <2>7. /\ t \notin todo /\ buffer \cap Of(t) = {} /\ p = IF b THEN 0 ELSE Newest(rows \cap Of(t))
        /\ p # 0 /\ \A i \in hot \cap Of(t) : Reaches(p, i)
    BY <1>14, <1>16, <2>1, <2>6 DEF RecInv
  <2> QED BY <1>14, <1>16, <2>1, <2>5, <2>6, <2>7 DEF RecInv
<1>17. CASE rec # Idle
  BY <1>2, <1>3, <1>7, <1>8, <1>9, <1>10, <1>11, <1>12, <1>13, <1>15, <1>16, <1>17 DEF Next
<1>18. CASE rec = Idle /\ ~ (\E t \in Threads : RecoverReadPg(t))
  <2>1. CASE (\E t \in Threads : Expire(t)) \/ (\E i \in keys : Damage(i)) \/ Flush
    <3>1. rec' = rec
      BY <2>1 DEF Expire, Damage, Flush
    <3> QED BY <1>5, <1>18, <3>1
  <2> QED BY <1>2, <1>3, <1>10, <1>11, <1>12, <1>15, <1>16, <1>18, <2>1 DEF Next
<1> QED BY <1>13, <1>17, <1>18

-----------------------------------------------------------------------------
(* What Redis accepted, under every step.                                  *)

(* A step that keeps the pointer of a thread, and the key it names, and what
   PostgreSQL has. *)
LEMMA HotKept ==
  ASSUME TypeOK, NEW u \in Threads, HotThread(u), owner' = owner, near' = near, latest'[u] = latest[u],
         hot' \cap Of(u) \subseteq hot,
         hot' \cap Of(u) # {} =>
           /\ hot' \cap Of(u) \subseteq keys' \ void' /\ damaged' \cap Of(u) \subseteq damaged
           /\ Behind(u) => \E i \in hot' \cap Of(u) : latest[u] < i
           /\ ~ Behind(u) => latest[u] \in keys'
           /\ \A i \in hot' \cap Of(u) : PgReaches(u, i) => PgReaches(u, i)'
  PROVE  HotThread(u)'
<1>1. Of(u)' = Of(u) /\ \A p, i : Reaches(p, i)' <=> Reaches(p, i)
  BY SameOwner, ReachesKept
<1>2. SUFFICES ASSUME NEW i \in hot' \cap Of(u)
               PROVE  /\ i \in keys' /\ i \notin void'
                      /\ \A d \in damaged' \cap Of(u) : d < i
                      /\ Reaches(latest[u], i) /\ latest[u] \notin damaged'
                      /\ IF Behind(u)' THEN PgReaches(u, i)' ELSE latest[u] \in keys'
  BY <1>1 DEF HotThread
<1>3. Behind(u)' <=> Behind(u)
  BY <1>1, <1>2 DEF Behind
<1>4. /\ Reaches(latest[u], i) /\ latest[u] \notin damaged
      /\ \A d \in damaged \cap Of(u) : d < i
      /\ IF Behind(u) THEN PgReaches(u, i) ELSE latest[u] \in keys
  BY <1>2 DEF HotThread
<1>5. latest[u] \in Of(u)
  BY <1>4 DEF Reaches, TypeOK, Of, Puts, Store!Of
<1> QED BY <1>2, <1>3, <1>4, <1>5

(* The pointer moves to the thread's newest checkpoint. *)
LEMMA PointerMoves ==
  ASSUME TypeOK, NEW t \in Threads, PutInv(t), HotThread(t), puts[t] = "pointer",
         latest'[t] = Current(t), UNCHANGED <<owner, near, keys, damaged, void, buffer, rows>>,
         hot' \subseteq hot \cup ({Current(t)} \ (void \cup damaged))
  PROVE  HotThread(t)'
<1> DEFINE c == Current(t)
<1>1. Of(t)' = Of(t) /\ \A p, i : Reaches(p, i)' <=> Reaches(p, i)
  BY SameOwner, ReachesKept
<1>2. c \in Of(t) /\ \A j \in Of(t) : j <= c
  BY CurrentIs DEF PutInv
<1>3. SUFFICES ASSUME NEW i \in hot' \cap Of(t)
               PROVE  /\ i \in keys /\ i \notin void
                      /\ \A d \in damaged \cap Of(t) : d < i
                      /\ Reaches(c, i) /\ c \notin damaged
                      /\ c \in keys /\ ~ Behind(t)'
  BY <1>1 DEF HotThread
<1> HIDE DEF c
<1>4. c \in Int /\ i \in Int /\ Of(t) \subseteq Int /\ c \in Puts /\ i \in Puts /\ damaged \subseteq Int
  BY <1>2, Numbers DEF TypeOK
<1>5. c \notin void
  <2>1. CASE i = c
    BY <1>3, <2>1 DEF HotThread, c
  <2>2. CASE i # c
    <3>1. i \in hot /\ i \notin void
      BY <1>3, <2>2 DEF HotThread, c
    <3> QED BY <1>3, <3>1, <1>2 DEF PutInv, c
  <2> QED BY <2>1, <2>2
<1>6. c \notin damaged
  <2>1. CASE i \in hot
    <3>1. c \in damaged => c < i
      BY <1>2, <2>1 DEF HotThread
    <3> QED BY <1>2, <1>3, <1>4, <3>1
  <2>2. CASE i \notin hot
    BY <1>3, <2>2 DEF c
  <2> QED BY <2>1, <2>2
<1>7. c \in keys
  BY <1>2, <1>5 DEF PutInv, c
<1>8. i \in keys /\ i \notin void /\ \A d \in damaged \cap Of(t) : d < i
  <2>1. CASE i \in hot
    BY <2>1 DEF HotThread
  <2>2. CASE i \notin hot
    <3>1. i = c
      BY <1>3, <2>2 DEF c
    <3>2. \A d \in damaged \cap Of(t) : d <= c /\ d # c
      BY <1>2, <1>6
    <3> QED BY <1>4, <1>5, <1>7, <3>1, <3>2
  <2> QED BY <2>1, <2>2
<1>9. Reaches(c, i)
  BY <1>2, <1>4, ReachesOlder
<1>10. ~ Behind(t)'
  BY <1>1, <1>2, <1>4 DEF Behind, c
<1> QED BY <1>6, <1>7, <1>8, <1>9, <1>10

(* The pointer moves to what recovery read from PostgreSQL. *)
LEMMA PointerRewritten ==
  ASSUME LayersInv, NEW t \in Threads, HotThread(t), rec # Idle, rec.at = "pointer", rec.thread = t,
         latest'[t] = rec.pg, UNCHANGED <<owner, near, keys, damaged, void, buffer, rows, hot>>
  PROVE  HotThread(t)'
<1>0. TypeOK /\ RecInv
  BY DEF LayersInv
<1>1. Of(t)' = Of(t) /\ \A p, i : Reaches(p, i)' <=> Reaches(p, i)
  BY SameOwner, ReachesKept
<1>2. PICK p : p = rec.pg
  OBVIOUS
<1>3. /\ p \in keys /\ (p \in damaged => hot \cap Of(t) = {}) /\ \A i \in hot \cap Of(t) : Reaches(p, i)
      /\ buffer \cap Of(t) = {} /\ p \in rows \cap Of(t)
  BY <1>0, <1>2, RecOwned DEF RecInv
<1>4. \A i \in hot \cap Of(t) : PgReaches(t, i)'
  BY <1>1, <1>3 DEF PgReaches
<1>5. latest'[t] = p
  BY <1>2
<1> QED BY <1>1, <1>3, <1>4, <1>5 DEF HotThread

(* What the store does keeps what PostgreSQL reaches, of a thread that is not
   being deleted. *)
LEMMA PgKept ==
  ASSUME LayersInv, HotInv, [Next]_vars, NEW u \in Threads, owner' = owner, near' = near,
         NEW i \in hot \cap Of(u), PgReaches(u, i)
  PROVE  PgReaches(u, i)'
<1>0. /\ TypeOK /\ PutInv(u) /\ HotThread(u) /\ i \in Puts
      /\ \A t : t # u => Of(t) \cap Of(u) = {}
  BY DEF LayersInv, HotInv, Of, Store!Of, TypeOK
<1> USE <1>0
<1>1. Of(u)' = Of(u) /\ \A p, j : Reaches(p, j)' <=> Reaches(p, j)
  BY SameOwner, ReachesKept
<1>2. ASSUME rows \cap Of(u) \subseteq rows', buffer' \cap Of(u) = buffer \cap Of(u) PROVE PgReaches(u, i)'
  BY <1>1, <1>2 DEF PgReaches
<1>3. ASSUME dels[u] # "idle" PROVE FALSE
  BY <1>3 DEF PutInv, HotThread
<1>4. ASSUME NEW r \in Of(u), Reaches(r, i), rows' = rows, buffer' = buffer \cup {r} PROVE PgReaches(u, i)'
  BY <1>1, <1>4 DEF PgReaches
<1>5. CASE StoreUntouched
  BY <1>2, <1>5, StoreKept
<1>6. ASSUME NEW t \in Threads, Begin(t) PROVE FALSE
  <2>1. Puts' = Puts /\ Puts' = Puts \cup {Len(owner) + 1} /\ Len(owner) + 1 \notin Puts
    BY <1>6, Made, SamePuts DEF Begin
  <2> QED BY <2>1
<1>7. ASSUME NEW t \in Threads, PutBuffer(t) PROVE PgReaches(u, i)'
  <2>1. rows' = rows /\ buffer' = buffer \cup {Current(t)} /\ Of(t) # {}
    BY <1>7 DEF PutBuffer, Store!Insert, LayersInv, PutInv
  <2>2. Current(t) \in Of(t) /\ Current(t) \in Puts /\ \A j \in Of(t) : j <= Current(t)
    BY <2>1, CurrentIs, Numbers
  <2>3. CASE t = u
    BY <1>4, <2>1, <2>2, <2>3, ReachesOlder
  <2>4. CASE t # u
    BY <1>2, <2>1, <2>2, <2>4
  <2> QED BY <2>3, <2>4
<1>8. ASSUME NEW t \in Threads, DeletePointer(t) \/ DeleteRedisFails(t) \/ DeleteRows(t) PROVE PgReaches(u, i)'
  <2>1. /\ t # u
    BY <1>3, <1>8 DEF DeletePointer, DeleteRedisFails, DeleteRows
  <2>2. rows \ Of(t) \subseteq rows' /\ buffer \ Of(t) \subseteq buffer' /\ buffer' \subseteq buffer
    BY <1>8 DEF DeletePointer, DeleteRedisFails, DeleteRows, DropBuffer, Store!Drop, Store!DropRows, Of
  <2> QED BY <1>2, <2>1, <2>2
<1>9. CASE Flush
  <2>1. ASSUME NEW S \in SUBSET (buffer \cup dropped), Store!Persist(S) PROVE PgReaches(u, i)'
    BY <1>2, <2>1 DEF Store!Persist
  <2>2. ASSUME NEW S \in SUBSET buffer, Store!Clean(S) PROVE PgReaches(u, i)'
    <3>1. /\ buffer' = buffer \ S /\ rows' = rows
          /\ \A j \in S, k \in buffer \ S : owner[j] = owner[k] => j < k
      BY <2>2 DEF Store!Clean
    <3>2. ASSUME buffer' \cap Of(u) # {} PROVE \E p \in buffer' \cap Of(u) : Reaches(p, i)
      <4>1. PICK p \in buffer \cap Of(u) : Reaches(p, i)
        BY <3>1, <3>2 DEF PgReaches
      <4>2. PICK k \in buffer' \cap Of(u) : TRUE
        BY <3>2
      <4>3. CASE p \in S
        <5>1. p < k /\ p \in Puts /\ k \in Puts
          BY <3>1, <4>1, <4>2, <4>3 DEF Of, Store!Of, Puts
        <5>2. p \in Int /\ k \in Int
          BY <5>1, Numbers
        <5> QED BY <4>1, <4>2, <5>1, <5>2, ReachesUp
      <4> QED BY <3>1, <4>1, <4>3
    <3> QED BY <1>1, <3>1, <3>2 DEF PgReaches
  <2> QED BY <1>9, <2>1, <2>2 DEF Flush
<1>10. CASE Crash
  BY <1>1, <1>10 DEF Crash, PgReaches
<1>11. CASE RecoverReplay
  <2> DEFINE r == RedisGet(rec.thread)
  <2>1. /\ rec # Idle /\ r # 0 /\ rows' = rows /\ buffer' = buffer \cup {r}
    BY <1>11 DEF RecoverReplay, RedisAhead, Idle, Store!Insert
  <2>2. r = latest[rec.thread] /\ rec.thread \in Threads /\ r \in Of(rec.thread)
    <3>1. r = latest[rec.thread] /\ latest[rec.thread] # 0 /\ rec.thread \in Threads
      BY <2>1, RecOwned DEF RedisGet
    <3>2. latest[rec.thread] \in Puts /\ owner[latest[rec.thread]] = rec.thread
      BY <3>1 DEF TypeOK
    <3> QED BY <3>1, <3>2 DEF Of, Puts, Store!Of
  <2> HIDE DEF r
  <2>3. CASE rec.thread = u
    BY <1>4, <2>1, <2>2, <2>3 DEF HotThread
  <2>4. CASE rec.thread # u
    BY <1>2, <2>1, <2>2, <2>4
  <2> QED BY <2>3, <2>4
<1> QED BY <1>5, <1>6, <1>7, <1>8, <1>9, <1>10, <1>11, StoreSteps

(* What Redis accepted is reached after every step. *)
LEMMA HotStep == LayersInv /\ HotInv /\ [Next]_vars => HotInv'
<1> SUFFICES ASSUME LayersInv, HotInv, [Next]_vars, NEW u \in Threads PROVE HotThread(u)'
  BY DEF HotInv
<1>0. /\ TypeOK /\ PutInv(u) /\ HotThread(u)
      /\ \A t : t # u => Of(t) \cap Of(u) = {}
  BY DEF LayersInv, HotInv, Of, Store!Of, TypeOK
<1> USE <1>0
<1> USE DEF redisVars, pgVars, boundVars, recVars, replayVars, PutUnchanged, DelUnchanged, Still, RecUnchanged
<1>1. ASSUME owner' = owner, hot' \cap Of(u) = {} PROVE HotThread(u)'
  BY <1>1, SameOwner DEF HotThread
<1>2. ASSUME dels[u] # "idle" PROVE hot \cap Of(u) = {}
  BY <1>2 DEF PutInv, HotThread
(* The pointer stays, and all there is of the thread stays in Redis. *)
<1>3. ASSUME owner' = owner, near' = near, latest'[u] = latest[u], hot' \cap Of(u) = hot \cap Of(u),
             keys \cap Of(u) \subseteq keys', void' \cap Of(u) \subseteq void, damaged' \cap Of(u) \subseteq damaged
      PROVE  HotThread(u)'
  <2>1. CASE hot \cap Of(u) = {}
    BY <1>1, <1>3, <2>1
  <2>2. CASE hot \cap Of(u) # {}
    <3>1. hot' \cap Of(u) \subseteq keys' \ void'
      BY <1>3 DEF HotThread
    <3>2. Behind(u) => \E i \in hot' \cap Of(u) : latest[u] < i
      BY <1>3 DEF Behind
    <3>3. latest[u] \in Of(u)
      BY <2>2 DEF HotThread, Reaches, TypeOK, Of, Puts, Store!Of
    <3>4. ~ Behind(u) => latest[u] \in keys'
      BY <1>3, <2>2, <3>3 DEF HotThread
    <3>5. \A i \in hot' \cap Of(u) : PgReaches(u, i) => PgReaches(u, i)'
      BY <1>3, PgKept
    <3> QED BY <1>3, <3>1, <3>2, <3>4, <3>5, HotKept
  <2> QED BY <2>1, <2>2
<1>4. ASSUME NEW t \in Threads, Begin(t) PROVE HotThread(u)'
  <2> DEFINE n == Len(owner) + 1
  <2>1. /\ owner' = Append(owner, t) /\ UNCHANGED <<keys, latest, damaged, buffer, rows, hot>>
        /\ near' \in {near, near \cup {n}} /\ void' \in {void, void \cup {n}}
    BY <1>4 DEF Begin
  <2>2. /\ n \notin Puts /\ Of(u)' \in {Of(u), Of(u) \cup {n}} /\ \A i \in Puts : owner'[i] = owner[i] /\ i < n
        /\ n \in Int /\ Of(t)' = Of(t) \cup {n} /\ \A v : v # t => Of(v)' = Of(v)
    <3>1. /\ n \notin Puts /\ (\A i \in Puts : owner'[i] = owner[i] /\ i < n)
          /\ Of(t)' = Of(t) \cup {n} /\ \A v : v # t => Of(v)' = Of(v)
      BY <2>1, Made
    <3>2. n \in Int
      BY Numbers
    <3>3. Of(u)' \in {Of(u), Of(u) \cup {n}}
      BY <3>1
    <3> QED BY <3>1, <3>2, <3>3
  <2>3. \A S \in SUBSET Puts : S \cap Of(u)' = S \cap Of(u)
    BY <2>2
  <2>4. ASSUME NEW p, NEW i \in Puts PROVE Reaches(p, i)' <=> Reaches(p, i)
    <3>1. owner'[i] = owner[i] /\ i \in Int /\ n \in Int /\ i < n
      BY <2>2, Numbers
    <3>2. PICK v : v = owner[i]
      OBVIOUS
    <3>3. Of(v)' \in {Of(v), Of(v) \cup {n}} /\ Of(v) \subseteq Puts
      BY <2>2, Numbers
    <3>4. \A k \in Of(v) : k # n /\ (k \in near' <=> k \in near)
      BY <2>1, <2>2, <3>3
    <3>5. (\A k \in Of(v)' : p < k /\ k <= i => k \in near') <=> (\A k \in Of(v) : p < k /\ k <= i => k \in near)
      BY <3>1, <3>3, <3>4
    <3> HIDE DEF n
    <3>6. owner'[i] = v
      BY <3>1, <3>2
    <3> QED BY <3>2, <3>5, <3>6 DEF Reaches
  <2>5. hot \in SUBSET Puts /\ rows \in SUBSET Puts /\ buffer \in SUBSET Puts /\ damaged \in SUBSET Puts
    BY DEF TypeOK
  <2> HIDE DEF n
  <2>6. hot' \cap Of(u)' = hot \cap Of(u) /\ damaged' \cap Of(u)' = damaged \cap Of(u)
    BY <2>1, <2>3, <2>5
  <2>7. \A i \in hot \cap Of(u) : PgReaches(u, i)' <=> PgReaches(u, i)
    BY <2>1, <2>3, <2>4, <2>5 DEF PgReaches
  <2>8. Behind(u)' <=> Behind(u)
    BY <2>1, <2>6 DEF Behind
  <2>9. \A i \in hot \cap Of(u) : (Reaches(latest[u], i)' <=> Reaches(latest[u], i)) /\ i \in Puts /\ i # n
    BY <2>1, <2>2, <2>4, <2>5 
  <2>10. \A i \in hot \cap Of(u) : i \notin void => i \notin void'
    BY <2>1, <2>9
  <2> QED BY <2>1, <2>6, <2>7, <2>8, <2>9, <2>10 DEF HotThread
<1>5. ASSUME NEW t \in Threads, PutKey(t) \/ PutBuffer(t) PROVE HotThread(u)'
  <2>1. UNCHANGED <<owner, near, latest, damaged, hot, void>> /\ keys \subseteq keys'
    BY <1>5 DEF PutKey, PutBuffer, Store!Insert
  <2> QED BY <1>3, <2>1
<1>6. ASSUME NEW t \in Threads, puts[t] = "pointer", latest' = [latest EXCEPT ![t] = Current(t)],
             UNCHANGED <<owner, near, keys, damaged, void, buffer, rows>>,
             hot \subseteq hot', hot' \subseteq hot \cup ({Current(t)} \ (void \cup damaged))
      PROVE  HotThread(u)'
  <2>1. CASE t = u
    <3>1. latest'[u] = Current(u)
      BY <1>6, <2>1 DEF TypeOK
    <3> QED BY <1>6, <2>1, <3>1, PointerMoves
  <2>2. CASE t # u
    <3>1. latest'[u] = latest[u]
      BY <1>6, <2>2 DEF TypeOK
    <3>2. Current(t) \in Of(t)
      BY <1>6, CurrentIs DEF LayersInv, PutInv
    <3>3. hot' \cap Of(u) = hot \cap Of(u)
      BY <1>6, <2>2, <3>2
    <3> QED BY <1>3, <1>6, <3>1, <3>3
  <2> QED BY <2>1, <2>2
<1>7. ASSUME NEW t \in Threads, PutPointer(t) PROVE HotThread(u)'
  BY <1>6, <1>7 DEF PutPointer
<1>8. ASSUME NEW t \in Threads, PutRedisFails(t) \/ PutCancelled(t) PROVE HotThread(u)'
  <2>1. UNCHANGED <<owner, near, damaged, void, buffer, rows, hot>> /\ MaybeApplied(t)
    BY <1>8 DEF PutRedisFails, PutCancelled
  <2>2. CASE keys \subseteq keys' /\ latest' = latest
    BY <1>3, <2>1, <2>2
  <2>3. CASE puts[t] = "pointer" /\ latest' = [latest EXCEPT ![t] = Current(t)] /\ UNCHANGED keys
    BY <1>6, <2>1, <2>3
  <2> QED BY <2>1, <2>2, <2>3 DEF MaybeApplied
<1>9. ASSUME NEW t \in Threads, BeginDelete(t) PROVE HotThread(u)'
  <2>1. UNCHANGED <<owner, near, keys, latest, damaged>> /\ hot' = hot \ Of(t) /\ void' = void \cup Of(t)
    BY <1>9 DEF BeginDelete
  <2>2. CASE t = u
    BY <1>1, <2>1, <2>2
  <2>3. CASE t # u
    BY <1>3, <2>1, <2>3
  <2> QED BY <2>2, <2>3
<1>10. ASSUME NEW t \in Threads, \/ DeleteKey(t) \/ ScanEnds(t) \/ DeletePointer(t) \/ DeleteRedisFails(t)
                                 \/ DeleteRows(t) \/ DeleteRowsFails(t)
       PROVE  HotThread(u)'
  <2>1. /\ UNCHANGED <<owner, near, hot, void>> /\ dels[t] # "idle"
        /\ keys \ Of(t) \subseteq keys' /\ damaged' \subseteq damaged
        /\ latest' = latest \/ latest' = [latest EXCEPT ![t] = 0]
    BY <1>10 DEF DeleteKey, ScanEnds, DeletePointer, DeleteRedisFails, DeleteRows, DeleteRowsFails, DropBuffer,
                 Store!Drop, Store!DropRows
  <2>2. CASE t = u
    BY <1>1, <1>2, <2>1, <2>2
  <2>3. CASE t # u
    <3>1. latest'[u] = latest[u] /\ keys \cap Of(u) \subseteq keys'
      BY <2>1, <2>3 DEF TypeOK
    <3> QED BY <1>3, <2>1, <3>1
  <2> QED BY <2>2, <2>3
<1>11. ASSUME NEW i \in keys, Damage(i) PROVE HotThread(u)'
  <2>1. /\ UNCHANGED <<owner, near, keys, latest, void>> /\ damaged' = damaged \cup {i}
        /\ hot' = hot \ Of(owner[i])
    BY <1>11 DEF Damage
  <2>2. i \in Of(owner[i])
    BY Numbers DEF TypeOK
  <2>3. CASE owner[i] = u
    BY <1>1, <2>1, <2>3
  <2>4. CASE owner[i] # u
    <3>1. Of(owner[i]) \cap Of(u) = {}
      BY <2>4
    <3> QED BY <1>3, <2>1, <2>2, <3>1
  <2> QED BY <2>3, <2>4
<1>12. CASE RewriteKey
  BY <1>3, <1>12 DEF RewriteKey
<1>13. ASSUME rec.at = "pointer", latest' = [latest EXCEPT ![rec.thread] = rec.pg],
              UNCHANGED <<owner, near, keys, damaged, void, buffer, rows, hot>>
       PROVE  HotThread(u)'
  <2>1. rec # Idle
    BY <1>13 DEF Idle
  <2>2. CASE rec.thread = u
    <3>1. latest'[u] = rec.pg
      BY <1>13, <2>2 DEF TypeOK
    <3> QED BY <1>13, <2>1, <2>2, <3>1, PointerRewritten
  <2>3. CASE rec.thread # u
    <3>1. latest'[u] = latest[u]
      BY <1>13, <2>3 DEF TypeOK
    <3> QED BY <1>3, <1>13, <3>1
  <2> QED BY <2>2, <2>3
<1>14. CASE RewritePointer
  BY <1>13, <1>14 DEF RewritePointer
<1>15. CASE RewriteFails
  <2>1. UNCHANGED <<owner, near, hot, void, buffer, rows>>
    BY <1>15 DEF RewriteFails
  <2>2. CASE latest' = latest /\ keys \subseteq keys' /\ damaged' \subseteq damaged
    BY <1>3, <2>1, <2>2
  <2>3. CASE rec.at = "pointer" /\ latest' = [latest EXCEPT ![rec.thread] = rec.pg] /\ UNCHANGED <<keys, damaged>>
    BY <1>13, <2>1, <2>3
  <2> QED BY <1>15, <2>2, <2>3 DEF RewriteFails
<1>16. CASE Flush \/ Crash
  <2>1. UNCHANGED <<owner, near, keys, latest, damaged, hot, void>>
    BY <1>16 DEF Flush, Crash
  <2> QED BY <1>3, <2>1
<1>17. CASE \/ Collect \/ RecoverPgStands \/ RecoverNeedsReview \/ RecoverReplay \/ RecoverConflict \/ Serve
            \/ UNCHANGED vars \/ (\E t \in Threads : RecoverReadPg(t))
  <2>1. UNCHANGED <<owner, near, keys, latest, damaged, hot, void>>
    BY <1>17 DEF Collect, RecoverPgStands, RecoverNeedsReview, RecoverReplay, RecoverConflict, Serve, vars,
                 RecoverReadPg, Store!Insert
  <2> QED BY <1>3, <2>1
<1>18. ASSUME NEW t \in Threads, Expire(t) PROVE HotThread(u)'
  <2>1. UNCHANGED <<owner, near, buffer, rows, void>> /\ damaged' \subseteq damaged
    BY <1>18 DEF Expire
  <2>2. CASE latest' = [latest EXCEPT ![t] = 0] /\ UNCHANGED <<keys, hot>> /\ keys \cap Of(t) = {}
    <3>1. CASE t = u
      <4>1. hot \cap Of(u) = {}
        BY <2>2, <3>1 DEF HotThread
      <4> QED BY <1>1, <2>1, <2>2, <4>1
    <3>2. CASE t # u
      <4>1. latest'[u] = latest[u]
        BY <2>2, <3>2 DEF TypeOK
      <4> QED BY <1>3, <2>1, <2>2, <4>1
    <3> QED BY <3>1, <3>2
  <2>3. ASSUME NEW i \in keys \cap Of(t), \A j \in keys \cap Of(t) : i <= j, keys' = keys \ {i}, hot' = hot \ {i},
               latest' = latest
        PROVE  HotThread(u)'
    <3>1. CASE t # u
      BY <1>3, <2>1, <2>3, <3>1
    <3>2. CASE hot' \cap Of(u) = {}
      BY <1>1, <2>1, <3>2
    <3>3. CASE t = u /\ hot' \cap Of(u) # {}
      <4>1. PICK k \in hot \cap Of(u) : k # i
        BY <2>3, <3>3
      <4>2. /\ \A j \in hot \cap Of(u) : i <= j /\ j \in Int
            /\ i \in Int /\ latest[u] \in Int /\ k \in Int
        BY <2>3, <3>3, Numbers DEF HotThread, TypeOK
      <4>3. Behind(u) => \E j \in hot' \cap Of(u) : latest[u] < j
        <5>1. SUFFICES ASSUME NEW j \in hot \cap Of(u), latest[u] < j PROVE \E l \in hot' \cap Of(u) : latest[u] < l
          BY DEF Behind
        <5>2. CASE j # i
          BY <2>3, <5>1, <5>2
        <5>3. CASE j = i
          <6>1. latest[u] < k
            BY <4>1, <4>2, <5>1, <5>3
          <6> QED BY <2>3, <4>1, <6>1
        <5> QED BY <5>2, <5>3
      <4>4. ~ Behind(u) => latest[u] \in keys'
        <5>1. ASSUME ~ Behind(u) PROVE latest[u] \in keys /\ latest[u] # i
          BY <4>1, <4>2, <5>1 DEF HotThread, Behind
        <5> QED BY <2>3, <5>1
      <4>5. hot' \cap Of(u) \subseteq keys' \ void'
        BY <2>1, <2>3 DEF HotThread
      <4>6. \A j \in hot' \cap Of(u) : PgReaches(u, j) => PgReaches(u, j)'
        BY <2>1, <2>3, PgKept
      <4>7. hot' \cap Of(u) \subseteq hot /\ latest'[u] = latest[u] /\ damaged' \cap Of(u) \subseteq damaged
        BY <2>1, <2>3
      <4> QED BY <2>1, <4>3, <4>4, <4>5, <4>6, <4>7, HotKept
    <3> QED BY <3>1, <3>2, <3>3
  <2> QED BY <1>18, <2>2, <2>3 DEF Expire
<1> QED
  BY <1>4, <1>5, <1>7, <1>8, <1>9, <1>10, <1>11, <1>12, <1>14, <1>15, <1>16, <1>17, <1>18 DEF Next

-----------------------------------------------------------------------------
(* What a recovery has reconciled, under every step.                       *)

(* What Redis answers for a thread is one of its keys, or 0. *)
LEMMA RedisOwned ==
  ASSUME TypeOK, NEW t \in Threads
  PROVE  RedisGet(t) \in {0, latest[t]} /\ RedisGet(t) \in (Of(t) \cap keys) \cup {0}
<1>1. latest[t] # 0 => latest[t] \in Of(t)
  BY DEF TypeOK, Of, Puts, Store!Of
<1>2. 0 \notin keys
  BY Numbers DEF TypeOK
<1> QED BY <1>1, <1>2 DEF RedisGet

(* What PostgreSQL answers after the step. *)
LEMMA AnswerOwned ==
  ASSUME TypeOK, TypeOK', NEW t, owner' = owner
  PROVE  /\ PgGet(t)' = Answer(buffer' \cap Of(t), rows' \cap Of(t))
         /\ PgGet(t)' \in Puts \cup {0}
<1> DEFINE B == buffer' \cap Of(t)
           R == rows' \cap Of(t)
<1>1. Len(owner) \in Nat /\ Puts = 1..Len(owner) /\ Of(t) \subseteq Puts
  BY Numbers
<1>2. PgGet(t)' = Answer(B, R) /\ B \in SUBSET (1..Len(owner)) /\ R \in SUBSET (1..Len(owner))
  BY <1>1, PgAnswersNext, SameOwner
<1> HIDE DEF B, R
<1>3. Answer(B, R) \in B \cup R \cup {0}
  BY <1>1, <1>2, NewestIs, NewestOfNone DEF Answer
<1> QED BY <1>1, <1>2, <1>3 DEF B, R

(* A thread stays reconciled while its pointer does and PostgreSQL does not fall back. *)
LEMMA ReconciledKept ==
  ASSUME TypeOK, TypeOK', NEW t \in Threads, Reconciled(t), owner' = owner, near' = near,
         latest'[t] = latest[t], keys' \cap Of(t) \subseteq keys, damaged \cap Of(t) \subseteq damaged',
         PgGet(t) <= PgGet(t)'
  PROVE  Reconciled(t)'
<1>1. \A p, i : Reaches(p, i)' <=> Reaches(p, i)
  BY ReachesKept
<1>2. RedisGet(t) \in {0, latest[t]} /\ RedisGet(t) \in (Of(t) \cap keys) \cup {0}
  BY RedisOwned
<1>3. RedisGet(t)' = 0 \/ RedisGet(t)' = RedisGet(t)
  <2>1. latest[t] # 0 => latest[t] \in Of(t)
    BY DEF TypeOK, Of, Puts, Store!Of
  <2> QED BY <2>1 DEF RedisGet
<1>4. PICK r, p, q : r = RedisGet(t) /\ p = PgGet(t) /\ q = PgGet(t)'
  OBVIOUS
<1>5. p \in Puts \cup {0} /\ q \in Puts \cup {0} /\ Puts \subseteq Int
  <2>1. \A u : PgGet(u) \in Puts \cup {0}
    BY PgOwned
  <2>2. PgGet(t)' \in Puts \cup {0}
    BY AnswerOwned
  <2> QED BY <1>4, <2>1, <2>2, Numbers
<1>6. CASE Reaches(p, r) /\ r \in Puts
  <2>1. p # 0 /\ p <= q
    BY <1>4, <1>6 DEF Reaches
  <2>2. q \in Puts
    BY <1>5, <2>1, Numbers
  <2>3. Reaches(q, r)
    BY <1>5, <1>6, <2>1, <2>2, ReachesUp
  <2> QED BY <1>1, <1>3, <1>4, <2>3 DEF Reconciled
<1>7. CASE r = 0
  BY <1>3, <1>4, <1>7 DEF Reconciled
<1>8. CASE r \in damaged
  BY <1>2, <1>3, <1>4, <1>8 DEF Reconciled
<1>9. r = 0 \/ r \in Puts
  BY <1>2, <1>4, Numbers
<1> QED BY <1>4, <1>6, <1>7, <1>8, <1>9 DEF Reconciled

(* While a recovery runs, flushes never put PostgreSQL back. *)
LEMMA FlushKeepsNewest ==
  ASSUME LayersInv, TypeOK', Flush, phase = "recovering", NEW t \in Threads
  PROVE  PgGet(t) <= PgGet(t)'
<1> DEFINE B == buffer \cap Of(t)
           R == rows \cap Of(t)
           C == buffer' \cap Of(t)
           Q == rows' \cap Of(t)
<1>0. TypeOK /\ PhaseInv /\ owner' = owner
  BY DEF LayersInv, Flush, Still
<1>1. Len(owner) \in Nat /\ Puts = 1..Len(owner) /\ Of(t) \subseteq Puts
  BY <1>0, Numbers
<1>2. PgGet(t) = Answer(B, R) /\ PgGet(t)' = Answer(C, Q) /\ PgGet(t) \in Int
  <2>1. PgGet(t) \in Puts \cup {0} /\ PgGet(t)' = Answer(C, Q)
    BY <1>0, PgOwned, AnswerOwned
  <2>2. PgGet(t) = Answer(B, R)
    BY PgAnswers
  <2> QED BY <1>1, <2>1, <2>2
<1>3. /\ B \in SUBSET (1..Len(owner)) /\ R \in SUBSET (1..Len(owner))
      /\ C \in SUBSET (1..Len(owner)) /\ Q \in SUBSET (1..Len(owner))
  BY <1>1
<1>4. ASSUME B = C, R = Q PROVE PgGet(t) <= PgGet(t)'
  BY <1>2, <1>4
<1>5. ASSUME NEW S \in SUBSET (buffer \cup dropped), Store!Persist(S) PROVE PgGet(t) <= PgGet(t)'
  <2>1. buffer' = buffer /\ rows' = rows \cup S /\ S \subseteq buffer
    BY <1>0, <1>5 DEF Store!Persist, PhaseInv
  <2>2. CASE B # {}
    <3>1. Answer(B, R) = Answer(C, Q)
      BY <2>1, <2>2 DEF Answer
    <3> QED BY <1>2, <3>1
  <2>3. CASE B = {}
    BY <1>4, <2>1, <2>3
  <2> QED BY <2>2, <2>3
<1>6. ASSUME NEW S \in SUBSET buffer, Store!Clean(S) PROVE PgGet(t) <= PgGet(t)'
  <2>1. /\ buffer' = buffer \ S /\ rows' = rows /\ S \subseteq rows
        /\ \A i \in S, j \in buffer \ S : owner[i] = owner[j] => i < j
    BY <1>0, <1>6 DEF Store!Clean, PhaseInv
  <2>2. CASE B = {}
    BY <1>4, <2>1, <2>2
  <2>3. ASSUME B # {}, C = {} PROVE PgGet(t) <= PgGet(t)'
    <3>1. B \subseteq Q
      BY <2>1, <2>3
    <3> HIDE DEF B, C, Q, R
    <3>2. Newest(B) \in B /\ Newest(B) \in Q /\ Q # {}
      BY <1>1, <1>3, <2>3, <3>1, NewestIs
    <3>3. Newest(B) <= Newest(Q)
      BY <1>1, <1>3, <3>2, NewestIs
    <3> QED BY <1>2, <2>3, <3>3 DEF Answer
  <2>4. ASSUME B # {}, C # {} PROVE PgGet(t) <= PgGet(t)'
    <3>1. \A i, j \in Of(t) : owner[i] = owner[j]
      BY DEF Of, Store!Of
    <3>2. \A i \in B \ C, j \in C : i < j
      BY <2>1, <3>1
    <3>3. C \subseteq B
      BY <2>1
    <3> HIDE DEF B, C, Q, R
    <3>4. Newest(B) \in B /\ Newest(C) \in C /\ \A j \in C : j <= Newest(C)
      BY <1>1, <1>3, <2>4, NewestIs
    <3>5. Newest(B) <= Newest(C)
      <4>1. CASE Newest(B) \in C
        BY <3>4, <4>1
      <4>2. CASE Newest(B) \notin C
        <5>1. Newest(B) < Newest(C) /\ Newest(B) \in 1..Len(owner) /\ Newest(C) \in 1..Len(owner)
          BY <1>3, <3>2, <3>4, <4>2
        <5> QED BY <1>1, <5>1
      <4> QED BY <4>1, <4>2
    <3> QED BY <1>2, <2>4, <3>5 DEF Answer
  <2> QED BY <2>2, <2>3, <2>4
<1> QED BY <1>5, <1>6 DEF Flush

(* The one read from PostgreSQL is what it answers. *)
LEMMA RecIsPg ==
  ASSUME LayersInv, rec # Idle, rec.pg # 0
  PROVE  PgGet(rec.thread) = rec.pg
<1>1. TypeOK /\ buffer \cap Of(rec.thread) = {} /\ rec.pg = Newest(rows \cap Of(rec.thread))
  BY DEF LayersInv, RecInv
<1> QED BY <1>1, PgOwned

(* Each thread recover() is done with stays reconciled. *)
LEMMA ReconciledStep == IInv /\ TypeOK' /\ [Next]_vars => ReconciledInv'
<1> SUFFICES ASSUME IInv, TypeOK', [Next]_vars, phase' = "recovering", smooth'
             PROVE  /\ redisUp'
                    /\ \A t \in Threads \ todo' : ~ (rec' # Idle /\ rec'.thread = t) => Reconciled(t)'
  BY DEF ReconciledInv
<1>0. TypeOK /\ PhaseInv /\ RecInv /\ LayersInv
  BY DEF IInv, LayersInv
<1> USE <1>0
<1> USE DEF redisVars, pgVars, boundVars, recVars, replayVars, PutUnchanged, DelUnchanged, Still, RecUnchanged,
            NoFault, Fault, Lapse
<1> DEFINE Goal == /\ redisUp'
                   /\ \A t \in Threads \ todo' : ~ (rec' # Idle /\ rec'.thread = t) => Reconciled(t)'
<1>1. ASSUME phase = "recovering", smooth
      PROVE  redisUp /\ \A t \in Threads \ todo : ~ (rec # Idle /\ rec.thread = t) => Reconciled(t)
  BY <1>1 DEF IInv, ReconciledInv
<1>2. ASSUME NEW t \in Threads, Reconciled(t), UNCHANGED <<owner, near, keys, latest, damaged, buffer, rows>>
      PROVE  Reconciled(t)'
  <2>1. PgGet(t)' = PgGet(t) /\ PgGet(t) \in Int
    <3>1. PgGet(t)' = Answer(buffer \cap Of(t), rows \cap Of(t)) /\ PgGet(t) \in Puts \cup {0}
      BY <1>2, AnswerOwned, PgOwned
    <3> QED BY <3>1, PgAnswers, Numbers
  <2>2. PgGet(t) <= PgGet(t)'
    BY <2>1
  <2> QED BY <1>2, <2>2, ReconciledKept
<1>3. ASSUME NEW t \in Threads, \/ Begin(t) \/ PutKey(t) \/ PutPointer(t) \/ PutRedisFails(t) \/ PutBuffer(t)
                                \/ PutCancelled(t)
      PROVE  FALSE
  <2>1. phase = "up"
    BY <1>3 DEF Begin, PutKey, PutPointer, PutRedisFails, PutBuffer, PutCancelled, PhaseInv
  <2>2. phase' = phase
    BY <1>3 DEF Begin, PutKey, PutPointer, PutRedisFails, PutBuffer, PutCancelled
  <2> QED BY <2>1, <2>2
<1>4. ASSUME NEW t \in Threads, \/ BeginDelete(t) \/ DeleteKey(t) \/ ScanEnds(t) \/ DeletePointer(t)
                                \/ DeleteRedisFails(t) \/ DeleteRows(t) \/ DeleteRowsFails(t)
      PROVE  FALSE
  <2>1. phase = "up"
    BY <1>4 DEF BeginDelete, DeleteKey, ScanEnds, DeletePointer, DeleteRedisFails, DeleteRows, DeleteRowsFails, PhaseInv
  <2>2. phase' = phase
    BY <1>4 DEF BeginDelete, DeleteKey, ScanEnds, DeletePointer, DeleteRedisFails, DeleteRows, DeleteRowsFails
  <2> QED BY <2>1, <2>2
<1>5. CASE Crash \/ RewriteFails \/ Serve
  BY <1>5 DEF Crash, RewriteFails, Serve
<1>6. CASE (\E t \in Threads : Expire(t)) \/ (\E i \in keys : Damage(i))
  BY <1>6 DEF Expire, Damage
<1>7. CASE Collect
  <2>1. redisUp' /\ latest' = latest /\ todo' = {t \in Threads : rows \cap Of(t) # {} \/ latest[t] # 0}
    <3>1. PICK pgOk, redisOk :
            /\ pgOk \in BOOLEAN /\ redisOk \in BOOLEAN /\ (IF pgOk /\ redisOk THEN NoFault ELSE Fault)
            /\ todo' = {t \in Threads : (pgOk /\ rows \cap Of(t) # {}) \/ (redisOk /\ latest[t] # 0)}
            /\ redisUp' = redisOk
      BY <1>7 DEF Collect
    <3>2. pgOk /\ redisOk
      BY <3>1
    <3>3. latest' = latest
      BY <1>7 DEF Collect
    <3> QED BY <3>1, <3>2, <3>3
  <2>2. ASSUME NEW t \in Threads \ todo' PROVE Reconciled(t)'
    <3>1. latest'[t] = 0
      BY <2>1, <2>2
    <3> QED BY <3>1 DEF Reconciled, RedisGet
  <2> QED BY <2>1, <2>2
<1>8. CASE Flush
  <2>1. /\ phase = "recovering" /\ smooth /\ UNCHANGED <<owner, near, keys, latest, damaged, todo, redisUp, rec>>
    BY <1>8 DEF Flush
  <2>2. ASSUME NEW t \in Threads, Reconciled(t) PROVE Reconciled(t)'
    <3>1. PgGet(t) <= PgGet(t)'
      BY <1>8, <2>1, FlushKeepsNewest
    <3> QED BY <2>1, <2>2, <3>1, ReconciledKept
  <2> QED BY <1>1, <2>1, <2>2
<1>9. ASSUME NEW t \in Threads, RecoverReadPg(t) PROVE Goal
  <2>1. /\ phase = "recovering" /\ smooth /\ todo' = todo \ {t} /\ rec = Idle
        /\ UNCHANGED <<owner, near, keys, latest, damaged, buffer, rows, redisUp>>
        /\ rec' = [at |-> "redis", thread |-> t, pg |-> PgGet(t), pgFailed |-> FALSE]
    BY <1>9 DEF RecoverReadPg
  <2>2. rec' # Idle /\ rec'.thread = t
    BY <2>1 DEF Idle
  <2> QED BY <1>1, <1>2, <2>1, <2>2
(* Of the thread at hand it remains to see that its step leaves it reconciled. *)
<1>10. ASSUME NEW v \in Threads, rec # Idle, v = rec.thread, UNCHANGED <<phase, smooth, owner, near, todo, redisUp>>,
              rec' = Idle => Reconciled(v)', rec' # Idle => rec'.thread = v, rows' = rows,
              \A t \in Threads \ {v} :
                /\ buffer' \cap Of(t) = buffer \cap Of(t) /\ latest'[t] = latest[t]
                /\ keys' \cap Of(t) \subseteq keys /\ damaged \cap Of(t) \subseteq damaged'
       PROVE  Goal
  <2>1. ASSUME NEW t \in Threads \ {v}, Reconciled(t) PROVE Reconciled(t)'
    <3>1. PgGet(t)' = PgGet(t) /\ PgGet(t) \in Int
      <4>1. PgGet(t)' = Answer(buffer \cap Of(t), rows \cap Of(t)) /\ PgGet(t) \in Puts \cup {0}
        BY <1>10, <2>1, AnswerOwned, PgOwned
      <4> QED BY <4>1, PgAnswers, Numbers
    <3>2. PgGet(t) <= PgGet(t)'
      BY <3>1
    <3> QED BY <1>10, <2>1, <3>2, ReconciledKept
  <2>2. redisUp /\ \A t \in Threads \ todo : t # v => Reconciled(t)
    BY <1>1, <1>10
  <2> QED BY <1>10, <2>1, <2>2
<1>11. CASE rec # Idle /\ rec.at = "redis" /\ UNCHANGED <<phase, smooth, owner, near, todo, redisUp, rows, latest, keys, damaged>>
            /\ (RecoverPgStands \/ RecoverNeedsReview \/ RecoverReplay \/ RecoverConflict)
  <2> USE <1>11
  <2>1. PICK v, p, r : v = rec.thread /\ p = rec.pg /\ r = RedisGet(v)
    OBVIOUS
  <2>2. v \in Threads /\ p \in Of(v) \cup {0} /\ r \in (Of(v) \cap keys) \cup {0} /\ redisUp
        /\ Of(v) \subseteq Puts /\ Of(v) \subseteq Int /\ buffer \cap Of(v) = {}
    BY <1>1, <2>1, RecOwned, RedisOwned, Numbers DEF PhaseInv, RecInv
  <2>3. \A i \in Of(v) : owner[i] = v /\ i # 0 /\ i <= i
    BY <2>2, Numbers DEF Of, Store!Of
  <2>4. p # 0 => PgGet(v) = p
    BY <2>1, RecIsPg
  <2>5. RedisGet(v)' = r /\ \A q, i : Reaches(q, i)' <=> Reaches(q, i)
    BY <2>1, ReachesKept DEF RedisGet
  <2>6. ASSUME buffer' = buffer PROVE PgGet(v)' = PgGet(v)
    <3>1. PgGet(v)' = Answer(buffer \cap Of(v), rows \cap Of(v))
      BY <2>6, AnswerOwned
    <3> QED BY <3>1, PgAnswers
  <2>7. CASE RecoverPgStands
    <3>1. rec' = Idle /\ buffer' = buffer
      BY <2>7 DEF RecoverPgStands
    <3>2. r = 0 \/ Reaches(PgGet(v), r)
      <4>1. r = 0 \/ (r # 0 /\ p # 0 /\ Newer(p, r)) \/ (r # 0 /\ r = p)
        BY <2>1, <2>2, <2>7 DEF RecoverPgStands
      <4>2. ASSUME r # 0, p # 0, Newer(p, r) PROVE r < p
        BY <2>2, <4>2, AheadIsNewer
      <4>3. ASSUME r # 0, p # 0, r <= p PROVE Reaches(p, r)
        BY <2>2, <4>3, ReachesOlder
      <4>4. ASSUME r # 0, p # 0, r < p PROVE r <= p
        BY <2>2, <4>4
      <4> QED BY <2>2, <2>3, <2>4, <4>1, <4>2, <4>3, <4>4
    <3>3. Reconciled(v)'
      BY <2>5, <2>6, <3>1, <3>2 DEF Reconciled
    <3> QED BY <1>10, <2>1, <2>2, <3>1, <3>3
  <2>8. CASE RecoverNeedsReview
    <3>1. rec' = Idle /\ buffer' = buffer /\ r \in damaged
      BY <2>1, <2>8 DEF RecoverNeedsReview
    <3>2. Reconciled(v)'
      BY <2>5, <3>1 DEF Reconciled
    <3> QED BY <1>10, <2>1, <2>2, <3>1, <3>2
  <2>9. CASE RecoverReplay
    <3>1. rec' = Idle /\ buffer' = buffer \cup {r} /\ r # 0
      BY <2>1, <2>9 DEF RecoverReplay, RedisAhead, Store!Insert
    <3>2. r \in Of(v) /\ \A t \in Threads \ {v} : r \notin Of(t)
      BY <2>2, <3>1 DEF Of, Store!Of
    <3>3. buffer' \cap Of(v) = {r}
      BY <2>2, <3>1, <3>2
    <3>4. PgGet(v)' = r
      <4>1. PgGet(v)' = Newest({r})
        BY <3>3, AnswerOwned DEF Answer
      <4>2. Newest({r}) = r
        <5>1. Len(owner) \in Nat /\ {r} \in SUBSET (1..Len(owner)) /\ {r} # {}
          BY <2>2, <3>2, Numbers
        <5> QED BY <5>1, NewestIs
      <4> QED BY <4>1, <4>2
    <3>5. Reaches(r, r)
      BY <2>2, <2>3, <3>2, ReachesOlder
    <3>6. Reconciled(v)'
      BY <2>5, <3>4, <3>5 DEF Reconciled
    <3>7. \A t \in Threads \ {v} : buffer' \cap Of(t) = buffer \cap Of(t)
      BY <3>1, <3>2
    <3> QED BY <1>10, <2>1, <2>2, <3>1, <3>6, <3>7
  <2>10. CASE RecoverConflict
    <3>1. rec' # Idle /\ rec'.thread = v /\ buffer' = buffer
      <4>1. rec' = [at |-> "key", thread |-> rec.thread, pg |-> rec.pg, pgFailed |-> rec.pgFailed]
        BY <2>10, RecOwned DEF RecoverConflict
      <4> QED BY <2>1, <2>10, <4>1 DEF RecoverConflict, Idle
    <3> QED BY <1>10, <2>1, <2>2, <3>1
  <2> QED BY <2>7, <2>8, <2>9, <2>10
<1>12. CASE RecoverPgStands \/ RecoverNeedsReview \/ RecoverReplay \/ RecoverConflict
  <2>1. rec # Idle /\ rec.at = "redis"
    <3>1. rec.at = "redis"
      BY <1>12 DEF RecoverPgStands, RecoverNeedsReview, RecoverReplay, RecoverConflict
    <3> QED BY <3>1 DEF Idle
  <2>2. CASE RecoverPgStands
    <3>1. smooth' => UNCHANGED smooth
      BY <2>2 DEF RecoverPgStands
    <3> QED BY <1>11, <2>1, <2>2, <3>1 DEF RecoverPgStands
  <2>3. CASE RecoverNeedsReview
    BY <1>11, <2>1, <2>3 DEF RecoverNeedsReview
  <2>4. CASE RecoverReplay
    BY <1>11, <2>1, <2>4 DEF RecoverReplay, Store!Insert
  <2>5. CASE RecoverConflict
    BY <1>11, <2>1, <2>5 DEF RecoverConflict
  <2> QED BY <1>12, <2>2, <2>3, <2>4, <2>5
<1>13. CASE RewriteKey \/ RewritePointer
  <2>1. PICK v, p : v = rec.thread /\ p = rec.pg
    OBVIOUS
  <2>2. /\ rec # Idle /\ rec.at # "redis"
        /\ UNCHANGED <<phase, smooth, owner, near, todo, redisUp, buffer, rows>>
    <3>1. rec.at \in {"key", "pointer"}
      BY <1>13 DEF RewriteKey, RewritePointer
    <3>2. rec # Idle /\ rec.at # "redis"
      BY <3>1 DEF Idle
    <3> QED BY <1>13, <3>2 DEF RewriteKey, RewritePointer
  <2>3. v \in Threads /\ p # 0 /\ p \in Of(v) /\ \A t \in Threads \ {v} : p \notin Of(t)
    BY <2>1, <2>2, RecOwned DEF RecInv, Of, Store!Of
  <2>4. CASE RewriteKey
    <3>1. rec' # Idle /\ rec'.thread = v
      <4>1. rec' = [at |-> "pointer", thread |-> rec.thread, pg |-> rec.pg, pgFailed |-> rec.pgFailed]
        BY <2>2, <2>4, RecOwned DEF RewriteKey
      <4> QED BY <2>1, <4>1 DEF Idle
    <3>2. keys' = keys \cup {p} /\ damaged' = damaged \ {p} /\ latest' = latest
      BY <2>1, <2>4 DEF RewriteKey
    <3>3. ASSUME NEW t \in Threads \ {v} PROVE keys' \cap Of(t) \subseteq keys /\ damaged \cap Of(t) \subseteq damaged'
      BY <2>3, <3>2
    <3> QED BY <1>10, <2>1, <2>2, <2>3, <3>1, <3>2, <3>3
  <2>5. CASE RewritePointer
    <3>1. latest' = [latest EXCEPT ![v] = p] /\ UNCHANGED <<keys, damaged>> /\ rec' = Idle
      BY <2>1, <2>5 DEF RewritePointer
    <3>2. latest'[v] = p /\ \A t \in Threads \ {v} : latest'[t] = latest[t]
      BY <2>3, <3>1 DEF TypeOK
    <3>3. PgGet(v)' = p
      <4>1. PgGet(v)' = Answer(buffer \cap Of(v), rows \cap Of(v))
        BY <2>2, AnswerOwned
      <4> QED BY <2>1, <2>2, <2>3, <4>1, PgAnswers, RecIsPg
    <3>4. Reaches(p, p)'
      <4>1. owner[p] = v /\ p \in Puts /\ p <= p
        BY <2>3, Numbers DEF Of, Store!Of
      <4> QED BY <2>2, <4>1, ReachesOlder, ReachesKept
    <3>5. RedisGet(v)' \in {0, p}
      BY <3>2 DEF RedisGet
    <3>6. Reconciled(v)'
      BY <3>3, <3>4, <3>5 DEF Reconciled
    <3> QED BY <1>10, <2>1, <2>2, <2>3, <3>1, <3>2, <3>6
  <2> QED BY <1>13, <2>4, <2>5
<1>14. CASE UNCHANGED vars
  <2>1. UNCHANGED <<owner, near, keys, latest, damaged, buffer, rows, phase, smooth, todo, redisUp, rec>>
    BY <1>14 DEF vars
  <2> QED BY <1>1, <1>2, <2>1
<1> QED
  BY <1>3, <1>4, <1>5, <1>6, <1>7, <1>8, <1>9, <1>12, <1>13, <1>14 DEF Next


-----------------------------------------------------------------------------
(* The theorems.                                                           *)

(* The whole invariant, under every step. *)
LEMMA IInvStep == IInv /\ [Next]_vars => IInv'
<1> SUFFICES ASSUME IInv, [Next]_vars PROVE IInv'
  OBVIOUS
<1>1. LayersInv /\ HotInv
  BY DEF IInv
<1>2. TypeOK' /\ PhaseInv' /\ RecInv' /\ (\A t \in Threads : PutInv(t)' /\ BufferInv(t)')
  BY <1>1, TypeStep, PhaseStep, RecStep, PutStep, BufferStep
<1>3. HotInv' /\ ReconciledInv'
  BY <1>1, <1>2, HotStep, ReconciledStep
<1> QED BY <1>2, <1>3 DEF IInv, LayersInv

(* The invariant of the layers, in every reachable state. *)
THEOREM LayersAgree == Spec => []IInv
BY CompositeInit, IInvStep, PTL DEF Spec

(* Every variable keeps its type: a pointer of Redis names a checkpoint of its
   own thread, and PostgreSQL answers only for what it holds. *)
THEOREM CompositeTypeCorrect == Spec => []TypeOK
<1>1. IInv => TypeOK
  BY DEF IInv, LayersInv
<1> QED BY <1>1, LayersAgree, PTL

(* What reaches a checkpoint answers a read for it. *)
LEMMA ReachesAnswers ==
  ASSUME TypeOK, NEW i \in Puts, NEW p \in Puts, Reaches(p, i)
  PROVE  p >= i \/ (p # 0 /\ SameInstant(p, i))
<1>1. Puts \subseteq Int /\ p # 0 /\ \A t : Of(t) \subseteq Int
  BY Numbers DEF Reaches
<1>2. CASE p < i
  <2>1. ~ Newer(i, p)
    BY DEF Reaches, Newer
  <2>2. ~ Newer(p, i)
    BY <1>1, <1>2 DEF Newer
  <2> QED BY <1>1, <2>1, <2>2 DEF SameInstant
<1> QED BY <1>1, <1>2

(* ... as does PostgreSQL once something that it holds in the right place reaches it. *)
LEMMA PgReachesAnswers ==
  ASSUME TypeOK, NEW i \in Puts, PgReaches(owner[i], i)
  PROVE  PgGet(owner[i]) \in Puts /\ Reaches(PgGet(owner[i]), i)
<1> DEFINE B == buffer \cap Of(owner[i])
           R == rows \cap Of(owner[i])
<1>1. /\ Len(owner) \in Nat /\ Puts = 1..Len(owner)
      /\ B \in SUBSET (1..Len(owner)) /\ R \in SUBSET (1..Len(owner))
  BY Numbers
<1>2. PgGet(owner[i]) = IF B # {} THEN Newest(B) ELSE Newest(R)
  BY PgAnswers DEF Answer
<1>3. (\E p \in R : Reaches(p, i)) /\ (B # {} => \E p \in B : Reaches(p, i))
  BY DEF PgReaches
<1> HIDE DEF B, R
<1>4. ASSUME NEW S \in SUBSET (1..Len(owner)), NEW p \in S, Reaches(p, i)
      PROVE  Newest(S) \in Puts /\ Reaches(Newest(S), i)
  <2>1. Newest(S) \in S /\ p <= Newest(S)
    BY <1>1, <1>4, NewestIs
  <2> QED BY <1>1, <1>4, <2>1, ReachesUp
<1> QED BY <1>1, <1>2, <1>3, <1>4

(* A checkpoint Redis accepted whole is what a reader of the thread finds, until
   a newer one replaces it: whatever fails, crashes, expires or is recovered. *)
THEOREM AcceptedIsReadable == Spec => []HotReadable
<1>1. IInv => HotReadable
  <2> SUFFICES ASSUME IInv, NEW i \in hot
               PROVE  Read(owner[i]) >= i \/ (Read(owner[i]) # 0 /\ SameInstant(Read(owner[i]), i))
    BY DEF HotReadable
  <2>1. TypeOK /\ i \in Puts /\ owner[i] \in Threads /\ i \in hot \cap Of(owner[i])
    BY Numbers DEF IInv, LayersInv, TypeOK
  <2>2. /\ Reaches(latest[owner[i]], i)
        /\ IF Behind(owner[i]) THEN PgReaches(owner[i], i) ELSE latest[owner[i]] \in keys
    BY <2>1 DEF IInv, HotInv, HotThread
  <2>3. Read(owner[i]) \in Puts /\ Reaches(Read(owner[i]), i)
    <3>1. CASE latest[owner[i]] \in keys
      <4>1. Read(owner[i]) = latest[owner[i]] /\ latest[owner[i]] \in Puts
        BY <2>1, <2>2, <3>1 DEF Read, RedisGet, Reaches, TypeOK
      <4> QED BY <2>2, <4>1
    <3>2. CASE latest[owner[i]] \notin keys
      <4>1. Read(owner[i]) = PgGet(owner[i])
        BY <3>2 DEF Read, RedisGet
      <4> QED BY <2>1, <2>2, <3>2, <4>1, PgReachesAnswers
    <3> QED BY <3>1, <3>2
  <2> QED BY <2>1, <2>3, ReachesAnswers
<1> QED BY <1>1, LayersAgree, PTL

(* PostgreSQL's reads prefer the buffer, and it never hides a newer row, unless
   recovery replayed a thread whose rows it could not read. *)
THEOREM BufferIsNewest == Spec => []BufferHidesNoRow
<1>1. IInv => BufferHidesNoRow
  <2> SUFFICES ASSUME IInv, NEW t \in Threads, blind \cap Of(t) = {}
               PROVE  PgGet(t) >= Newest(rows \cap Of(t))
    BY DEF BufferHidesNoRow
  <2> DEFINE B == buffer \cap Of(t)
             R == rows \cap Of(t)
  <2>1. Len(owner) \in Nat /\ B \in SUBSET (1..Len(owner)) /\ R \in SUBSET (1..Len(owner))
    BY Numbers DEF IInv, LayersInv
  <2>2. PgGet(t) = IF B # {} THEN Newest(B) ELSE Newest(R)
    BY PgAnswers DEF Answer
  <2>3. B # {} => \A i \in R : \E j \in B : i <= j
    BY DEF IInv, LayersInv, BufferInv
  <2> SUFFICES PgGet(t) >= Newest(R)
    OBVIOUS
  <2> HIDE DEF B, R
  <2>4. /\ Newest(R) \in R \cup {0}
        /\ B # {} => Newest(B) \in B /\ \A j \in B : j <= Newest(B)
    BY <2>1, NewestIs, NewestOfNone
  <2>5. Newest(R) \in Int /\ \A j \in B : j \in Int /\ 1 <= j
    <3>1. \A j \in 1..Len(owner) : j \in Int /\ 1 <= j
      BY <2>1
    <3>2. \A j \in R : j \in Int
      BY <2>1, <3>1
    <3>3. 0 \in Int
      OBVIOUS
    <3> QED BY <2>1, <2>4, <3>1, <3>2, <3>3
  <2>6. CASE B = {}
    BY <2>2, <2>5, <2>6
  <2>7. CASE B # {}
    <3>1. CASE Newest(R) = 0
      BY <2>2, <2>4, <2>5, <2>7, <3>1
    <3>2. CASE Newest(R) \in R
      <4>1. PICK j \in B : Newest(R) <= j
        BY <2>3, <2>7, <3>2
      <4>2. j <= Newest(B) /\ j \in Int /\ Newest(B) \in Int
        BY <2>4, <2>5, <2>7
      <4> QED BY <2>2, <2>5, <2>7, <4>1, <4>2
    <3> QED BY <2>4, <3>1, <3>2
  <2> QED BY <2>6, <2>7
<1> QED BY <1>1, LayersAgree, PTL

(* A recovery that met no failure leaves PostgreSQL at least as new as Redis for
   every thread whose Redis copy is sound. *)
THEOREM RecoveryLeavesNoDelta == Spec => RecoveryReconciles
<1> DEFINE Done == \A t \in Threads : LET r == RedisGet(t) IN
                     \/ r = 0 \/ r \in damaged \/ r <= PgGet(t)
                     \/ PgGet(t) # 0 /\ SameInstant(r, PgGet(t))
<1>1. ASSUME IInv, [Next]_vars PROVE [phase = "recovering" /\ phase' = "up" /\ smooth' => Done]_vars
  <2> SUFFICES ASSUME Next, phase = "recovering", phase' = "up", smooth', NEW t \in Threads, 
                      RedisGet(t) # 0, RedisGet(t) \notin damaged
               PROVE  RedisGet(t) <= PgGet(t) \/ (PgGet(t) # 0 /\ SameInstant(RedisGet(t), PgGet(t)))
    BY <1>1
  <2>1. TypeOK
    BY <1>1 DEF IInv, LayersInv
  <2>2. Serve
    BY DEF Next, Begin, PutKey, PutPointer, PutRedisFails, PutBuffer, PutCancelled, PutUnchanged,
           BeginDelete, DeleteKey, ScanEnds, DeletePointer, DeleteRedisFails, DeleteRows, DeleteRowsFails, DelUnchanged,
           Expire, RecoverReadPg, Damage, Flush, Still, Crash, Collect, RecoverPgStands, RecoverNeedsReview,
           RecoverReplay, RecoverConflict, RewriteKey, RewritePointer, RewriteFails
  <2>3. Reconciled(t)
    BY <1>1, <2>2 DEF Serve, IInv, ReconciledInv
  <2>4. RedisGet(t) \in Puts /\ PgGet(t) \in Puts /\ Reaches(PgGet(t), RedisGet(t)) /\ Puts \subseteq Int
    BY <2>1, <2>3, RedisOwned, PgOwned, Numbers DEF Reconciled, Reaches
  <2>5. PgGet(t) >= RedisGet(t) \/ (PgGet(t) # 0 /\ SameInstant(PgGet(t), RedisGet(t)))
    BY <2>1, <2>4, ReachesAnswers
  <2> QED BY <2>4, <2>5 DEF SameInstant
<1> QED BY <1>1, LayersAgree, PTL DEF Spec, RecoveryReconciles
=============================================================================
