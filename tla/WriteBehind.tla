---------------------------- MODULE WriteBehind ----------------------------
(***************************************************************************)
(* What PostgresCheckpointer promises to the code above it: a store that   *)
(* accepts checkpoints into memory and persists them later.  A checkpoint  *)
(* leaves memory only when it is in the table, and a thread's checkpoints  *)
(* reach the table, and leave memory, oldest first.  No word about locks,  *)
(* batches, tasks, backpressure or failures: PostgresCheckpointer          *)
(* implements this module, and CompositeCheckpointer is built on it.       *)
(***************************************************************************)
EXTENDS Integers, Sequences

CONSTANT Threads

VARIABLES
  owner,      \* owner[i] is the thread of checkpoint i; a thread's run in order
  buffer,     \* the checkpoints in memory
  rows,       \* the checkpoints in the table
  live        \* the checkpoints it still answers for

vars == <<owner, buffer, rows, live>>

Puts == DOMAIN owner
Of(t) == {i \in Puts : owner[i] = t}

(* What a read answers: the newest in memory, else the newest row, else 0. *)
Latest(S) == IF S = {} THEN 0 ELSE CHOOSE i \in S : \A j \in S : j <= i
Aget(t) == IF buffer \cap Of(t) # {} THEN Latest(buffer \cap Of(t))
                                     ELSE Latest(rows \cap Of(t))

-----------------------------------------------------------------------------
(* A known checkpoint is taken into memory. *)
Insert(i) ==
  /\ buffer' = buffer \cup {i}
  /\ live' = live \cup {i}
  /\ UNCHANGED <<owner, rows>>

(* A new checkpoint is taken into memory. *)
Put(t) ==
  /\ owner' = Append(owner, t)
  /\ buffer' = buffer \cup {Len(owner) + 1}
  /\ live' = live \cup {Len(owner) + 1}
  /\ UNCHANGED rows

(* A statement commits S: checkpoints of the buffer, or some a delete dropped
   meanwhile, and of each thread the oldest first. *)
Persist(S) ==
  /\ S \subseteq buffer \cup (Puts \ live)
  /\ \A i \in S, j \in buffer : j < i /\ owner[i] = owner[j] => j \in S \cup rows
  /\ rows' = rows \cup S
  /\ UNCHANGED <<owner, buffer, live>>

(* Memory lets go of checkpoints that are persisted, again the oldest first, so
   that what is left of a thread is its newest. *)
Clean(S) ==
  /\ S \cap live \subseteq rows
  /\ \A i \in S, j \in buffer \ S : owner[i] = owner[j] => i < j
  /\ buffer' = buffer \ S
  /\ UNCHANGED <<owner, rows, live>>

(* A delete of the thread: first from memory, then from the table. *)
Drop(t) ==
  /\ buffer' = buffer \ Of(t)
  /\ live' = live \ Of(t)
  /\ UNCHANGED <<owner, rows>>

DropRows(t) ==
  /\ rows' = rows \ Of(t)
  /\ live' = live \ Of(t)
  /\ UNCHANGED <<owner, buffer>>

-----------------------------------------------------------------------------
Init == owner = <<>> /\ buffer = {} /\ rows = {} /\ live = {}

Next ==
  \/ \E i \in Puts : Insert(i)
  \/ \E t \in Threads : Put(t) \/ Drop(t) \/ DropRows(t)
  \/ \E S \in SUBSET Puts : Persist(S) \/ Clean(S)

Spec == Init /\ [][Next]_vars

=============================================================================
