------------------------- MODULE EventWritersProofs -------------------------
(***************************************************************************)
(* Proofs about EventWriters, for any listeners, access logs, batch size   *)
(* and number of failures.  IInv is inductive: it adds to the types where  *)
(* each task may stand, what the ingestor has done at each of its awaits,  *)
(* and who is still able to write at each stage of the shutdown.           *)
(***************************************************************************)
EXTENDS EventWriters, WellFoundedInduction, TLAPS

-----------------------------------------------------------------------------
(* Where each task may stand. *)
Allowed(t) ==
  CASE t = "loop"     -> {"sleeping", "flushing", "dead", "cut"}
    [] t = "ingestor" -> {"sleeping", "getting", "encrypting", "flushing", "cut"}
    [] t = "close"    -> {"open", "flushing", "closed", "failed", "raised"}
    [] OTHER          -> Ended \cup {"idle", "encrypting", "flushing"}

Positions == \A t \in Tasks : pc[t] \in Allowed(t)

(* The task can still do something. *)
Active == {"idle", "encrypting", "flushing", "sleeping", "getting"}

(* What the ingestor has done: it is in a log while it reads or writes, and the
   lines before the one at hand, in a flush that one too, are in the buffer. *)
Ingesting ==
  /\ pc["ingestor"] \in {"getting", "encrypting", "flushing"} => todo # {}
  /\ pc["ingestor"] \in {"encrypting", "flushing"} =>
       line \in 1..Lines[Key] /\ \A i \in 1..(line - 1) : <<Key, i>> \in taken
  /\ pc["ingestor"] = "flushing" => <<Key, line>> \in taken
  /\ stream = "operational" =>
       /\ pc["ingestor"] \in {"sleeping", "cut"}
       /\ \A k \in Objects : objects[k] = "none"

(* Who may still act at each stage of the shutdown. *)
Stages ==
  /\ stage \in {"ingestor", "close"} =>
       pc["ingestor"] = "cut" /\ \A l \in Listeners : pc[l] \in Ended
  /\ stage = "close" => pc["loop"] \in {"cut", "dead"}
  /\ stage # "close" => pc["close"] = "open"
  /\ pc["close"] \in {"flushing", "closed", "raised"} => buffer = <<>>

IInv == TypeOK /\ Positions /\ Ingesting /\ Stages /\ MarkerCovers

Places == Ended \cup {"idle", "encrypting", "flushing", "sleeping", "dead",
                      "getting", "open", "closed", "failed"}

-----------------------------------------------------------------------------
(* Lemmas about the operators.                                             *)

(* The log at hand is one of those to read. *)
LEMMA KeyInTodo ==
  ASSUME todo \subseteq Objects, todo # {}
  PROVE  Key \in todo /\ Key \in Objects /\ Key \in Nat \ {0}
<1>1. Objects \subseteq Nat \ {0}
  BY StreamsAssumption DEF Objects
<1>2. PICK k \in todo : \A j \in todo : ~ (<<j, k>> \in OpToRel(<, Nat))
  BY <1>1, todo \subseteq Nat, NatLessThanWellFounded, WFMin
<1>3. ASSUME NEW j \in todo PROVE k <= j
  <2>1. ~ (j < k)
    BY <1>1, <1>2, j \in Nat, k \in Nat DEF OpToRel
  <2> QED BY <1>1, <2>1, j \in Nat, k \in Nat
<1> QED BY <1>1, <1>3 DEF Key

(* The tasks are told apart. *)
LEMMA TasksDiffer ==
  /\ "loop" \in Tasks /\ "ingestor" \in Tasks /\ "close" \in Tasks
  /\ \A l \in Listeners : l \in Tasks /\ l # "loop" /\ l # "ingestor" /\ l # "close"
BY StreamsAssumption DEF Tasks

(* Where a task is after its write or flush, and what it leaves alone. *)
LEMMA IngestMoves ==
  ASSUME TypeOK, todo # {}, NEW i \in Nat, Ingest(i)
  PROVE  /\ pc' = [pc EXCEPT !["ingestor"] = pc'["ingestor"]]
         /\ pc'["ingestor"] \in {"sleeping", "getting", "encrypting"}
         /\ todo' \subseteq Objects /\ line' \in Nat /\ marker' \in Objects \cup {0}
         /\ pc'["ingestor"] = "getting" => todo' # {}
         /\ pc'["ingestor"] = "encrypting" =>
              todo' = todo /\ marker' = marker /\ line' = i /\ i <= Lines[Key]
         /\ pc'["ingestor"] # "encrypting" => marker' = Key /\ ~ (i <= Lines[Key])
<1>1. Key \in todo /\ Key \in Objects
  BY KeyInTodo DEF TypeOK
<1> QED BY <1>1, TasksDiffer DEF Ingest, Goto, TypeOK

LEMMA ReturnMoves ==
  ASSUME IInv, NEW t \in Tasks, Return(t),
         t = "ingestor" => pc[t] \in {"encrypting", "flushing"}
  PROVE  /\ pc' = [pc EXCEPT ![t] = pc'[t]]
         /\ t # "ingestor" => pc'[t] = Rest(t) /\ UNCHANGED <<todo, line, marker>>
         /\ t = "ingestor" => Ingest(line + 1) /\ todo # {}
         /\ t = "ingestor" => pc'[t] \in {"sleeping", "getting", "encrypting"}
         /\ objects' = objects
         /\ todo' \subseteq Objects /\ line' \in Nat /\ marker' \in Objects \cup {0}
<1>1. CASE t = "ingestor"
  BY <1>1, IngestMoves, line + 1 \in Nat DEF Return, IInv, Ingesting, TypeOK
<1>2. CASE t # "ingestor"
  BY <1>2 DEF Return, Goto, IInv, TypeOK
<1> QED BY <1>1, <1>2

LEMMA RaiseMoves ==
  ASSUME IInv, NEW t \in Tasks, Raise(t)
  PROVE  /\ pc' = [pc EXCEPT ![t] = pc'[t]]
         /\ t = "ingestor" => pc'[t] = "sleeping"
         /\ t = "loop" => pc'[t] = "dead"
         /\ t \notin {"ingestor", "loop"} => pc'[t] = "raised"
         /\ objects' = objects /\ marker' = marker
         /\ t # "ingestor" => UNCHANGED <<todo, line>>
         /\ todo' \subseteq Objects /\ line' \in Nat
<1>1. CASE t = "ingestor"
  BY <1>1 DEF Raise, Goto, IInv, TypeOK
<1>2. CASE t = "loop"
  BY <1>2 DEF Raise, Goto, IInv, TypeOK
<1>3. CASE t \notin {"ingestor", "loop"}
  BY <1>3 DEF Raise, Goto, IInv, TypeOK
<1> QED BY <1>1, <1>2, <1>3

(* What sequences of records hold. *)
LEMMA BatchFacts ==
  ASSUME NEW s \in Seq(Records)
  PROVE  /\ Elements(s) \subseteq Records
         /\ s # <<>> => /\ Head(s) \in Records /\ Head(s) \in Elements(s)
                        /\ Tail(s) \in Seq(Records)
                        /\ Tail(s) = <<>> <=> Len(s) = 1
<1>1. Elements(s) \subseteq Records
  BY DEF Elements
<1>2. ASSUME s # <<>> PROVE Head(s) \in Records /\ Head(s) \in Elements(s)
  BY <1>2, 1 \in DOMAIN s, Head(s) = s[1] DEF Elements
<1>3. ASSUME s # <<>> PROVE Tail(s) \in Seq(Records) /\ Len(Tail(s)) = Len(s) - 1
  BY <1>3
<1>4. ASSUME s # <<>> PROVE Tail(s) = <<>> <=> Len(s) = 1
  <2>1. \A q \in Seq(Records) : q = <<>> <=> Len(q) = 0
    OBVIOUS
  <2>2. Tail(s) = <<>> <=> Len(Tail(s)) = 0
    BY <1>3, <1>4, <2>1
  <2>3. Len(s) \in Nat
    OBVIOUS
  <2> QED BY <1>3, <1>4, <2>2, <2>3
<1> QED BY <1>1, <1>2, <1>3, <1>4

-----------------------------------------------------------------------------
(* Steps of one task.                                                      *)

(* Task t moves to p and has b in flight: types, positions and stages hold on
   if what it wrote has its type and close leaves the buffer alone. *)
LEMMA TaskStep ==
  ASSUME IInv, NEW t \in Tasks, NEW p \in Allowed(t), NEW b \in Seq(Records),
         pc[t] \in Active, pc' = [pc EXCEPT ![t] = p],
         batch' = [batch EXCEPT ![t] = b], b # <<>> <=> p = "flushing",
         stage' = stage, stream' = stream,
         buffer' \in Seq(Records), stored' \subseteq Records, taken' \subseteq Records,
         faults' \in 0..MaxFaults, objects' = objects, todo' \subseteq Objects,
         line' \in Nat, marker' \in Objects \cup {0},
         t = "close" => p # "open" /\ (buffer' = buffer \/ p = "failed")
  PROVE  TypeOK' /\ Positions' /\ Stages'
<1>1. p \in Places
  BY DEF Allowed, Places, Ended
<1>2. TypeOK'
  BY <1>1 DEF IInv, TypeOK, Places
<1>3. Positions'
  BY DEF IInv, Positions, TypeOK
<1>4. pc'[t] = p /\ \A u \in Tasks : u # t => pc'[u] = pc[u]
  BY DEF IInv, TypeOK
<1>5. CASE t = "close"
  <2>1. pc["close"] = "flushing" /\ p \in {"flushing", "closed", "failed", "raised"}
    BY <1>5 DEF IInv, Positions, Allowed, Active
  <2>2. stage = "close" /\ buffer = <<>>
    BY <2>1 DEF IInv, Stages
  <2> QED BY <1>2, <1>3, <1>4, <1>5, <2>1, <2>2, TasksDiffer DEF IInv, Stages
<1>6. CASE t = "loop"
  <2>1. stage # "close" /\ pc["close"] = "open"
    BY <1>6 DEF IInv, Stages, Active
  <2> QED BY <1>2, <1>3, <1>4, <1>6, <2>1, TasksDiffer DEF IInv, Stages
<1>7. CASE t \notin {"close", "loop"}
  <2>1. stage \notin {"ingestor", "close"} /\ pc["close"] = "open"
    BY <1>7 DEF IInv, Stages, Active, Ended, Tasks
  <2> QED BY <1>2, <1>3, <1>4, <1>7, <2>1, TasksDiffer DEF Stages
<1> QED BY <1>5, <1>6, <1>7

(* The ingestor's part holds on in a step of any other task, *)
LEMMA OtherStep ==
  ASSUME IInv, pc'["ingestor"] = pc["ingestor"],
         UNCHANGED <<objects, todo, line, marker, stream>>, taken \subseteq taken'
  PROVE  Ingesting' /\ MarkerCovers'
<1>1. Key' = Key
  BY DEF Key
<1> QED BY <1>1 DEF IInv, Ingesting, MarkerCovers

(* when the ingestor goes back to sleep or ends, *)
LEMMA IngestorRests ==
  ASSUME IInv, pc'["ingestor"] \in {"sleeping", "cut"},
         UNCHANGED <<objects, marker, stream, taken>>
  PROVE  Ingesting' /\ MarkerCovers'
BY DEF IInv, Ingesting, MarkerCovers

(* and when its write returns. *)
LEMMA IngestorReturns ==
  ASSUME IInv, Return("ingestor"), pc["ingestor"] \in {"encrypting", "flushing"},
         stream' = stream, taken \subseteq taken', <<Key, line>> \in taken'
  PROVE  Ingesting' /\ MarkerCovers'
<1>1. /\ Ingest(line + 1) /\ todo # {} /\ objects' = objects
      /\ pc'["ingestor"] \in {"sleeping", "getting", "encrypting"}
  BY ReturnMoves, TasksDiffer
<1>2. stream # "operational" /\ line \in 1..Lines[Key] /\ line + 1 \in Nat
      /\ \A i \in 1..line : <<Key, i>> \in taken'
  BY DEF IInv, Ingesting, TypeOK
<1>3. CASE pc'["ingestor"] = "encrypting"
  <2>1. todo' = todo /\ marker' = marker /\ line' = line + 1 /\ line + 1 <= Lines[Key]
    BY <1>1, <1>2, <1>3, IngestMoves DEF IInv
  <2>2. Key' = Key /\ Key \in Objects
    BY <1>1, <2>1, KeyInTodo DEF Key, IInv, TypeOK
  <2>3. Lines[Key] \in Nat
    BY <2>2, StreamsAssumption DEF Objects
  <2>4. Ingesting'
    BY <1>1, <1>2, <1>3, <2>1, <2>2, <2>3 DEF Ingesting
  <2> QED BY <2>1, <2>4 DEF IInv, MarkerCovers
<1>4. CASE pc'["ingestor"] # "encrypting"
  <2>1. marker' = Key /\ ~ (line + 1 <= Lines[Key])
        /\ (pc'["ingestor"] = "getting" => todo' # {})
    BY <1>1, <1>2, <1>4, IngestMoves DEF IInv
  <2>2. Key \in Objects /\ Lines[Key] \in Nat /\ line \in Nat
    <3>1. Key \in Objects /\ line \in Nat
      BY <1>1, KeyInTodo DEF IInv, TypeOK
    <3> QED BY <3>1, StreamsAssumption DEF Objects
  <2>3. 1..Lines[Key] \subseteq 1..line
    BY <2>1, <2>2
  <2>4. MarkerCovers'
    BY <1>2, <2>1, <2>3 DEF MarkerCovers
  <2> QED BY <1>1, <1>2, <1>4, <2>1, <2>4 DEF Ingesting
<1> QED BY <1>3, <1>4

-----------------------------------------------------------------------------
(* IInv is inductive.                                                      *)

LEMMA IInvInit == Init => IInv
<1> SUFFICES ASSUME Init PROVE IInv
  OBVIOUS
<1>1. TypeOK
  <2>1. batch \in [Tasks -> Seq(Records)] /\ \A t \in Tasks : batch[t] = <<>>
    BY DEF Init
  <2>2. \A t \in Tasks : pc[t] \in {"idle", "open", "sleeping"}
    BY DEF Init
  <2>3. pc \in [Tasks -> Places]
    BY <2>2 DEF Init, Places
  <2>4. buffer \in Seq(Records) /\ faults \in 0..MaxFaults /\ line \in Nat
    BY StreamsAssumption DEF Init
  <2> QED BY <2>1, <2>2, <2>3, <2>4 DEF Init, TypeOK, Places
<1>2. Positions
  BY TasksDiffer DEF Init, Positions, Allowed, Tasks
<1>3. Ingesting
  BY TasksDiffer DEF Init, Ingesting
<1>4. Stages
  BY TasksDiffer DEF Init, Stages
<1>5. MarkerCovers
  BY StreamsAssumption DEF Init, MarkerCovers, Objects
<1> QED BY <1>1, <1>2, <1>3, <1>4, <1>5 DEF IInv

(* An event enters the buffer, which may start a flush. *)
LEMMA AppendStep ==
  ASSUME IInv, NEW t \in Tasks, NEW r \in Records, Append1(t, r),
         pc[t] \in {"idle", "encrypting"}, t \notin {"loop", "close"},
         t = "ingestor" => pc[t] = "encrypting" /\ r = <<Key, line>>
  PROVE  IInv'
<1> DEFINE buf == Append(buffer, r)
<1>1. /\ buf \in Seq(Records) /\ buf # <<>> /\ batch[t] = <<>>
      /\ taken' = IF t = "ingestor" THEN taken \cup {r} ELSE taken
      /\ UNCHANGED <<stream, stage, stored, faults>>
  <2>1. buffer \in Seq(Records)
    BY DEF IInv, TypeOK
  <2>2. buf \in Seq(Records) /\ Len(buf) = Len(buffer) + 1 /\ Len(buffer) \in Nat
    BY <2>1
  <2>3. buf # <<>>
    BY <2>2
  <2> QED BY <2>2, <2>3 DEF Append1, IInv, TypeOK
<1>2. taken \subseteq taken' /\ taken' \subseteq Records /\ pc[t] \in Active
  BY <1>1 DEF IInv, TypeOK, Active
<1>3. CASE FlushNow(buf)
  <2>1. /\ buffer' = <<>> /\ batch' = [batch EXCEPT ![t] = buf]
        /\ pc' = [pc EXCEPT ![t] = "flushing"]
        /\ objects' = objects /\ todo' = todo /\ line' = line /\ marker' = marker
    BY <1>3 DEF Append1, Goto, ingestVars
  <2>2. "flushing" \in Allowed(t)
    BY DEF Allowed
  <2>3. TypeOK' /\ Positions' /\ Stages'
    <3>1. /\ buffer' \in Seq(Records) /\ stored' \subseteq Records
          /\ faults' \in 0..MaxFaults /\ todo' \subseteq Objects
          /\ line' \in Nat /\ marker' \in Objects \cup {0}
      BY <1>1, <2>1 DEF IInv, TypeOK
    <3> HIDE DEF buf
    <3> QED BY <1>1, <1>2, <2>1, <2>2, <3>1, TaskStep
  <2>4. CASE t = "ingestor"
    <3>1. Key' = Key /\ <<Key, line>> \in taken' /\ pc'["ingestor"] = "flushing"
      BY <1>1, <2>1, <2>4 DEF Key, IInv, TypeOK
    <3> QED BY <1>1, <1>2, <2>1, <2>3, <2>4, <3>1
            DEF IInv, Ingesting, MarkerCovers
  <2>5. CASE t # "ingestor"
    <3>1. pc'["ingestor"] = pc["ingestor"]
      BY <2>1, <2>5, TasksDiffer DEF IInv, TypeOK
    <3> QED BY <1>1, <1>2, <2>1, <2>3, <3>1, OtherStep DEF IInv
  <2> QED BY <2>4, <2>5
<1>4. CASE ~ FlushNow(buf)
  <2>1. buffer' = buf /\ batch' = batch /\ Return(t)
    BY <1>4 DEF Append1
  <2>2. /\ pc' = [pc EXCEPT ![t] = pc'[t]] /\ objects' = objects
        /\ todo' \subseteq Objects /\ line' \in Nat /\ marker' \in Objects \cup {0}
    BY <2>1, ReturnMoves
  <2>3. pc'[t] \in Allowed(t) /\ pc'[t] # "flushing"
    BY <2>1, ReturnMoves DEF Allowed, Rest, Ended
  <2>4. batch' = [batch EXCEPT ![t] = <<>>]
    BY <1>1, <2>1 DEF IInv, TypeOK
  <2>5. TypeOK' /\ Positions' /\ Stages'
    BY <1>1, <1>2, <2>1, <2>2, <2>3, <2>4, TaskStep, <<>> \in Seq(Records) DEF IInv, TypeOK
  <2>6. CASE t = "ingestor"
    BY <1>1, <1>2, <2>1, <2>5, <2>6, IngestorReturns DEF IInv
  <2>7. CASE t # "ingestor"
    <3>1. pc'["ingestor"] = pc["ingestor"] /\ UNCHANGED <<todo, line, marker>>
      BY <2>1, <2>2, <2>7, ReturnMoves, TasksDiffer DEF IInv, TypeOK
    <3> QED BY <1>1, <1>2, <2>2, <2>5, <3>1, OtherStep DEF IInv
  <2> QED BY <2>6, <2>7
<1> QED BY <1>3, <1>4

(* A flush is done: its batch is out, or back in the buffer. *)
LEMMA FlushDone ==
  ASSUME IInv, NEW t \in Tasks, pc[t] = "flushing", Return(t),
         batch' = [batch EXCEPT ![t] = <<>>], stored' \subseteq Records,
         UNCHANGED <<stream, buffer, stage, faults, taken>>
  PROVE  IInv'
<1>1. /\ pc' = [pc EXCEPT ![t] = pc'[t]] /\ objects' = objects
      /\ todo' \subseteq Objects /\ line' \in Nat /\ marker' \in Objects \cup {0}
  BY ReturnMoves
<1>2. pc'[t] \in Allowed(t) /\ pc'[t] \notin {"flushing", "open"}
  BY ReturnMoves DEF Allowed, Rest, Ended
<1>3. TypeOK' /\ Positions' /\ Stages'
  BY <1>1, <1>2, TaskStep, <<>> \in Seq(Records) DEF IInv, TypeOK, Active
<1>4. CASE t = "ingestor"
  <2>1. <<Key, line>> \in taken
    BY <1>4 DEF IInv, Ingesting
  <2> QED BY <1>3, <1>4, <2>1, IngestorReturns DEF IInv
<1>5. CASE t # "ingestor"
  <2>1. pc'["ingestor"] = pc["ingestor"] /\ UNCHANGED <<todo, line, marker>>
    BY <1>1, <1>5, ReturnMoves, TasksDiffer DEF IInv, TypeOK
  <2> QED BY <1>1, <1>3, <2>1, OtherStep DEF IInv
<1> QED BY <1>4, <1>5

(* An error ends the write or the flush. *)
LEMMA RaiseStep ==
  ASSUME IInv, NEW t \in Tasks, pc[t] \in {"encrypting", "flushing"}, Raise(t),
         batch' = [batch EXCEPT ![t] = <<>>], stored' \subseteq Records,
         faults' \in 0..MaxFaults, UNCHANGED <<stream, buffer, stage, taken>>
  PROVE  IInv'
<1>1. /\ pc' = [pc EXCEPT ![t] = pc'[t]] /\ objects' = objects /\ marker' = marker
      /\ todo' \subseteq Objects /\ line' \in Nat
  BY RaiseMoves
<1>2. pc'[t] \in Allowed(t) /\ pc'[t] \notin {"flushing", "open"}
  BY RaiseMoves DEF Allowed, Ended
<1>3. TypeOK' /\ Positions' /\ Stages'
  BY <1>1, <1>2, TaskStep, <<>> \in Seq(Records) DEF IInv, TypeOK, Active
<1>4. CASE t = "ingestor"
  BY <1>1, <1>3, <1>4, RaiseMoves, IngestorRests DEF IInv
<1>5. CASE t # "ingestor"
  <2>1. pc'["ingestor"] = pc["ingestor"] /\ UNCHANGED <<todo, line>>
    BY <1>1, <1>5, RaiseMoves, TasksDiffer DEF IInv, TypeOK
  <2> QED BY <1>1, <1>3, <2>1, OtherStep DEF IInv
<1> QED BY <1>4, <1>5

(* What a cancelled task leaves behind. *)
LEMMA CutMoves ==
  ASSUME IInv, NEW t \in Tasks, t # "close", Cut(t)
  PROVE  /\ pc' = [pc EXCEPT ![t] = "cut"] /\ batch' = [batch EXCEPT ![t] = <<>>]
         /\ "cut" \in Allowed(t) /\ stored' \subseteq Records
         /\ UNCHANGED <<stream, buffer, objects, todo, line, marker, faults, taken>>
         /\ Ingesting' /\ MarkerCovers'
<1>1. /\ pc' = [pc EXCEPT ![t] = "cut"] /\ batch' = [batch EXCEPT ![t] = <<>>]
      /\ UNCHANGED <<stream, buffer, objects, todo, line, marker, faults, taken>>
  BY DEF Cut, Goto, ingestVars
<1>2. "cut" \in Allowed(t)
  BY DEF Allowed, Ended
<1>3. stored' \subseteq Records
  <2>1. stored \subseteq Records /\ batch[t] \in Seq(Records)
    BY DEF IInv, TypeOK
  <2> QED BY <2>1, BatchFacts DEF Cut
<1>4. CASE t = "ingestor"
  BY <1>1, <1>2, <1>3, <1>4, IngestorRests, TasksDiffer DEF IInv, TypeOK
<1>5. CASE t # "ingestor"
  <2>1. pc'["ingestor"] = pc["ingestor"]
    BY <1>1, <1>5, TasksDiffer DEF IInv, TypeOK
  <2> QED BY <1>1, <1>2, <1>3, <2>1, OtherStep
<1> QED BY <1>4, <1>5

LEMMA IInvStep == IInv /\ [Next]_vars => IInv'
<1> SUFFICES ASSUME IInv, [Next]_vars PROVE IInv'
  OBVIOUS
<1>0. /\ buffer \in Seq(Records) /\ <<>> \in Seq(Records) /\ stored \subseteq Records
      /\ taken \subseteq Records /\ faults \in 0..MaxFaults
      /\ todo \subseteq Objects /\ line \in Nat /\ marker \in Objects \cup {0}
      /\ \A t \in Tasks : pc[t] \in Allowed(t) /\ batch[t] \in Seq(Records)
      /\ \A t \in Tasks : batch[t] # <<>> <=> pc[t] = "flushing"
      /\ faults < MaxFaults => faults + 1 \in 0..MaxFaults
  BY StreamsAssumption DEF IInv, TypeOK, Positions
<1>1. ASSUME NEW l \in Listeners, WriteMasked(l) PROVE IInv'
  BY <1>1, AppendStep, TasksDiffer DEF WriteMasked, Records
<1>2. ASSUME NEW l \in Listeners, Encrypt(l) PROVE IInv'
  <2>1. /\ pc' = [pc EXCEPT ![l] = "encrypting"] /\ pc[l] \in Active
        /\ batch' = [batch EXCEPT ![l] = <<>>]
        /\ UNCHANGED <<stream, buffer, stage, stored, objects, todo, line, marker,
                       faults, taken>>
    BY <1>0, <1>2, TasksDiffer DEF Encrypt, Goto, Active, ingestVars, IInv, TypeOK
  <2>2. "encrypting" \in Allowed(l) /\ pc'["ingestor"] = pc["ingestor"]
    BY <2>1, TasksDiffer DEF Allowed, IInv, TypeOK
  <2>3. TypeOK' /\ Positions' /\ Stages'
    BY <1>0, <2>1, <2>2, TaskStep, TasksDiffer
  <2> QED BY <2>1, <2>2, <2>3, OtherStep DEF IInv
<1>3. ASSUME NEW t \in Tasks, Encrypted(t) PROVE IInv'
  <2>1. pc[t] = "encrypting" /\ t \notin {"loop", "close"}
    BY <1>0, <1>3 DEF Encrypted, Allowed
  <2>2. CASE t = "ingestor"
    <3>1. line \in 1..Lines[Key] /\ Key \in Objects
      BY <2>1, <2>2, KeyInTodo DEF IInv, Ingesting, TypeOK
    <3> QED BY <1>3, <2>1, <2>2, <3>1, AppendStep DEF Encrypted, Records
  <2>3. CASE t # "ingestor"
    BY <1>3, <2>1, <2>3, AppendStep DEF Encrypted, Records, Tasks
  <2> QED BY <2>2, <2>3
<1>4. ASSUME NEW t \in Tasks, EncryptFails(t) PROVE IInv'
  <2>1. batch' = [batch EXCEPT ![t] = <<>>]
    BY <1>0, <1>4 DEF EncryptFails, IInv, TypeOK
  <2> QED BY <1>0, <1>4, <2>1, RaiseStep DEF EncryptFails
<1>5. ASSUME NEW t \in Tasks, Sent(t) PROVE IInv'
  <2>1. stored' \subseteq Records
    BY <1>0, <1>5, BatchFacts DEF Sent
  <2> QED BY <1>5, <2>1, FlushDone DEF Sent
<1>6. ASSUME NEW t \in Tasks, SinkFails(t) PROVE IInv'
  <2>1. /\ pc[t] = "flushing" /\ t # "ingestor" /\ faults' \in 0..MaxFaults
        /\ pc' = [pc EXCEPT ![t] = Swallowed(t)] /\ batch' = [batch EXCEPT ![t] = <<>>]
        /\ UNCHANGED <<stream, stage, objects, todo, line, marker, taken>>
    BY <1>0, <1>6 DEF SinkFails, Goto, ingestVars, IInv, Ingesting
  <2>2. buffer' \in Seq(Records)
    BY <1>0, <1>6 DEF SinkFails, Requeue
  <2>3. stored' \subseteq Records
    BY <1>0, <1>6, BatchFacts DEF SinkFails
  <2>4. /\ Swallowed(t) \in Allowed(t) /\ Swallowed(t) # "flushing"
        /\ t = "close" => Swallowed(t) = "failed"
    BY <2>1 DEF Swallowed, Allowed, Rest, Ended
  <2>5. TypeOK' /\ Positions' /\ Stages'
    BY <1>0, <2>1, <2>2, <2>3, <2>4, TaskStep DEF Active
  <2>6. pc'["ingestor"] = pc["ingestor"]
    BY <2>1, TasksDiffer DEF IInv, TypeOK
  <2> QED BY <2>1, <2>5, <2>6, OtherStep DEF IInv
<1>7. ASSUME NEW t \in Tasks, Saved(t) PROVE IInv'
  <2>1. /\ batch[t] # <<>> /\ Head(batch[t]) \in Records /\ Tail(batch[t]) \in Seq(Records)
        /\ Tail(batch[t]) = <<>> <=> Len(batch[t]) = 1
    BY <1>0, <1>7, BatchFacts DEF Saved
  <2>2. stored' \subseteq Records
    BY <1>0, <1>7, <2>1 DEF Saved
  <2>3. CASE Len(batch[t]) = 1
    BY <1>7, <2>1, <2>2, <2>3, FlushDone DEF Saved, IInv, TypeOK
  <2>4. CASE Len(batch[t]) # 1
    <3>1. /\ pc[t] = "flushing" /\ pc' = [pc EXCEPT ![t] = "flushing"]
          /\ batch' = [batch EXCEPT ![t] = Tail(batch[t])]
          /\ pc' = pc
          /\ UNCHANGED <<stream, buffer, stage, objects, todo, line, marker, faults, taken>>
      BY <1>7, <2>4 DEF Saved, ingestVars, IInv, TypeOK
    <3>2. "flushing" \in Allowed(t)
      BY DEF Allowed
    <3>3. TypeOK' /\ Positions' /\ Stages'
      BY <1>0, <2>1, <2>2, <2>4, <3>1, <3>2, TaskStep DEF Active
    <3> QED BY <3>1, <3>3, OtherStep DEF IInv
  <2> QED BY <2>3, <2>4
<1>8. ASSUME NEW t \in Tasks, SaveFails(t) PROVE IInv'
  <2>1. stored' \subseteq Records
    BY <1>0, <1>8, BatchFacts DEF SaveFails
  <2> QED BY <1>0, <1>8, <2>1, RaiseStep DEF SaveFails
<1>9. ASSUME NEW l \in Listeners, Unsubscribe(l) PROVE IInv'
  <2>1. pc[l] \in Active /\ stage' = stage /\ Cut(l) /\ l \in Tasks /\ l # "close"
    BY <1>0, <1>9, TasksDiffer DEF Unsubscribe, Allowed, Active, Ended
  <2>2. TypeOK' /\ Positions' /\ Stages'
    BY <1>0, <2>1, CutMoves, TaskStep
  <2> QED BY <2>1, <2>2, CutMoves DEF IInv
<1>10. ASSUME NEW k \in Objects, Deliver(k) PROVE IInv'
  <2>1. /\ stream = "forensic" /\ objects' = [objects EXCEPT ![k] = "there"]
        /\ UNCHANGED <<stream, buffer, batch, pc, stage, stored, todo, line, marker,
                       faults, taken>> /\ Key' = Key
    BY <1>10 DEF Deliver, Key
  <2>2. TypeOK' /\ Positions'
    BY <2>1 DEF IInv, TypeOK, Positions
  <2>3. Ingesting'
    BY <2>1 DEF IInv, Ingesting
  <2> QED BY <2>1, <2>2, <2>3 DEF IInv, Stages, MarkerCovers
<1>11. ASSUME NEW k \in Objects, Expire(k) PROVE IInv'
  <2>1. /\ objects[k] = "there" /\ objects' = [objects EXCEPT ![k] = "gone"]
        /\ UNCHANGED <<stream, buffer, batch, pc, stage, stored, todo, line, marker,
                       faults, taken>> /\ Key' = Key
    BY <1>11 DEF Expire, Key
  <2>2. TypeOK' /\ Positions'
    BY <2>1 DEF IInv, TypeOK, Positions
  <2>3. Ingesting'
    BY <2>1 DEF IInv, Ingesting
  <2> QED BY <2>1, <2>2, <2>3 DEF IInv, Stages, MarkerCovers
<1>12. ASSUME Tick PROVE IInv'
  <2>1. /\ pc["loop"] = "sleeping" /\ pc' = [pc EXCEPT !["loop"] = "flushing"]
        /\ batch' = [batch EXCEPT !["loop"] = buffer] /\ buffer # <<>> /\ buffer' = <<>>
        /\ UNCHANGED <<stream, stage, stored, objects, todo, line, marker, faults, taken>>
    BY <1>12 DEF Tick, Swap, Goto, ingestVars
  <2>2. "flushing" \in Allowed("loop") /\ pc["loop"] \in Active
    BY <2>1 DEF Allowed, Active
  <2>3. TypeOK' /\ Positions' /\ Stages'
    BY <1>0, <2>1, <2>2, TaskStep, TasksDiffer
  <2>4. pc'["ingestor"] = pc["ingestor"]
    BY <2>1, TasksDiffer DEF IInv, TypeOK
  <2> QED BY <2>1, <2>3, <2>4, OtherStep DEF IInv
<1>13. ASSUME List PROVE IInv'
  <2>1. /\ pc["ingestor"] = "sleeping" /\ pc' = [pc EXCEPT !["ingestor"] = "getting"]
        /\ todo' = {k \in Objects : objects[k] = "there" /\ k > marker} /\ todo' # {}
        /\ batch' = batch /\ batch["ingestor"] = <<>>
        /\ UNCHANGED <<stream, buffer, stage, stored, objects, line, marker, faults, taken>>
    BY <1>0, <1>13, TasksDiffer DEF List, Goto
  <2>2. /\ batch' = [batch EXCEPT !["ingestor"] = <<>>] /\ todo' \subseteq Objects
        /\ "getting" \in Allowed("ingestor") /\ pc["ingestor"] \in Active
    BY <2>1, TasksDiffer DEF IInv, TypeOK, Allowed, Active
  <2>3. TypeOK' /\ Positions' /\ Stages'
    BY <1>0, <2>1, <2>2, TaskStep, TasksDiffer
  <2>4. stream # "operational" /\ pc'["ingestor"] = "getting"
    BY <2>1, TasksDiffer DEF IInv, Ingesting, TypeOK
  <2> QED BY <2>1, <2>3, <2>4 DEF IInv, Ingesting, MarkerCovers
<1>14. ASSUME Get PROVE IInv'
  <2>1. /\ pc["ingestor"] = "getting" /\ todo # {} /\ stream # "operational"
        /\ batch' = batch /\ batch["ingestor"] = <<>>
        /\ UNCHANGED <<stream, buffer, stage, stored, objects, faults, taken>>
    BY <1>0, <1>14, TasksDiffer DEF Get, IInv, Ingesting
  <2>2. batch' = [batch EXCEPT !["ingestor"] = <<>>] /\ pc["ingestor"] \in Active
    BY <2>1, TasksDiffer DEF IInv, TypeOK, Active
  <2>3. Key \in Objects /\ Lines[Key] \in Nat
    <3>1. Key \in Objects
      BY <1>0, <2>1, KeyInTodo
    <3> QED BY <3>1, StreamsAssumption DEF Objects
  <2>4. CASE objects[Key] = "there"
    <3>1. Ingest(1)
      BY <1>14, <2>4 DEF Get
    <3>2. /\ pc' = [pc EXCEPT !["ingestor"] = pc'["ingestor"]]
          /\ pc'["ingestor"] \in {"sleeping", "getting", "encrypting"}
          /\ todo' \subseteq Objects /\ line' \in Nat /\ marker' \in Objects \cup {0}
      BY <2>1, <3>1, IngestMoves DEF IInv
    <3>3. pc'["ingestor"] \in Allowed("ingestor")
      BY <3>2 DEF Allowed
    <3>4. TypeOK' /\ Positions' /\ Stages'
      BY <1>0, <2>1, <2>2, <3>2, <3>3, TaskStep, TasksDiffer
    <3>5. CASE pc'["ingestor"] = "encrypting"
      <4>1. todo' = todo /\ marker' = marker /\ line' = 1 /\ 1 <= Lines[Key]
        BY <2>1, <3>1, <3>5, IngestMoves DEF IInv
      <4>2. Key' = Key
        BY <4>1 DEF Key
      <4>3. Ingesting'
        BY <2>1, <2>3, <3>5, <4>1, <4>2 DEF Ingesting
      <4> QED BY <2>1, <3>4, <4>1, <4>3 DEF IInv, MarkerCovers
    <3>6. CASE pc'["ingestor"] # "encrypting"
      <4>1. marker' = Key /\ ~ (1 <= Lines[Key])
            /\ (pc'["ingestor"] = "getting" => todo' # {})
        BY <2>1, <3>1, <3>6, IngestMoves DEF IInv
      <4>2. MarkerCovers'
        BY <2>3, <4>1 DEF MarkerCovers
      <4>3. Ingesting'
        BY <2>1, <3>2, <3>6, <4>1 DEF Ingesting
      <4> QED BY <3>4, <4>2, <4>3 DEF IInv
    <3> QED BY <3>5, <3>6
  <2>5. CASE objects[Key] # "there"
    <3>1. /\ todo' = todo \ {Key} /\ UNCHANGED <<line, marker>>
          /\ pc' = [pc EXCEPT !["ingestor"] = IF todo' = {} THEN "sleeping" ELSE "getting"]
      BY <1>14, <2>5 DEF Get, Goto
    <3>2. (IF todo' = {} THEN "sleeping" ELSE "getting") \in Allowed("ingestor")
      BY DEF Allowed
    <3>3. TypeOK' /\ Positions' /\ Stages'
      BY <1>0, <2>1, <2>2, <3>1, <3>2, TaskStep, TasksDiffer
    <3>4. Ingesting' /\ MarkerCovers'
      BY <2>1, <3>1, TasksDiffer DEF IInv, TypeOK, Ingesting, MarkerCovers
    <3> QED BY <3>3, <3>4 DEF IInv
  <2> QED BY <2>4, <2>5
<1>15. ASSUME Shutdown PROVE IInv'
  <2>1. /\ stage = "up" /\ stage' = "listeners"
        /\ UNCHANGED <<stream, buffer, batch, pc, stored, objects, todo, line, marker,
                       faults, taken>> /\ Key' = Key
    BY <1>15 DEF Shutdown, ingestVars, Key
  <2> QED BY <2>1 DEF IInv, TypeOK, Positions, Ingesting, Stages, MarkerCovers
<1>16. ASSUME CloseIngestor PROVE IInv'
  <2>1. /\ stage = "listeners" /\ stage' = "ingestor" /\ Cut("ingestor")
        /\ \A l \in Listeners : pc[l] \in Ended
    BY <1>16 DEF CloseIngestor
  <2>2. /\ pc' = [pc EXCEPT !["ingestor"] = "cut"]
        /\ batch' = [batch EXCEPT !["ingestor"] = <<>>]
        /\ "cut" \in Allowed("ingestor") /\ stored' \subseteq Records
        /\ UNCHANGED <<stream, buffer, objects, todo, line, marker, faults, taken>>
        /\ Ingesting' /\ MarkerCovers'
    BY <2>1, CutMoves, TasksDiffer
  <2>3. TypeOK' /\ Positions'
    BY <1>0, <2>1, <2>2, TasksDiffer DEF IInv, TypeOK, Positions, Ended
  <2>4. Stages'
    BY <2>1, <2>2, TasksDiffer DEF IInv, TypeOK, Stages
  <2> QED BY <2>2, <2>3, <2>4 DEF IInv
<1>17. ASSUME Close PROVE IInv'
  <2>1. stage = "ingestor" /\ stage' = "close" /\ pc["close"] = "open"
        /\ pc["ingestor"] = "cut" /\ \A l \in Listeners : pc[l] \in Ended
    BY <1>17 DEF Close, WritersLast, IInv, Stages
  <2>2. CASE pc["loop"] = "dead"
    <3>1. /\ UNCHANGED <<stream, buffer, batch, pc, stored, objects, todo, line, marker,
                         faults, taken>> /\ Key' = Key
      BY <1>17, <2>2 DEF Close, ingestVars, Key
    <3> QED BY <2>1, <2>2, <3>1
            DEF IInv, TypeOK, Positions, Ingesting, Stages, MarkerCovers
  <2>3. CASE pc["loop"] # "dead"
    <3>1. /\ pc' = [pc EXCEPT !["loop"] = "cut"] /\ batch' = [batch EXCEPT !["loop"] = <<>>]
          /\ "cut" \in Allowed("loop") /\ stored' \subseteq Records
          /\ UNCHANGED <<stream, buffer, objects, todo, line, marker, faults, taken>>
          /\ Ingesting' /\ MarkerCovers'
      BY <1>17, <2>3, CutMoves, TasksDiffer DEF Close
    <3>2. TypeOK' /\ Positions'
      BY <1>0, <2>1, <3>1, TasksDiffer DEF IInv, TypeOK, Positions, Ended
    <3>3. Stages'
      BY <2>1, <3>1, TasksDiffer DEF IInv, TypeOK, Stages
    <3> QED BY <3>1, <3>2, <3>3 DEF IInv
  <2> QED BY <2>2, <2>3
<1>18. ASSUME FinalFlush PROVE IInv'
  <2> DEFINE p == IF buffer = <<>> THEN "closed" ELSE "flushing"
  <2>1. /\ stage = "close" /\ pc["close"] = "open" /\ pc' = [pc EXCEPT !["close"] = p]
        /\ batch' = [batch EXCEPT !["close"] = buffer] /\ buffer' = <<>>
        /\ UNCHANGED <<stream, stage, stored, objects, todo, line, marker, faults, taken>>
    BY <1>18 DEF FinalFlush, Closed, Swap, Goto, Rest, ingestVars
  <2>2. TypeOK'
    BY <1>0, <2>1, TasksDiffer DEF IInv, TypeOK, Ended
  <2>3. Positions'
    BY <1>0, <2>1, TasksDiffer DEF IInv, TypeOK, Positions, Allowed
  <2>4. Stages'
    BY <2>1, TasksDiffer DEF IInv, TypeOK, Stages
  <2>5. pc'["ingestor"] = pc["ingestor"]
    BY <2>1, TasksDiffer DEF IInv, TypeOK
  <2> QED BY <2>1, <2>2, <2>3, <2>4, <2>5, OtherStep DEF IInv
<1>19. CASE UNCHANGED vars
  <2>1. /\ UNCHANGED <<stream, buffer, batch, pc, stage, stored, objects, todo, line, marker,
                       faults, taken>> /\ Key' = Key
    BY <1>19 DEF vars, ingestVars, Key
  <2> QED BY <2>1 DEF IInv, TypeOK, Positions, Ingesting, Stages, MarkerCovers
<1> QED
  BY <1>1, <1>2, <1>3, <1>4, <1>5, <1>6, <1>7, <1>8, <1>9, <1>10, <1>11, <1>12, <1>13,
     <1>14, <1>15, <1>16, <1>17, <1>18, <1>19 DEF Next, SinkReturns

LEMMA InvariantHolds == Spec => []IInv
<1> QED BY IInvInit, IInvStep, PTL DEF Spec

-----------------------------------------------------------------------------
(* The variables keep their types, and only a task in a flush holds a batch:
   each flush owns what it swapped out. *)
THEOREM TypeCorrect == Spec => []TypeOK
<1>1. IInv => TypeOK
  BY DEF IInv
<1> QED BY <1>1, InvariantHolds, PTL

(* After a shutdown whose last flush did not fail, no event is left behind: the
   order of _shutdown lets nobody write after the final flush. *)
THEOREM ShutdownLeavesNothing == Spec => []ShutdownDrains
<1>1. IInv => ShutdownDrains
  <2> SUFFICES ASSUME IInv, pc["close"] = "closed", NEW t \in Tasks
               PROVE  buffer = <<>> /\ batch[t] = <<>>
    BY TasksDiffer DEF ShutdownDrains
  <2>1. stage = "close" /\ buffer = <<>>
    BY DEF IInv, Stages
  <2>2. pc[t] # "flushing"
    BY <2>1 DEF IInv, Stages, Tasks, Ended
  <2> QED BY <2>1, <2>2 DEF IInv, TypeOK
<1> QED BY <1>1, InvariantHolds, PTL

(* The ingestor's marker never passes a log of which a line has not reached the
   forensic writer, whatever fails or is cancelled on the way. *)
THEOREM MarkerIsSafe == Spec => []MarkerCovers
<1>1. IInv => MarkerCovers
  BY DEF IInv
<1> QED BY <1>1, InvariantHolds, PTL

-----------------------------------------------------------------------------
(* What a step may drop.                                                   *)

(* No operation of the writers on sequences forgets an element. *)
LEMMA ElementsFacts ==
  ASSUME NEW s \in Seq(Records)
  PROVE  /\ \A r \in Records : Elements(s) \subseteq Elements(Append(s, r))
         /\ \A b \in Seq(Records) : Elements(b) \cup Elements(s) \subseteq Elements(b \o s)
         /\ s # <<>> => Elements(s) \subseteq {Head(s)} \cup Elements(Tail(s))
<1>1. ASSUME NEW r \in Records, NEW i \in DOMAIN s PROVE s[i] \in Elements(Append(s, r))
  <2>1. i \in DOMAIN Append(s, r) /\ Append(s, r)[i] = s[i]
    OBVIOUS
  <2> QED BY <2>1 DEF Elements
<1>2. ASSUME NEW b \in Seq(Records), NEW i \in DOMAIN s PROVE s[i] \in Elements(b \o s)
  <2>1. /\ Len(b) + i \in DOMAIN (b \o s) /\ (b \o s)[Len(b) + i] = s[i]
    OBVIOUS
  <2> QED BY <2>1 DEF Elements
<1>3. ASSUME NEW b \in Seq(Records), NEW i \in DOMAIN b PROVE b[i] \in Elements(b \o s)
  <2>1. i \in DOMAIN (b \o s) /\ (b \o s)[i] = b[i]
    OBVIOUS
  <2> QED BY <2>1 DEF Elements
<1>4. ASSUME s # <<>>, NEW i \in DOMAIN s, i # 1 PROVE s[i] \in Elements(Tail(s))
  <2>1. i - 1 \in DOMAIN Tail(s) /\ Tail(s)[i - 1] = s[i]
    BY <1>4
  <2> QED BY <2>1 DEF Elements
<1>5. s # <<>> => Head(s) = s[1]
  OBVIOUS
<1> QED BY <1>1, <1>2, <1>3, <1>4, <1>5 DEF Elements

(* Nothing is lost when what task t had in hand and the buffer are still there, *)
LEMMA AllKept ==
  ASSUME IInv, NEW t \in Tasks, NEW b, batch' = [batch EXCEPT ![t] = b],
         stored \subseteq stored',
         Elements(buffer) \cup Elements(batch[t])
           \subseteq Elements(buffer') \cup Elements(b) \cup stored'
  PROVE  DropsForCause
<1>1. \A u \in Tasks : batch'[u] = IF u = t THEN b ELSE batch[u]
  BY DEF IInv, TypeOK
<1>2. ASSUME NEW r \in Accounted PROVE r \in Accounted'
  <2>1. CASE r \in stored
    BY <2>1 DEF Accounted
  <2>2. CASE r \in Elements(buffer) \cup Elements(batch[t])
    <3>1. b = batch'[t]
      BY <1>1
    <3>2. r \in Elements(buffer') \cup Elements(batch'[t]) \cup stored'
      BY <2>2, <3>1
    <3> QED BY <3>2 DEF Accounted
  <2>3. ASSUME NEW u \in Tasks, u # t, r \in Elements(batch[u]) PROVE r \in Accounted'
    <3>1. r \in Elements(batch'[u])
      BY <1>1, <2>3
    <3> QED BY <3>1 DEF Accounted
  <2> QED BY <2>1, <2>2, <2>3 DEF Accounted
<1> QED BY <1>2 DEF DropsForCause

(* and what is lost was in the hands of t when only its batch is given up. *)
LEMMA OnlyBatchLost ==
  ASSUME IInv, NEW t \in Tasks, batch' = [batch EXCEPT ![t] = <<>>],
         stored \subseteq stored', buffer' = buffer,
         pc'[t] = "cut" \/ (stream = "forensic" /\ faults' > faults)
  PROVE  DropsForCause
<1>1. \A u \in Tasks : u # t => batch'[u] = batch[u]
  BY DEF IInv, TypeOK
<1>2. ASSUME NEW r \in Accounted \ Accounted' PROVE r \in Elements(batch[t])
  <2>1. ASSUME NEW u \in Tasks, u # t, r \in Elements(batch[u]) PROVE FALSE
    <3>1. r \in Elements(batch'[u])
      BY <1>1, <2>1
    <3> QED BY <1>2, <3>1 DEF Accounted
  <2>2. r \notin Elements(buffer) \cup stored
    BY <1>2 DEF Accounted
  <2> QED BY <1>2, <2>1, <2>2 DEF Accounted
<1> QED BY <1>2 DEF DropsForCause

(* An append, with or without a flush. *)
LEMMA AppendKeeps ==
  ASSUME IInv, NEW t \in Tasks, NEW r \in Records, Append1(t, r),
         pc[t] \in {"idle", "encrypting"}
  PROVE  DropsForCause
<1> DEFINE buf == Append(buffer, r)
<1>1. /\ buffer \in Seq(Records) /\ batch \in [Tasks -> Seq(Records)]
      /\ batch[t] = <<>> /\ stored' = stored
  BY DEF IInv, TypeOK, Append1
<1>2. Elements(buffer) \subseteq Elements(buf) /\ Elements(batch[t]) = {}
  BY <1>1, ElementsFacts DEF Elements
<1>3. CASE FlushNow(buf)
  <2>1. buffer' = <<>> /\ batch' = [batch EXCEPT ![t] = buf]
    BY <1>3 DEF Append1
  <2> HIDE DEF buf
  <2> QED BY <1>1, <1>2, <2>1, AllKept
<1>4. CASE ~ FlushNow(buf)
  <2>1. buffer' = buf /\ batch' = [batch EXCEPT ![t] = <<>>]
    BY <1>1, <1>4 DEF Append1
  <2> HIDE DEF buf
  <2> QED BY <1>1, <1>2, <2>1, AllKept
<1> QED BY <1>3, <1>4

LEMMA SwapKeeps ==
  ASSUME IInv, NEW t \in Tasks, pc[t] # "flushing", Swap(t)
  PROVE  DropsForCause
<1>1. /\ batch' = [batch EXCEPT ![t] = buffer] /\ stored' = stored
      /\ Elements(batch[t]) = {}
  BY DEF Swap, IInv, TypeOK, Elements
<1> QED BY <1>1, AllKept

LEMMA CutKeeps ==
  ASSUME IInv, NEW t \in Tasks, Cut(t)
  PROVE  DropsForCause
<1>1. /\ batch' = [batch EXCEPT ![t] = <<>>] /\ buffer' = buffer
      /\ stored \subseteq stored' /\ pc'[t] = "cut"
  BY DEF Cut, Goto, IInv, TypeOK
<1> QED BY <1>1, OnlyBatchLost

LEMMA StepKeeps == IInv /\ [Next]_vars => [DropsForCause]_vars
<1> SUFFICES ASSUME IInv, Next PROVE DropsForCause
  OBVIOUS
<1>0. /\ buffer \in Seq(Records) /\ batch \in [Tasks -> Seq(Records)]
      /\ \A t \in Tasks : batch[t] # <<>> <=> pc[t] = "flushing"
      /\ faults \in Nat
  BY StreamsAssumption DEF IInv, TypeOK
<1>1. ASSUME NEW l \in Listeners, WriteMasked(l) PROVE DropsForCause
  BY <1>1, AppendKeeps, TasksDiffer DEF WriteMasked, Records
<1>2. ASSUME NEW l \in Listeners, Unsubscribe(l) PROVE DropsForCause
  BY <1>2, CutKeeps, TasksDiffer DEF Unsubscribe
<1>3. ASSUME NEW t \in Tasks, Encrypted(t) PROVE DropsForCause
  <2>1. pc[t] = "encrypting" /\ t \notin {"loop", "close"}
    BY <1>3 DEF Encrypted, IInv, Positions, Allowed
  <2>2. CASE t = "ingestor"
    <3>1. line \in 1..Lines[Key] /\ Key \in Objects
      BY <2>1, <2>2, KeyInTodo DEF IInv, Ingesting, TypeOK
    <3> QED BY <1>3, <2>1, <2>2, <3>1, AppendKeeps DEF Encrypted, Records
  <2>3. CASE t # "ingestor"
    BY <1>3, <2>1, <2>3, AppendKeeps DEF Encrypted, Records, Tasks
  <2> QED BY <2>2, <2>3
<1>4. ASSUME NEW t \in Tasks, Sent(t) PROVE DropsForCause
  BY <1>4, AllKept DEF Sent
<1>5. ASSUME NEW t \in Tasks, SinkFails(t) PROVE DropsForCause
  <2>1. Elements(batch[t]) \cup Elements(buffer) \subseteq Elements(batch[t] \o buffer)
    BY <1>0, ElementsFacts
  <2> QED BY <1>5, <2>1, AllKept DEF SinkFails, Requeue
<1>6. ASSUME NEW t \in Tasks, Saved(t) PROVE DropsForCause
  <2>1. /\ Elements(batch[t]) \subseteq {Head(batch[t])} \cup Elements(Tail(batch[t]))
        /\ batch' = [batch EXCEPT ![t] = Tail(batch[t])]
        /\ stored' = stored \cup {Head(batch[t])} /\ buffer' = buffer
    BY <1>0, <1>6, ElementsFacts DEF Saved
  <2> QED BY <2>1, AllKept
<1>7. ASSUME NEW t \in Tasks, SaveFails(t) PROVE DropsForCause
  <2>1. /\ batch' = [batch EXCEPT ![t] = <<>>] /\ buffer' = buffer
        /\ stored \subseteq stored' /\ stream = "forensic"
    BY <1>7 DEF SaveFails
  <2>2. faults' > faults
    BY <1>0, <1>7 DEF SaveFails
  <2> QED BY <2>1, <2>2, OnlyBatchLost
<1>8. ASSUME Tick PROVE DropsForCause
  BY <1>8, SwapKeeps, TasksDiffer DEF Tick
<1>9. ASSUME FinalFlush PROVE DropsForCause
  BY <1>9, SwapKeeps, TasksDiffer DEF FinalFlush
<1>10. ASSUME CloseIngestor PROVE DropsForCause
  BY <1>10, CutKeeps, TasksDiffer DEF CloseIngestor
<1>11. ASSUME UNCHANGED <<buffer, batch, stored>> PROVE DropsForCause
  BY <1>11 DEF DropsForCause, Accounted
<1>12. ASSUME Close PROVE DropsForCause
  <2>1. CASE pc["loop"] = "dead"
    BY <1>12, <2>1, <1>11 DEF Close
  <2>2. CASE pc["loop"] # "dead"
    BY <1>12, <2>2, CutKeeps, TasksDiffer DEF Close
  <2> QED BY <2>1, <2>2
<1>13. ASSUME NEW l \in Listeners, Encrypt(l) PROVE DropsForCause
  BY <1>11, <1>13 DEF Encrypt
<1>14. ASSUME NEW t \in Tasks, EncryptFails(t) PROVE DropsForCause
  BY <1>11, <1>14 DEF EncryptFails
<1>15. ASSUME NEW k \in Objects, Deliver(k) \/ Expire(k) PROVE DropsForCause
  BY <1>11, <1>15 DEF Deliver, Expire
<1>16. ASSUME List \/ Get \/ Shutdown PROVE DropsForCause
  BY <1>11, <1>16 DEF List, Get, Shutdown
<1> QED
  BY <1>1, <1>2, <1>3, <1>4, <1>5, <1>6, <1>7, <1>8, <1>9, <1>10, <1>12, <1>13, <1>14,
     <1>15, <1>16 DEF Next, SinkReturns

(* No event disappears but from the batch of a task that is cancelled in its
   flush or, in the forensic stream, by a failed call. *)
THEOREM LossHasCause == Spec => NothingDropped
<1> QED BY InvariantHolds, StepKeeps, PTL DEF Spec, NothingDropped

=============================================================================
