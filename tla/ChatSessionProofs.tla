-------------------------- MODULE ChatSessionProofs --------------------------
(***************************************************************************)
(* ChatSession, for every number of chats and cancel requests and every    *)
(* limit on the graph: what a stream tells of its run is true, no call     *)
(* begins after a cancel, and a cancel reaches the run it was asked for    *)
(* and none older.                                                         *)
(*                                                                         *)
(* The invariant has three layers.  Fit says what the task of a chat may   *)
(* have queued at each stage, Bookkeeping how registry, listeners and      *)
(* requests refer to chats, and Attended what becomes of the cancels of    *)
(* the session's only chat.                                                *)
(***************************************************************************)
EXTENDS ChatSession, TLAPS

Terminals == {"error", "cancelled", "end"}
Outcomes  == {"none", "completed", "cancelled", "error", "aborted"}
OverStages == {"answer", "tools", "unmirror", "clear", "done"}
CancelStages == {"note", "keep"}

Holds(q, x) == \E i \in 1..Len(q) : q[i] = x

(* What is appended to a queue is in it, and is its head if it was empty. *)
LEMMA Appended ==
  ASSUME NEW q \in Seq(Terminals), NEW x \in Terminals
  PROVE  /\ Append(q, x) \in Seq(Terminals)
         /\ Len(Append(q, x)) = Len(q) + 1
         /\ Append(q, x) # <<>>
         /\ \A y : Holds(Append(q, x), y) => y = x \/ Holds(q, y)
         /\ Head(Append(q, x)) = IF q = <<>> THEN x ELSE Head(q)
<1>1. Append(q, x) \in Seq(Terminals) /\ Len(Append(q, x)) = Len(q) + 1 /\ Len(q) \in Nat
  OBVIOUS
<1>2. Append(q, x) # <<>>
  BY <1>1
<1>3. \A i \in 1..Len(q) : Append(q, x)[i] = q[i]
  OBVIOUS
<1>4. Append(q, x)[Len(q) + 1] = x
  OBVIOUS
<1>5. ASSUME NEW y, Holds(Append(q, x), y) PROVE y = x \/ Holds(q, y)
  <2>1. PICK i \in 1..(Len(q) + 1) : Append(q, x)[i] = y
    BY <1>1, <1>5 DEF Holds
  <2>2. CASE i = Len(q) + 1
    BY <2>1, <2>2, <1>4
  <2>3. CASE i \in 1..Len(q)
    BY <2>1, <2>3, <1>3 DEF Holds
  <2> QED BY <1>1, <2>2, <2>3
<1>6. Head(Append(q, x)) = IF q = <<>> THEN x ELSE Head(q)
  <2>1. Head(Append(q, x)) = Append(q, x)[1]
    BY <1>2
  <2>2. CASE q = <<>>
    BY <2>1, <2>2, <1>4
  <2>3. CASE q # <<>>
    BY <2>1, <2>3, <1>1, <1>3
  <2> QED BY <2>2, <2>3
<1> QED BY <1>1, <1>2, <1>5, <1>6

(* What is left when the head is taken was in the queue. *)
LEMMA Taken ==
  ASSUME NEW q \in Seq(Terminals), q # <<>>
  PROVE  /\ Head(q) \in Terminals /\ Holds(q, Head(q))
         /\ Tail(q) \in Seq(Terminals)
         /\ Len(Tail(q)) = Len(q) - 1
         /\ \A y : Holds(Tail(q), y) => Holds(q, y)
<1>1. Len(q) \in Nat /\ Len(q) >= 1
  OBVIOUS
<1>2. Tail(q) \in Seq(Terminals) /\ Len(Tail(q)) = Len(q) - 1
  OBVIOUS
<1>3. Head(q) = q[1] /\ Head(q) \in Terminals
  BY <1>1
<1>4. ASSUME NEW y, Holds(Tail(q), y) PROVE Holds(q, y)
  <2>1. PICK i \in 1..(Len(q) - 1) : Tail(q)[i] = y
    BY <1>2, <1>4 DEF Holds
  <2>2. Tail(q)[i] = q[i + 1] /\ i + 1 \in 1..Len(q)
    BY <1>1
  <2> QED BY <2>1, <2>2 DEF Holds
<1>5. Holds(q, Head(q))
  BY <1>1, <1>3 DEF Holds
<1> QED BY <1>2, <1>3, <1>4, <1>5

-----------------------------------------------------------------------------
(* The task of a chat.                                                     *)

(* How many terminal events a task has queued at most when it stands there. *)
Room(s) == IF s \in {"keep", "answer", "tools"} THEN 1
           ELSE IF s = "unmirror" THEN 3 ELSE IF s \in {"clear", "done"} THEN 4 ELSE 0

(* What chat c may have queued, and how its graph may have ended, at stage s. *)
Fit(c, s, q, o) ==
  /\ s \in Stages /\ q \in Seq(Terminals) /\ o \in Outcomes
  /\ Len(q) <= Room(s)
  /\ Holds(q, "cancelled") => c \in cancelled
  /\ Holds(q, "end") => s \in OverStages
  /\ s \in CancelStages => c \in cancelled /\ o = "cancelled"
  /\ o \in {"cancelled", "aborted"} => c \in cancelled
  /\ IF s \in OverStages THEN o # "none" ELSE o \in {"none", "cancelled"}
  /\ strm[c] \in {"none", "open"} /\ o = "error" => q # <<>> /\ Head(q) = "error"

Graph(c) ==
  /\ node[c] # "end" => iter[c] < MaxIterations
  /\ node[c] = "tools" => left[c] >= 1

RunTyped ==
  /\ cancelled \subseteq Chats /\ hooked \subseteq Chats \ cancelled /\ aborts \subseteq cancelled
  /\ stage \in [Chats -> Stages]
  /\ node \in [Chats -> {"planner", "tools", "rag", "final", "end"}]
  /\ iter \in [Chats -> 0..MaxIterations] /\ left \in [Chats -> 0..MaxTools]
  /\ tooled \subseteq Chats
  /\ queue \in [Chats -> Seq(Terminals)]
  /\ outcome \in [Chats -> Outcomes]

RunInv ==
  /\ RunTyped
  /\ \A c \in Chats : Fit(c, stage[c], queue[c], outcome[c]) /\ Graph(c)

(* What a step of a chat's task may do to what others see of it. *)
Moves(c) ==
  /\ stage[c] # "none"
  /\ cancelled' = cancelled
  /\ \E s \in Stages \ {"none"} : \E q, o :
       /\ Fit(c, s, q, o) /\ Goto(c, s, q) /\ outcome' = [outcome EXCEPT ![c] = o]
       /\ stage[c] \in OverStages => s \in OverStages
       /\ outcome[c] # "none" => o = outcome[c]

(* The graph's own variables after a step of it. *)
GraphKept ==
  /\ hooked' \subseteq Chats \ cancelled /\ aborts' \subseteq cancelled
  /\ node' \in [Chats -> {"planner", "tools", "rag", "final", "end"}]
  /\ iter' \in [Chats -> 0..MaxIterations] /\ left' \in [Chats -> 0..MaxTools]
  /\ tooled' \subseteq Chats
  /\ \A c \in Chats : Graph(c)'

(* The finally block begins with what was queued, or goes on after the answer. *)
LEMMA LeaveFits ==
  ASSUME NEW c \in Chats, NEW q, NEW o, Fit(c, "answer", q, o), Leave(c, q)
  PROVE  \E s \in OverStages : \E r : Fit(c, s, r, o) /\ Goto(c, s, r)
<1>1. q \in Seq(Terminals) /\ "end" \in Terminals /\ Len(q) \in Nat /\ Len(q) <= 1
  BY DEF Fit, Terminals, Room
<1>2. CASE Goto(c, "answer", q)
  BY <1>2 DEF OverStages
<1>3. CASE Goto(c, "tools", q)
  <2>1. Fit(c, "tools", q, o)
    BY DEF Fit, Room, OverStages, CancelStages, Stages
  <2> QED BY <2>1, <1>3 DEF OverStages
<1>4. CASE Goto(c, "clear", Append(q, "end"))
  <2>1. Fit(c, "clear", Append(q, "end"), o)
    BY <1>1, Appended DEF Fit, Room, OverStages, CancelStages, Stages
  <2> QED BY <2>1, <1>4 DEF OverStages
<1> QED BY <1>2, <1>3, <1>4 DEF Leave, AfterAnswer

(* GraphCancelled, reached by a run whose token is cancelled. *)
LEMMA GraphCancelledMoves ==
  ASSUME RunInv, NEW c \in cancelled, stage[c] \in {"run", "call"}, GraphCancelled(c),
         UNCHANGED cancelled
  PROVE  Moves(c)
<1> DEFINE o == "cancelled"
<1>1. c \in Chats /\ Fit(c, stage[c], queue[c], outcome[c]) /\ queue[c] \in Seq(Terminals)
  BY DEF RunInv, RunTyped
<1>2. queue[c] = <<>> /\ outcome[c] \in {"none", "cancelled"}
  BY <1>1 DEF Fit, Room, OverStages
<1>3. outcome' = [outcome EXCEPT ![c] = o]
  BY <1>1, <1>2 DEF GraphCancelled, Ends, RunInv, RunTyped
<1>4. CASE Goto(c, "note", queue[c])
  <2>1. Fit(c, "note", queue[c], o)
    BY <1>1, <1>2 DEF Fit, Room, OverStages, CancelStages, Stages, Outcomes
  <2> QED BY <1>2, <1>3, <1>4, <2>1 DEF Moves, OverStages, Stages
<1>5. CASE Leave(c, Append(queue[c], "cancelled"))
  <2>1. "cancelled" \in Terminals
    BY DEF Terminals
  <2>2. Fit(c, "answer", Append(queue[c], "cancelled"), o)
    BY <1>1, <1>2, <2>1, Appended DEF Fit, Room, OverStages, CancelStages, Stages, Outcomes
  <2>3. PICK s, r : s \in OverStages /\ Fit(c, s, r, o) /\ Goto(c, s, r)
    BY <1>1, <1>5, <2>2, LeaveFits
  <2> QED BY <1>2, <1>3, <2>3 DEF Moves, OverStages, Stages
<1> QED BY <1>4, <1>5 DEF GraphCancelled

(* Every step of a task is such a move. *)
LEMMA RunStepMoves ==
  ASSUME RunInv, NEW c \in Chats, RunStep(c)
  PROVE  Moves(c)
<1>1. /\ Fit(c, stage[c], queue[c], outcome[c]) /\ queue[c] \in Seq(Terminals)
      /\ Terminals = {"error", "cancelled", "end"}
      /\ outcome = [outcome EXCEPT ![c] = outcome[c]]
  BY DEF RunInv, RunTyped, Terminals
<1>2. ASSUME stage[c] \in {"starting", "run", "call", "chunk"}
      PROVE  queue[c] = <<>> /\ outcome[c] \in {"none", "cancelled"}
  BY <1>1, <1>2 DEF Fit, Room, OverStages
<1>3. ASSUME NEW o \in Outcomes, Ends(c, o), outcome[c] \in {"none", "cancelled"}
      PROVE  outcome' = [outcome EXCEPT ![c] = IF outcome[c] = "none" THEN o ELSE "cancelled"]
  BY <1>3 DEF Ends, RunInv, RunTyped
<1>4. ASSUME NEW s \in {"run", "call", "chunk"}, stage[c] \in {"starting", "run", "call", "chunk"},
             Goto(c, s, queue[c]), outcome' = outcome, UNCHANGED cancelled
      PROVE  Moves(c)
  <2>1. Fit(c, s, queue[c], outcome[c])
    BY <1>1, <1>2, <1>4 DEF Fit, Room, OverStages, CancelStages, Stages
  <2> QED BY <1>1, <1>4, <2>1 DEF Moves, OverStages, Stages
<1>5. CASE Hook(c)
  BY <1>4, <1>5 DEF Hook, OnCancel
<1>6. CASE StartCall(c)
  BY <1>4, <1>6, GraphCancelledMoves DEF StartCall, tokenVars
<1>7. CASE FinalAnswer(c)
  BY <1>4, <1>7 DEF FinalAnswer, tokenVars
<1>8. CASE GraphEnds(c)
  <2> DEFINE o == IF outcome[c] = "none" THEN "completed" ELSE "cancelled"
  <2>1. Fit(c, "answer", queue[c], o)
    BY <1>1, <1>2, <1>8 DEF GraphEnds, Fit, Room, OverStages, CancelStages, Stages, Outcomes
  <2>2. outcome' = [outcome EXCEPT ![c] = o]
    BY <1>2, <1>3, <1>8 DEF GraphEnds, Outcomes
  <2>3. PICK s, r : s \in OverStages /\ Fit(c, s, r, o) /\ Goto(c, s, r)
    BY <1>8, <2>1, LeaveFits DEF GraphEnds
  <2> QED BY <1>2, <1>8, <2>2, <2>3 DEF GraphEnds, Moves, tokenVars, OverStages, Stages
<1>9. CASE LlmAnswers(c)
  <2>1. CASE c \in cancelled
    <3>1. Fit(c, "chunk", queue[c], "cancelled")
      BY <1>1, <1>2, <1>9, <2>1 DEF LlmAnswers, Fit, Room, OverStages, CancelStages, Stages, Outcomes
    <3>2. outcome' = [outcome EXCEPT ![c] = "cancelled"]
      BY <1>2, <1>9, <2>1 DEF LlmAnswers, Ends, RunInv, RunTyped
    <3> QED BY <1>2, <1>9, <3>1, <3>2 DEF LlmAnswers, Moves, tokenVars, OverStages, Stages
  <2>2. CASE c \notin cancelled
    BY <1>4, <1>9, <2>2 DEF LlmAnswers, tokenVars
  <2> QED BY <2>1, <2>2
<1>10. CASE ToolEnds(c)
  <2>1. CASE UNCHANGED <<stage, queue, outcome>>
    <3>1. Goto(c, stage[c], queue[c])
      BY <2>1 DEF Goto, RunInv, RunTyped
    <3> QED BY <1>1, <1>10, <2>1, <3>1 DEF ToolEnds, Moves, tokenVars, Stages
  <2>2. CASE c \in cancelled /\ GraphCancelled(c)
    BY <1>10, <2>2, GraphCancelledMoves DEF ToolEnds, tokenVars
  <2>3. CASE Goto(c, "chunk", queue[c]) /\ UNCHANGED outcome
    BY <1>4, <1>10, <2>3 DEF ToolEnds, tokenVars
  <2> QED BY <1>10, <2>1, <2>2, <2>3 DEF ToolEnds
<1>11. CASE RetrieveEnds(c)
  BY <1>4, <1>11 DEF RetrieveEnds, tokenVars
<1>12. CASE CallFails(c)
  <2> DEFINE o == IF outcome[c] = "none" THEN "error" ELSE "cancelled"
             q == Append(queue[c], "error")
  <2>1. queue[c] = <<>> /\ outcome[c] \in {"none", "cancelled"} /\ stage[c] = "call"
    BY <1>2, <1>12 DEF CallFails
  <2>2. q \in Seq(Terminals) /\ Len(q) = 1 /\ q # <<>> /\ Head(q) = "error" /\ Len(queue[c]) = 0
    BY <1>1, <2>1, Appended
  <2>3. ~Holds(q, "cancelled") /\ ~Holds(q, "end")
    BY <1>1, <2>1, <2>2, Appended DEF Holds
  <2>4. Fit(c, "answer", q, o)
    BY <1>1, <2>1, <2>2, <2>3 DEF Fit, Room, OverStages, CancelStages, Stages, Outcomes
  <2>5. outcome' = [outcome EXCEPT ![c] = o]
    BY <2>1, <1>3, <1>12 DEF CallFails, Outcomes
  <2>6. PICK s, r : s \in OverStages /\ Fit(c, s, r, o) /\ Goto(c, s, r)
    BY <1>12, <2>4, LeaveFits DEF CallFails
  <2> QED BY <2>1, <1>12, <2>5, <2>6 DEF CallFails, Moves, tokenVars, OverStages, Stages
<1>13. CASE CallCancelled(c)
  BY <1>13, GraphCancelledMoves DEF CallCancelled, tokenVars
<1>14. CASE ChunkQueued(c)
  BY <1>4, <1>14 DEF ChunkQueued, tokenVars
<1>15. CASE PartialNoted(c)
  <2>1. Fit(c, "keep", Append(queue[c], "cancelled"), outcome[c])
    BY <1>1, <1>15, Appended DEF PartialNoted, Fit, Room, OverStages, CancelStages, Stages
  <2> QED BY <1>1, <1>15, <2>1 DEF PartialNoted, Moves, tokenVars, OverStages, Stages
<1>16. ASSUME Leave(c, queue[c]), stage[c] = "keep", UNCHANGED <<cancelled, outcome>> PROVE Moves(c)
  <2>1. Fit(c, "answer", queue[c], outcome[c])
    BY <1>1, <1>16 DEF Fit, Room, OverStages, CancelStages, Stages
  <2>2. PICK s, r : s \in OverStages /\ Fit(c, s, r, outcome[c]) /\ Goto(c, s, r)
    BY <1>16, <2>1, LeaveFits
  <2> QED BY <1>1, <1>16, <2>2 DEF Moves, OverStages, Stages
<1>17. CASE AnswerPersisted(c)
  <2>1. Leave(c, queue[c]) /\ Fit(c, "answer", queue[c], outcome[c]) /\ UNCHANGED <<cancelled, outcome>>
    BY <1>1, <1>17 DEF AnswerPersisted, Leave, tokenVars
  <2>2. PICK s, r : s \in OverStages /\ Fit(c, s, r, outcome[c]) /\ Goto(c, s, r)
    BY <2>1, LeaveFits
  <2> QED BY <1>1, <1>17, <2>1, <2>2 DEF AnswerPersisted, Moves, OverStages, Stages
<1>18. CASE ToolsPersisted(c)
  <2>1. stage[c] = "tools" /\ UNCHANGED <<cancelled, outcome>>
    BY <1>18 DEF ToolsPersisted, tokenVars
  <2>2. CASE Goto(c, "unmirror", queue[c] \o <<"end">>)
    <3>1. queue[c] \o <<"end">> = Append(queue[c], "end")
      BY <1>1
    <3>2. Fit(c, "unmirror", Append(queue[c], "end"), outcome[c])
      BY <1>1, <2>1, Appended DEF Fit, Room, OverStages, CancelStages, Stages
    <3> QED BY <1>1, <2>1, <2>2, <3>1, <3>2 DEF Moves, OverStages, Stages
  <2>3. CASE Goto(c, "unmirror", queue[c] \o <<"error", "end">>)
    <3> DEFINE q == Append(queue[c], "error")
    <3>1. queue[c] \o <<"error", "end">> = Append(q, "end")
      BY <1>1
    <3>2. /\ q \in Seq(Terminals) /\ Len(q) = Len(queue[c]) + 1 /\ q # <<>>
          /\ (queue[c] # <<>> => Head(q) = Head(queue[c]))
          /\ \A y : Holds(q, y) => y = "error" \/ Holds(queue[c], y)
      BY <1>1, Appended
    <3>3. Fit(c, "unmirror", Append(q, "end"), outcome[c])
      <4> HIDE DEF q
      <4> QED BY <1>1, <2>1, <3>2, Appended DEF Fit, Room, OverStages, CancelStages, Stages
    <3> QED BY <1>1, <2>1, <2>3, <3>1, <3>3 DEF Moves, OverStages, Stages
  <2> QED BY <1>18, <2>2, <2>3 DEF ToolsPersisted
<1>19. CASE Unmirrored(c)
  <2>1. Fit(c, "clear", Append(queue[c], "end"), outcome[c])
    BY <1>1, <1>19, Appended DEF Unmirrored, Fit, Room, OverStages, CancelStages, Stages
  <2> QED BY <1>1, <1>19, <2>1 DEF Unmirrored, Moves, tokenVars, OverStages, Stages
<1>20. CASE Cleared(c)
  <2>1. Fit(c, "done", queue[c], outcome[c])
    BY <1>1, <1>20 DEF Cleared, Fit, Room, OverStages, CancelStages, Stages
  <2> QED BY <1>1, <1>20, <2>1 DEF Cleared, Moves, tokenVars, OverStages, Stages
<1>21. CASE PartialPersisted(c)
  BY <1>16, <1>21 DEF PartialPersisted, tokenVars
<1> QED
  BY <1>5, <1>6, <1>7, <1>8, <1>9, <1>10, <1>11, <1>12, <1>13, <1>14, <1>15, <1>17, <1>18, <1>19,
     <1>20, <1>21 DEF RunStep

(* ... and so is the cancellation of the task, wherever it stands. *)
LEMMA AbortMoves ==
  ASSUME RunInv, NEW c \in Chats, Abort(c)
  PROVE  Moves(c)
<1>1. /\ Fit(c, stage[c], queue[c], outcome[c]) /\ queue[c] \in Seq(Terminals)
      /\ c \in cancelled /\ UNCHANGED cancelled
      /\ Terminals = {"error", "cancelled", "end"}
      /\ outcome = [outcome EXCEPT ![c] = outcome[c]]
  BY DEF RunInv, RunTyped, Terminals, Abort
<1>2. CASE stage[c] \in {"run", "call", "chunk", "note", "keep"} /\ Leave(c, queue[c]) /\ Ends(c, "aborted")
  <2> DEFINE o == IF outcome[c] = "none" THEN "aborted" ELSE outcome[c]
  <2>1. Fit(c, "answer", queue[c], o)
    BY <1>1, <1>2 DEF Fit, Room, OverStages, CancelStages, Stages, Outcomes
  <2>2. outcome' = [outcome EXCEPT ![c] = o]
    BY <1>2 DEF Ends, RunInv, RunTyped
  <2>3. PICK s, r : s \in OverStages /\ Fit(c, s, r, o) /\ Goto(c, s, r)
    BY <1>2, <2>1, LeaveFits
  <2> QED BY <1>1, <1>2, <2>2, <2>3 DEF Moves, OverStages, Stages
<1>3. CASE stage[c] = "tools" /\ Goto(c, "done", Append(queue[c], "end")) /\ UNCHANGED outcome
  <2>1. Fit(c, "done", Append(queue[c], "end"), outcome[c])
    BY <1>1, <1>3, Appended DEF Fit, Room, OverStages, CancelStages, Stages
  <2> QED BY <1>1, <1>3, <2>1 DEF Moves, OverStages, Stages
<1>4. CASE stage[c] \in {"answer", "unmirror", "clear", "done"} /\ Goto(c, "done", queue[c]) /\ UNCHANGED outcome
  <2>1. Fit(c, "done", queue[c], outcome[c])
    BY <1>1, <1>4 DEF Fit, Room, OverStages, CancelStages, Stages
  <2> QED BY <1>1, <1>4, <2>1 DEF Moves, OverStages, Stages
<1> QED BY <1>2, <1>3, <1>4 DEF Abort

(* The iterations stay below the limit and a batch of tools is counted down. *)
LEMMA GraphSteps ==
  ASSUME RunInv, NEW c \in Chats, RunStep(c) \/ Abort(c)
  PROVE  GraphKept
<1> USE DEF RunInv, RunTyped, GraphKept, Graph
<1>1. ASSUME UNCHANGED graphVars, UNCHANGED tokenVars PROVE GraphKept
  BY <1>1 DEF graphVars, tokenVars
<1>2. CASE Hook(c)
  BY <1>2 DEF Hook, OnCancel, graphVars
<1>3. CASE StartCall(c) \/ GraphEnds(c) \/ CallFails(c) \/ CallCancelled(c) \/ PartialNoted(c)
           \/ PartialPersisted(c) \/ AnswerPersisted(c) \/ ToolsPersisted(c) \/ Unmirrored(c) \/ Cleared(c)
  BY <1>1, <1>3 DEF StartCall, GraphEnds, CallFails, CallCancelled, PartialNoted, PartialPersisted,
    AnswerPersisted, ToolsPersisted, Unmirrored, Cleared
<1>4. CASE FinalAnswer(c)
  BY <1>4 DEF FinalAnswer, tokenVars
<1>5. CASE LlmAnswers(c)
  <2>1. iter[c] \in Nat /\ iter[c] < MaxIterations /\ MaxIterations \in Nat /\ MaxTools \in Nat
    BY <1>5, LimitsAssumption DEF LlmAnswers
  <2>2. PICK asked, n :
          /\ asked \in 0..MaxTools /\ n \in Route(c, asked)
          /\ node' = [node EXCEPT ![c] = n]
          /\ left' = [left EXCEPT ![c] = IF n = "tools" THEN asked ELSE 0]
    BY <1>5 DEF LlmAnswers
  <2>3. n \in {"tools", "rag", "final", "end"} /\ (n = "tools" => asked >= 1)
        /\ (n # "end" => iter[c] + 1 < MaxIterations)
    BY <2>1, <2>2 DEF Route
  <2> QED BY <1>5, <2>1, <2>2, <2>3 DEF LlmAnswers, Counted, tokenVars
<1>6. CASE ToolEnds(c)
  <2>1. MaxIterations \in Nat /\ MaxTools \in Nat /\ left[c] \in 0..MaxTools /\ left[c] >= 1
    BY <1>6, LimitsAssumption DEF ToolEnds
  <2>2. left' = [left EXCEPT ![c] = left[c] - 1]
    BY <1>6 DEF ToolEnds
  <2>3. CASE UNCHANGED node /\ left[c] > 1
    BY <1>6, <2>1, <2>2, <2>3 DEF ToolEnds, tokenVars
  <2>4. CASE node' = [node EXCEPT ![c] = "planner"]
    BY <1>6, <2>1, <2>2, <2>4 DEF ToolEnds, tokenVars
  <2> QED BY <1>6, <2>3, <2>4 DEF ToolEnds
<1>7. CASE RetrieveEnds(c)
  BY <1>7 DEF RetrieveEnds, tokenVars
<1>8. CASE ChunkQueued(c)
  BY <1>8 DEF ChunkQueued, tokenVars
<1>9. CASE Abort(c)
  BY <1>9 DEF Abort, graphVars
<1> QED
  BY <1>2, <1>3, <1>4, <1>5, <1>6, <1>7, <1>8, <1>9 DEF RunStep

(* A task's step keeps the invariant of all tasks. *)
LEMMA RunKept ==
  ASSUME RunInv, NEW c \in Chats, RunStep(c) \/ Abort(c), UNCHANGED sessionVars
  PROVE  RunInv'
<1>1. Moves(c) /\ GraphKept
  BY RunStepMoves, AbortMoves, GraphSteps
<1>2. PICK s, q, o :
        s \in Stages /\ Fit(c, s, q, o) /\ Goto(c, s, q) /\ outcome' = [outcome EXCEPT ![c] = o]
  BY <1>1 DEF Moves
<1>3. UNCHANGED <<cancelled, strm>>
  BY <1>1 DEF Moves, sessionVars, streamVars
<1>4. RunTyped'
  BY <1>1, <1>2, <1>3 DEF RunInv, RunTyped, GraphKept, Goto, Fit
<1>5. ASSUME NEW d \in Chats PROVE Fit(d, stage[d], queue[d], outcome[d])'
  BY <1>2, <1>3 DEF RunInv, RunTyped, Goto, Fit
<1> QED BY <1>1, <1>4, <1>5 DEF RunInv, GraphKept

(* What the rest of the session sees of such a step. *)
LEMMA RunSeen ==
  ASSUME RunInv, NEW c \in Chats, RunStep(c) \/ Abort(c), UNCHANGED sessionVars
  PROVE  /\ UNCHANGED <<cancelled, start, registry, sess, entry, lst, inbox, held, active, marked, req,
                        target, strm, term, gone, faults>>
         /\ \A d \in Chats : /\ stage'[d] = "none" <=> stage[d] = "none"
                             /\ Over(d) => Over(d)'
                             /\ outcome[d] # "none" => outcome'[d] = outcome[d]
<1>1. Moves(c)
  BY RunStepMoves, AbortMoves
<1>2. UNCHANGED <<start, registry, sess, entry, lst, inbox, held, active, marked, req,
                  target, strm, term, gone, faults>>
  BY DEF sessionVars, startVars, subVars, stateVars, reqVars, streamVars
<1> QED BY <1>1, <1>2 DEF Moves, RunInv, RunTyped, Goto, Over, OverStages

-----------------------------------------------------------------------------
(* The session.                                                            *)

SessionTyped ==
  /\ start \in [Chats -> {"none", "subscribing", "preparing", "launched", "failed"}]
  /\ registry \in Chats \cup {0} /\ sess \in Chats \cup {0} /\ entry \in Chats \cup {0}
  /\ lst \in [Chats -> {"none", "listening", "handling", "ended"}]
  /\ inbox \subseteq {l \in Chats : lst[l] = "listening"}
  /\ held \in [Chats -> Chats \cup {0}]
  /\ active \in BOOLEAN /\ marked \in BOOLEAN
  /\ req \in [Cancels -> {"none", "publishing", "published", "accepted", "refused", "failed"}]
  /\ target \in [Cancels -> Chats \cup {0}]
  /\ strm \in [Chats -> {"none", "open", "closing", "closed"}]
  /\ term \in [Chats -> {"none", "error", "cancelled", "done"}]
  /\ gone \subseteq Chats /\ faults \in Nat

(* Chats are started in their order, and nothing refers to one that was not. *)
Started(c) ==
  /\ stage[c] = "none" <=> start[c] # "launched"
  /\ strm[c] # "none" \/ c <= registry => start[c] # "none"
  /\ lst[c] # "none" => start[c] \notin {"none", "subscribing"}
  /\ lst[c] = "handling" => held[c] \in Chats /\ start[held[c]] # "none"

Registered ==
  /\ active \/ entry # 0 \/ (\E c \in Chats : start[c] # "none") => registry # 0
  /\ sess # 0 => start[sess] # "none"
  /\ entry # 0 => start[entry] \notin {"none", "subscribing"}

(* A cancel under way was asked of a chat no later than the registry's. *)
Requested ==
  /\ \A k \in Cancels :
       /\ req[k] = "none" => target[k] = 0
       /\ req[k] \notin {"none", "refused"} => target[k] \in 1..registry /\ active
  /\ inbox # {} => \E k \in Cancels : target[k] \in 1..registry /\ req[k] # "refused"

Bookkeeping == (\A c \in Chats : Started(c)) /\ Registered /\ Requested /\ CancelsNoOlder

(* One terminal event for each stream, and none while it is open. *)
Told(c) ==
  /\ strm[c] \in {"none", "open"} => term[c] = "none"
  /\ term[c] = "done" => outcome[c] = "completed"
  /\ term[c] = "cancelled" => c \in cancelled

SessionInv == RunInv /\ SessionTyped /\ Bookkeeping /\ \A c \in Chats : Told(c)

(* Chats are numbered from 1. *)
LEMMA FromOne == ASSUME NEW S, NEW n, S = 1..n PROVE S \subseteq Int /\ \A c \in S : c >= 1
OBVIOUS

(* ... and so are those of the session. *)
LEMMA ChatsArePositive == Chats \subseteq Int /\ \A c \in Chats : c >= 1
BY SessionAssumption, FromOne

(* All of it at the start. *)
LEMMA SessionInit == Init => SessionInv
<1> SUFFICES ASSUME Init PROVE SessionInv
  OBVIOUS
<1> USE DEF Init, RunInit
<1>1. RunTyped
  BY LimitsAssumption DEF RunTyped, Stages, Terminals, Outcomes
<1>2. ASSUME NEW c \in Chats PROVE Fit(c, stage[c], queue[c], outcome[c]) /\ Graph(c)
  BY LimitsAssumption DEF Fit, Graph, Room, OverStages, CancelStages, Stages, Outcomes, Holds
<1>3. SessionTyped
  BY DEF SessionTyped
<1>4. Bookkeeping
  BY ChatsArePositive DEF Bookkeeping, Started, Registered, Requested, CancelsNoOlder
<1>5. \A c \in Chats : Told(c)
  BY DEF Told
<1> QED BY <1>1, <1>2, <1>3, <1>4, <1>5 DEF SessionInv, RunInv

(* The invariant of the tasks, under every step. *)
LEMMA RunStepKept == SessionInv /\ [Next]_vars => RunInv'
<1> SUFFICES ASSUME SessionInv, [Next]_vars PROVE RunInv'
  OBVIOUS
<1> USE DEF SessionInv
<1>1. ASSUME UNCHANGED <<cancelled, hooked, aborts, stage, node, iter, left, tooled, queue, outcome>>,
             \A c \in Chats : strm'[c] \in {"none", "open"} => strm[c] \in {"none", "open"}
      PROVE  RunInv'
  BY <1>1 DEF RunInv, RunTyped, Fit, Graph
<1>2. ASSUME NEW c \in Chats, RunStep(c) \/ Abort(c), UNCHANGED sessionVars PROVE RunInv'
  BY <1>2, RunKept
<1> USE DEF runVars, tokenVars, graphVars, streamVars
<1>3. ASSUME NEW c \in Chats, Register(c) \/ Subscribed(c) \/ StartFails(c) PROVE RunInv'
  BY <1>1, <1>3 DEF Register, Subscribed, StartFails, StartUnchanged
<1>4. ASSUME NEW c \in Chats, Launch(c) PROVE RunInv'
  <2>1. stage[c] = "none" /\ Goto(c, "starting", queue[c])
    BY <1>4 DEF Launch, Bookkeeping, Started
  <2>2. Fit(c, "starting", queue[c], outcome[c])
    BY <2>1 DEF RunInv, Fit, Room, OverStages, CancelStages, Stages
  <2>3. UNCHANGED <<cancelled, hooked, aborts, node, iter, left, tooled, outcome, strm>>
    BY <1>4 DEF Launch
  <2>4. RunTyped'
    BY <2>1, <2>3 DEF RunInv, RunTyped, Goto, Stages
  <2>5. ASSUME NEW d \in Chats PROVE Fit(d, stage[d], queue[d], outcome[d])' /\ Graph(d)'
    BY <2>1, <2>2, <2>3 DEF RunInv, RunTyped, Goto, Fit, Graph
  <2> QED BY <2>4, <2>5 DEF RunInv
<1>5. ASSUME NEW l \in Chats, ListenerHears(l) PROVE RunInv'
  BY <1>1, <1>5 DEF ListenerHears, SubUnchanged
<1>6. ASSUME NEW l \in Chats, ListenerCancels(l) PROVE RunInv'
  <2>1. held[l] \in Chats
    BY <1>6 DEF ListenerCancels, Bookkeeping, Started
  <2> QED BY <1>6, <2>1 DEF ListenerCancels, CancelToken, SubUnchanged, RunInv, RunTyped, Fit, Graph
<1>7. ASSUME NEW c \in Chats, OpenStream(c) \/ Disconnect(c) \/ Unsubscribe(c) PROVE RunInv'
  BY <1>1, <1>7 DEF OpenStream, Disconnect, Unsubscribe, StreamUnchanged, SessionTyped
<1>8. ASSUME NEW c \in Chats, SendTerminal(c) PROVE RunInv'
  <2>1. /\ UNCHANGED <<cancelled, hooked, aborts, stage, node, iter, left, tooled, outcome>>
        /\ strm' = [strm EXCEPT ![c] = "closing"] /\ queue[c] # <<>> /\ queue[c] \in Seq(Terminals)
        /\ queue' = [queue EXCEPT ![c] = Tail(queue[c])]
    BY <1>8 DEF SendTerminal, StreamUnchanged, RunInv, RunTyped
  <2>2. /\ Tail(queue[c]) \in Seq(Terminals) /\ Len(Tail(queue[c])) = Len(queue[c]) - 1
        /\ \A y : Holds(Tail(queue[c]), y) => Holds(queue[c], y)
    BY <2>1, Taken
  <2>3. RunTyped'
    BY <2>1, <2>2 DEF RunInv, RunTyped
  <2>4. ASSUME NEW d \in Chats, d # c PROVE Fit(d, stage[d], queue[d], outcome[d])' /\ Graph(d)'
    BY <2>1, <2>4 DEF RunInv, RunTyped, Fit, Graph, SessionTyped
  <2>5. Fit(c, stage[c], queue[c], outcome[c])' /\ Graph(c)'
    <3>1. Room(stage[c]) \in Nat
      BY DEF Room
    <3> QED BY <2>1, <2>2, <3>1 DEF RunInv, RunTyped, Fit, Graph, SessionTyped
  <2> QED BY <2>3, <2>4, <2>5 DEF RunInv
<1>9. ASSUME NEW k \in Cancels, Check(k) \/ Publish(k) \/ PublishFails(k) \/ Mark(k) PROVE RunInv'
  BY <1>1, <1>9 DEF Check, Publish, PublishFails, Mark, ReqUnchanged
<1>10. CASE ClearContext
  BY <1>1, <1>10 DEF ClearContext
<1>11. CASE UNCHANGED vars
  BY <1>1, <1>11 DEF vars
<1> QED
  BY <1>2, <1>3, <1>4, <1>5, <1>6, <1>7, <1>8, <1>9, <1>10, <1>11 DEF Next

(* Types and references of the session's own variables, under every step. *)
LEMMA SessionTypedKept == SessionInv /\ [Next]_vars => SessionTyped'
<1> SUFFICES ASSUME SessionInv, [Next]_vars PROVE SessionTyped'
  OBVIOUS
<1> USE DEF SessionInv, SessionTyped, reqVars, streamVars, stateVars, subVars, startVars
<1>1. ASSUME NEW c \in Chats, RunStep(c) \/ Abort(c), UNCHANGED sessionVars PROVE SessionTyped'
  BY <1>1, RunSeen
<1>2. ASSUME NEW c \in Chats, Register(c) PROVE SessionTyped'
  BY <1>2 DEF Register, StartUnchanged, Activate
<1>3. ASSUME NEW c \in Chats, Subscribed(c) PROVE SessionTyped'
  BY <1>3 DEF Subscribed, StartUnchanged, Activate
<1>4. ASSUME NEW c \in Chats, StartFails(c) PROVE SessionTyped'
  BY <1>4 DEF StartFails, StartUnchanged, Fault
<1>5. ASSUME NEW c \in Chats, Launch(c) PROVE SessionTyped'
  BY <1>5 DEF Launch
<1>6. ASSUME NEW l \in Chats, ListenerHears(l) PROVE SessionTyped'
  BY <1>6 DEF ListenerHears, SubUnchanged
<1>7. ASSUME NEW l \in Chats, ListenerCancels(l) PROVE SessionTyped'
  BY <1>7 DEF ListenerCancels, SubUnchanged
<1>8. ASSUME NEW c \in Chats, OpenStream(c) \/ Disconnect(c) PROVE SessionTyped'
  BY <1>8 DEF OpenStream, Disconnect, StreamUnchanged
<1>9. ASSUME NEW c \in Chats, SendTerminal(c) PROVE SessionTyped'
  <2>1. Head(queue[c]) \in Terminals
    BY <1>9, Taken DEF SendTerminal, RunInv, RunTyped
  <2>2. term'[c] \in {"none", "error", "cancelled", "done"}
    BY <1>9, <2>1 DEF SendTerminal, Terminals
  <2> QED BY <1>9, <2>2 DEF SendTerminal, StreamUnchanged
<1>10. ASSUME NEW c \in Chats, Unsubscribe(c) PROVE SessionTyped'
  BY <1>10 DEF Unsubscribe, StreamUnchanged
<1>11. ASSUME NEW k \in Cancels, Check(k) PROVE SessionTyped'
  BY <1>11 DEF Check, ReqUnchanged
<1>12. ASSUME NEW k \in Cancels, Publish(k) PROVE SessionTyped'
  BY <1>12 DEF Publish, Delivered, ReqUnchanged
<1>13. ASSUME NEW k \in Cancels, PublishFails(k) PROVE SessionTyped'
  BY <1>13 DEF PublishFails, Delivered, Fault, ReqUnchanged
<1>14. ASSUME NEW k \in Cancels, Mark(k) PROVE SessionTyped'
  BY <1>14 DEF Mark, ReqUnchanged
<1>15. CASE ClearContext
  BY <1>15 DEF ClearContext
<1>16. CASE UNCHANGED vars
  BY <1>16 DEF vars
<1> QED
  BY <1>1, <1>2, <1>3, <1>4, <1>5, <1>6, <1>7, <1>8, <1>9, <1>10, <1>11, <1>12, <1>13, <1>14, <1>15,
     <1>16 DEF Next

(* What streams have told. *)
LEMMA ToldKept == SessionInv /\ [Next]_vars => \A c \in Chats : Told(c)'
<1> SUFFICES ASSUME SessionInv, [Next]_vars, NEW d \in Chats PROVE Told(d)'
  OBVIOUS
<1> USE DEF SessionInv, SessionTyped, Told, streamVars
<1>1. ASSUME UNCHANGED <<outcome, cancelled, strm, term>> PROVE Told(d)'
  BY <1>1
<1>2. ASSUME NEW c \in Chats, RunStep(c) \/ Abort(c), UNCHANGED sessionVars PROVE Told(d)'
  BY <1>2, RunSeen
<1> USE DEF runVars, tokenVars, graphVars
<1>3. ASSUME NEW c \in Chats, Register(c) \/ Subscribed(c) \/ StartFails(c) \/ Launch(c) PROVE Told(d)'
  BY <1>1, <1>3 DEF Register, Subscribed, StartFails, StartUnchanged, Launch
<1>4. ASSUME NEW l \in Chats, ListenerHears(l) PROVE Told(d)'
  BY <1>1, <1>4 DEF ListenerHears, SubUnchanged
<1>5. ASSUME NEW l \in Chats, ListenerCancels(l) PROVE Told(d)'
  BY <1>5 DEF ListenerCancels, CancelToken, SubUnchanged
<1>6. ASSUME NEW c \in Chats, OpenStream(c) \/ Disconnect(c) \/ Unsubscribe(c) PROVE Told(d)'
  BY <1>6 DEF OpenStream, Disconnect, Unsubscribe, StreamUnchanged
<1>7. ASSUME NEW c \in Chats, SendTerminal(c) PROVE Told(d)'
  <2> DEFINE q == queue[c]
  <2>1. q \in Seq(Terminals) /\ q # <<>> /\ Head(q) \in Terminals /\ Holds(q, Head(q))
    BY <1>7, Taken DEF SendTerminal, RunInv, RunTyped
  <2>2. Fit(c, stage[c], q, outcome[c]) /\ strm[c] = "open"
    BY <1>7 DEF SendTerminal, RunInv
  <2>3. term'[c] = "cancelled" => c \in cancelled
    BY <1>7, <2>1, <2>2 DEF SendTerminal, Fit
  <2>4. term'[c] = "done" => Head(q) = "end" /\ c \notin cancelled
    BY <1>7, <2>1 DEF SendTerminal, Terminals
  <2>5. term'[c] = "done" => outcome[c] = "completed"
    BY <2>1, <2>2, <2>4 DEF Fit, Outcomes
  <2>6. UNCHANGED <<outcome, cancelled>> /\ strm' = [strm EXCEPT ![c] = "closing"]
        /\ \A e \in Chats \ {c} : term'[e] = term[e]
    BY <1>7 DEF SendTerminal, StreamUnchanged
  <2> QED BY <2>3, <2>5, <2>6
<1>8. ASSUME NEW k \in Cancels, Check(k) \/ Publish(k) \/ PublishFails(k) \/ Mark(k) PROVE Told(d)'
  BY <1>1, <1>8 DEF Check, Publish, PublishFails, Mark, ReqUnchanged
<1>9. CASE ClearContext
  BY <1>1, <1>9 DEF ClearContext
<1>10. CASE UNCHANGED vars
  BY <1>1, <1>10 DEF vars
<1> QED
  BY <1>2, <1>3, <1>4, <1>5, <1>6, <1>7, <1>8, <1>9, <1>10 DEF Next

(* Who was started, what refers to whom and who asked for which cancel. *)
LEMMA BookkeepingKept == SessionInv /\ [Next]_vars => Bookkeeping'
<1> SUFFICES ASSUME SessionInv, [Next]_vars PROVE Bookkeeping'
  OBVIOUS
<1> USE DEF SessionInv, SessionTyped
<1>0. /\ \A c \in Chats : Started(c)
      /\ Registered /\ Requested /\ CancelsNoOlder
      /\ Chats \subseteq Int /\ \A c \in Chats : c >= 1
  BY ChatsArePositive DEF Bookkeeping
<1>1. ASSUME NEW c \in Chats, RunStep(c) \/ Abort(c), UNCHANGED sessionVars PROVE Bookkeeping'
  BY <1>1, RunSeen DEF Bookkeeping, Started, Registered, Requested, CancelsNoOlder
<1> USE DEF runVars, tokenVars, graphVars, reqVars, streamVars, stateVars, subVars, startVars
<1>2. ASSUME NEW c \in Chats, Register(c) PROVE Bookkeeping'
  <2>1. /\ start[c] = "none" /\ \A d \in Chats : d < c => start[d] # "none"
        /\ start'[c] # "none" /\ \A d \in Chats \ {c} : start'[d] = start[d]
        /\ registry' = c /\ active \in BOOLEAN /\ (active => active')
        /\ UNCHANGED <<cancelled, stage, strm, lst, held, entry, sess, inbox, req, target>>
    BY <1>2 DEF Register, Activate, StartUnchanged
  <2>2. registry < c
    BY <1>0, <2>1 DEF Started
  <2>3. ASSUME NEW d \in Chats PROVE Started(d)'
    <3>1. d <= c => start'[d] # "none"
      BY <1>0, <2>1
    <3>2. start[d] # "none" => start'[d] # "none"
      BY <2>1
    <3>3. stage[d] = "none" <=> start'[d] # "launched"
      BY <1>0, <1>2, <2>1 DEF Started, Register
    <3>4. lst[d] = "handling" => held[d] \in Chats /\ start'[held[d]] # "none"
      BY <1>0, <2>1 DEF Started
    <3> QED BY <1>0, <2>1, <3>1, <3>2, <3>3, <3>4 DEF Started
  <2>4. Registered'
    BY <1>0, <2>1 DEF Registered
  <2>5. Requested'
    BY <1>0, <2>1, <2>2 DEF Requested
  <2>6. CancelsNoOlder'
    BY <1>0, <2>1 DEF CancelsNoOlder
  <2> QED BY <2>3, <2>4, <2>5, <2>6 DEF Bookkeeping
<1>3. ASSUME NEW c \in Chats, Subscribed(c) PROVE Bookkeeping'
  <2>1. Started(c)' /\ \A d \in Chats : Started(d)'
    BY <1>0, <1>3 DEF Started, Subscribed, StartUnchanged, Activate
  <2>2. Registered'
    BY <1>0, <1>3 DEF Registered, Subscribed, StartUnchanged, Activate
  <2>3. Requested' /\ CancelsNoOlder'
    BY <1>0, <1>3 DEF Requested, CancelsNoOlder, Subscribed, StartUnchanged, Activate
  <2> QED BY <2>1, <2>2, <2>3 DEF Bookkeeping
<1>4. ASSUME NEW c \in Chats, StartFails(c) PROVE Bookkeeping'
  BY <1>0, <1>4 DEF StartFails, StartUnchanged, Bookkeeping, Started, Registered, Requested, CancelsNoOlder
<1>5. ASSUME NEW c \in Chats, Launch(c) PROVE Bookkeeping'
  <2>0. /\ stage' = [stage EXCEPT ![c] = "starting"] /\ start' = [start EXCEPT ![c] = "launched"]
        /\ UNCHANGED <<strm, lst, registry, held>> /\ stage \in [Chats -> Stages]
    BY <1>5 DEF Launch, Goto, RunInv, RunTyped
  <2>1. ASSUME NEW d \in Chats PROVE Started(d)'
    <3>1. (stage'[d] = "none" <=> start'[d] # "launched") /\ (start[d] # "none" => start'[d] # "none")
      BY <1>0, <2>0 DEF Started
    <3> QED BY <1>0, <2>0, <3>1 DEF Started
  <2>2. Registered' /\ Requested' /\ CancelsNoOlder'
    BY <1>0, <1>5 DEF Launch, Goto, Registered, Requested, CancelsNoOlder
  <2> QED BY <2>1, <2>2 DEF Bookkeeping
<1>6. ASSUME NEW l \in Chats, ListenerHears(l) PROVE Bookkeeping'
  <2>1. registry \in Chats /\ start[registry] # "none"
    BY <1>0, <1>6 DEF ListenerHears, Started, Registered
  <2>2. \A d \in Chats : Started(d)'
    BY <1>0, <1>6, <2>1 DEF ListenerHears, SubUnchanged, Started
  <2>3. Registered' /\ Requested'
    BY <1>0, <1>6 DEF ListenerHears, SubUnchanged, Registered, Requested
  <2>4. PICK k \in Cancels : target[k] \in 1..registry /\ req[k] # "refused"
    BY <1>0, <1>6 DEF ListenerHears, Requested
  <2>5. CancelsNoOlder'
    BY <1>0, <1>6, <2>1, <2>4 DEF ListenerHears, SubUnchanged, CancelsNoOlder
  <2> QED BY <2>2, <2>3, <2>5 DEF Bookkeeping
<1>7. ASSUME NEW l \in Chats, ListenerCancels(l) PROVE Bookkeeping'
  <2>1. \A d \in Chats : Started(d)'
    BY <1>0, <1>7 DEF ListenerCancels, SubUnchanged, Started
  <2>2. Registered' /\ Requested'
    BY <1>0, <1>7 DEF ListenerCancels, SubUnchanged, Registered, Requested
  <2>3. CancelsNoOlder'
    BY <1>0, <1>7 DEF ListenerCancels, CancelToken, SubUnchanged, CancelsNoOlder
  <2> QED BY <2>1, <2>2, <2>3 DEF Bookkeeping
<1>8. ASSUME NEW c \in Chats, OpenStream(c) \/ Disconnect(c) \/ SendTerminal(c) PROVE Bookkeeping'
  <2>1. \A d \in Chats : Started(d)'
    BY <1>0, <1>8 DEF OpenStream, Disconnect, SendTerminal, StreamUnchanged, Started, Registered
  <2>2. UNCHANGED <<cancelled, start, registry, sess, entry, active, inbox, req, target, lst, held>>
    BY <1>8 DEF OpenStream, Disconnect, SendTerminal, StreamUnchanged
  <2>3. Registered'
    BY <1>0, <2>2 DEF Registered
  <2>4. Requested' /\ CancelsNoOlder'
    BY <1>0, <2>2 DEF Requested, CancelsNoOlder
  <2> QED BY <2>1, <2>3, <2>4 DEF Bookkeeping
<1>9. ASSUME NEW c \in Chats, Unsubscribe(c) PROVE Bookkeeping'
  <2>0. /\ UNCHANGED <<cancelled, stage, start, registry, sess, active, held, req, target>>
        /\ entry' = 0 /\ inbox' \subseteq inbox
        /\ lst' = [d \in Chats |-> IF d = entry THEN "ended" ELSE lst[d]]
        /\ strm[c] = "closing" /\ strm' = [strm EXCEPT ![c] = "closed"]
    BY <1>9 DEF Unsubscribe, StreamUnchanged
  <2>1. \A d \in Chats : /\ lst'[d] = IF d = entry THEN "ended" ELSE lst[d]
                         /\ strm'[d] # "none" => strm[d] # "none"
    BY <2>0
  <2>2. ASSUME NEW d \in Chats PROVE Started(d)'
    <3>1. lst'[d] # "none" => start[d] \notin {"none", "subscribing"}
      BY <1>0, <2>1 DEF Started, Registered
    <3>2. lst'[d] = "handling" => lst[d] = "handling"
      BY <2>1
    <3> QED BY <1>0, <2>0, <2>1, <3>1, <3>2 DEF Started
  <2>3. Registered'
    BY <1>0, <2>0 DEF Registered
  <2>4. Requested'
    BY <1>0, <2>0 DEF Requested
  <2>5. CancelsNoOlder'
    BY <1>0, <2>0, <2>1 DEF CancelsNoOlder
  <2> QED BY <2>2, <2>3, <2>4, <2>5 DEF Bookkeeping
<1>10. ASSUME NEW k \in Cancels, Check(k) PROVE Bookkeeping'
  <2>1. /\ UNCHANGED <<cancelled, stage, strm, lst, held, entry, sess, inbox, start, registry, active>>
        /\ req[k] = "none" /\ target[k] = 0
        /\ req'[k] = IF active /\ ~marked THEN "publishing" ELSE "refused"
        /\ target'[k] = registry
        /\ \A j \in Cancels \ {k} : req'[j] = req[j] /\ target'[j] = target[j]
    BY <1>0, <1>10 DEF Check, ReqUnchanged, Requested
  <2>2. (\A d \in Chats : Started(d)') /\ Registered'
    BY <1>0, <2>1 DEF Started, Registered
  <2>3. Requested'
    <3>1. ASSUME NEW j \in Cancels
          PROVE  /\ req'[j] = "none" => target'[j] = 0
                 /\ req'[j] \notin {"none", "refused"} => target'[j] \in 1..registry /\ active
      BY <1>0, <2>1 DEF Requested, Registered
    <3>2. ASSUME inbox # {} PROVE \E j \in Cancels : target'[j] \in 1..registry /\ req'[j] # "refused"
      <4>1. PICK j \in Cancels : target[j] \in 1..registry /\ req[j] # "refused"
        BY <1>0, <3>2 DEF Requested
      <4> QED BY <2>1, <4>1
    <3> QED BY <2>1, <3>1, <3>2 DEF Requested
  <2>4. CancelsNoOlder'
    BY <1>0, <2>1 DEF CancelsNoOlder
  <2> QED BY <2>2, <2>3, <2>4 DEF Bookkeeping
<1>11. ASSUME NEW k \in Cancels, Publish(k) \/ PublishFails(k) \/ Mark(k) PROVE Bookkeeping'
  <2>1. /\ UNCHANGED <<cancelled, stage, strm, lst, held, entry, sess, start, registry, active, target>>
        /\ req[k] \notin {"none", "refused"} /\ req'[k] \notin {"none", "refused"}
        /\ \A j \in Cancels \ {k} : req'[j] = req[j]
    BY <1>11 DEF Publish, PublishFails, Mark, ReqUnchanged
  <2>2. (\A d \in Chats : Started(d)') /\ Registered'
    BY <1>0, <2>1 DEF Started, Registered
  <2>3. Requested'
    BY <1>0, <2>1 DEF Requested
  <2>4. CancelsNoOlder'
    BY <1>0, <2>1 DEF CancelsNoOlder
  <2> QED BY <2>2, <2>3, <2>4 DEF Bookkeeping
<1>12. CASE ClearContext
  BY <1>0, <1>12 DEF ClearContext, Bookkeeping, Started, Registered, Requested, CancelsNoOlder
<1>13. CASE UNCHANGED vars
  BY <1>0, <1>13 DEF vars, Bookkeeping, Started, Registered, Requested, CancelsNoOlder
<1> QED
  BY <1>1, <1>2, <1>3, <1>4, <1>5, <1>6, <1>7, <1>8, <1>9, <1>10, <1>11, <1>12, <1>13 DEF Next

(* The three kept together. *)
LEMMA SessionStep == SessionInv /\ [Next]_vars => SessionInv'
BY RunStepKept, SessionTypedKept, ToldKept, BookkeepingKept DEF SessionInv

-----------------------------------------------------------------------------
(* The cancels of the session's only chat.                                 *)

Sole(c) == \A d \in Chats \ {c} : start[d] = "none"

(* While its client stays: once the session is active its listener is there
   until the token is cancelled or the run is over, which is also what ends the
   stream and with it the listener; and what was published was heard. *)
Attended(c) ==
  c \notin gone =>
    /\ strm[c] \in {"closing", "closed"} => c \in cancelled \/ Over(c)
    /\ Sole(c) /\ active => lst[c] \in {"listening", "handling"} \/ c \in cancelled \/ Over(c)
    /\ Sole(c) => \A k \in Cancels : req[k] \in {"published", "accepted"} => CancelHeard(c)

IInv == SessionInv /\ \A c \in Chats : Attended(c)

(* If a chat is the only one, it is the only one anything refers to. *)
LEMMA SoleIsMeant ==
  ASSUME SessionInv, NEW c \in Chats, Sole(c)
  PROVE  /\ \A l \in Chats \ {c} : lst[l] = "none" /\ strm[l] = "none"
         /\ registry \in {0, c} /\ entry \in {0, c}
         /\ lst[c] = "handling" => held[c] = c
         /\ lst[c] # "none" => registry = c
         /\ start[c] = "none" => registry = 0 /\ entry = 0 /\ ~active
<1> USE DEF SessionInv, SessionTyped, Bookkeeping, Sole
<1>1. registry # 0 => start[registry] # "none"
  BY ChatsArePositive DEF Started
<1>2. \A l \in Chats \ {c} : lst[l] = "none" /\ strm[l] = "none"
  BY DEF Started
<1>3. registry \in {0, c} /\ entry \in {0, c}
  BY <1>1 DEF Registered
<1>4. lst[c] = "handling" => held[c] = c
  BY DEF Started
<1>5. lst[c] # "none" => registry = c
  BY <1>3 DEF Started, Registered
<1>6. start[c] = "none" => registry = 0 /\ entry = 0 /\ ~active
  BY <1>1, <1>3 DEF Registered
<1> QED BY <1>2, <1>3, <1>4, <1>5, <1>6

(* What a task has queued a stream may end with: its run is over then, or its
   token is cancelled. *)
LEMMA QueuedLate ==
  ASSUME SessionInv, NEW c \in Chats, queue[c] # <<>>
  PROVE  c \in cancelled \/ Over(c)
<1>1. Len(queue[c]) \in Nat /\ Len(queue[c]) # 0 /\ Len(queue[c]) <= Room(stage[c])
  BY DEF SessionInv, RunInv, RunTyped, Fit
<1>2. stage[c] = "keep" => c \in cancelled
  BY DEF SessionInv, RunInv, Fit, CancelStages
<1> QED BY <1>1, <1>2 DEF Room, Over

(* A cancel that was heard stays so, and a listener stays until it has cancelled
   or its stream has ended. *)
LEMMA AttendedKept == IInv /\ [Next]_vars => \A c \in Chats : Attended(c)'
<1> SUFFICES ASSUME IInv, [Next]_vars, NEW d \in Chats, d \notin gone' PROVE Attended(d)'
  BY DEF Attended
<1>0. SessionInv /\ RunTyped /\ SessionTyped /\ Bookkeeping /\ Attended(d)
  BY DEF IInv, SessionInv, RunInv
<1> USE <1>0 DEF SessionTyped
<1>1. ASSUME UNCHANGED <<cancelled, start, lst, inbox, held, active, req, strm, gone>>,
             Over(d) => Over(d)'
      PROVE  Attended(d)'
  BY <1>1 DEF Attended, Sole, CancelHeard
<1>2. ASSUME NEW c \in Chats, RunStep(c) \/ Abort(c), UNCHANGED sessionVars PROVE Attended(d)'
  BY <1>1, <1>2, RunSeen DEF SessionInv
<1> USE DEF runVars, tokenVars, graphVars, reqVars, streamVars, stateVars, subVars, startVars
<1>3. ASSUME NEW c \in Chats, Register(c) PROVE Attended(d)'
  <2>1. /\ UNCHANGED <<cancelled, stage, lst, inbox, held, req, strm, gone, entry>> /\ Over(d)' = Over(d)
        /\ start[c] = "none" /\ start'[c] # "none" /\ \A e \in Chats \ {c} : start'[e] = start[e]
        /\ entry = 0 => UNCHANGED active
    BY <1>3 DEF Register, StartUnchanged, Over
  <2>2. CASE ~Sole(d)'
    BY <2>1, <2>2 DEF Attended
  <2>3. CASE Sole(d)'
    <3>1. c = d /\ Sole(d) /\ start[d] = "none"
      BY <2>1, <2>3 DEF Sole
    <3>2. ~active /\ ~active'
      BY <2>1, <3>1, SoleIsMeant
    <3>3. \A k \in Cancels : req'[k] \notin {"published", "accepted"}
      BY <2>1, <3>2 DEF Bookkeeping, Requested
    <3> QED BY <2>1, <3>2, <3>3 DEF Attended
  <2> QED BY <2>2, <2>3
<1>4. ASSUME NEW c \in Chats, Subscribed(c) PROVE Attended(d)'
  <2>1. /\ UNCHANGED <<cancelled, stage, inbox, held, req, strm, gone>> /\ Over(d)' = Over(d)
        /\ start[c] = "subscribing" /\ start'[c] = "preparing"
        /\ \A e \in Chats \ {c} : start'[e] = start[e]
        /\ lst' = [lst EXCEPT ![c] = "listening"]
    BY <1>4 DEF Subscribed, StartUnchanged, Over
  <2>2. CASE ~Sole(d)'
    BY <2>1, <2>2 DEF Attended
  <2>3. CASE Sole(d)'
    <3>1. c = d /\ Sole(d) /\ lst[d] = "none"
      BY <2>1, <2>3 DEF Sole, Bookkeeping, Started
    <3>2. CancelHeard(d) => CancelHeard(d)'
      BY <2>1, <3>1 DEF CancelHeard
    <3> QED BY <2>1, <3>1, <3>2 DEF Attended
  <2> QED BY <2>2, <2>3
<1>5. ASSUME NEW c \in Chats, StartFails(c) \/ Launch(c) PROVE Attended(d)'
  <2>1. /\ UNCHANGED <<cancelled, lst, inbox, held, active, req, strm, gone>>
        /\ Sole(d)' => Sole(d)
    BY <1>5 DEF StartFails, Launch, StartUnchanged, Sole
  <2>2. Over(d) => Over(d)'
    <3>1. CASE StartFails(c)
      BY <3>1 DEF StartFails, StartUnchanged, Over
    <3>2. CASE Launch(c)
      <4>1. stage[c] = "none" /\ stage' = [stage EXCEPT ![c] = "starting"]
        BY <3>2 DEF Launch, Goto, Bookkeeping, Started
      <4> QED BY <4>1 DEF Over, RunTyped
    <3> QED BY <1>5, <3>1, <3>2
  <2> QED BY <2>1, <2>2 DEF Attended, CancelHeard
<1>6. ASSUME NEW l \in Chats, ListenerHears(l) \/ ListenerCancels(l) PROVE Attended(d)'
  <2>1. /\ UNCHANGED <<stage, start, active, req, strm, gone>> /\ cancelled \subseteq cancelled'
        /\ Over(d)' = Over(d) /\ lst[l] # "none"
    BY <1>6 DEF ListenerHears, ListenerCancels, CancelToken, SubUnchanged, Over
  <2>2. CASE ~Sole(d)
    BY <2>1, <2>2 DEF Attended, Sole
  <2>3. CASE Sole(d)
    <3>1. l = d /\ registry = d
      BY <2>1, <2>3, SoleIsMeant
    <3>2. d \in cancelled' \/ (lst'[d] = "handling" /\ held'[d] = d)
      BY <1>6, <2>3, <3>1, SoleIsMeant DEF ListenerHears, ListenerCancels, CancelToken, SubUnchanged
    <3> QED BY <2>1, <3>2 DEF Attended, CancelHeard
  <2> QED BY <2>2, <2>3
<1>7. ASSUME NEW c \in Chats, OpenStream(c) \/ SendTerminal(c) \/ Disconnect(c) PROVE Attended(d)'
  <2>1. /\ UNCHANGED <<cancelled, stage, start, lst, inbox, held, active, req>> /\ Over(d)' = Over(d)
        /\ gone \subseteq gone'
    BY <1>7 DEF OpenStream, SendTerminal, Disconnect, StreamUnchanged, Over
  <2>2. strm'[d] \in {"closing", "closed"} => strm'[d] = strm[d] \/ queue[d] # <<>>
    BY <1>7 DEF OpenStream, SendTerminal, Disconnect, StreamUnchanged
  <2> QED BY <2>1, <2>2, QueuedLate DEF Attended, Sole, CancelHeard
<1>8. ASSUME NEW c \in Chats, Unsubscribe(c) PROVE Attended(d)'
  <2>1. /\ UNCHANGED <<cancelled, stage, start, held, active, req, gone>> /\ Over(d)' = Over(d)
        /\ strm[c] = "closing" /\ strm' = [strm EXCEPT ![c] = "closed"]
    BY <1>8 DEF Unsubscribe, StreamUnchanged, Over
  <2>2. CASE ~Sole(d)
    BY <2>1, <2>2 DEF Attended, Sole
  <2>3. CASE Sole(d)
    <3>1. c = d
      BY <2>1, <2>3, SoleIsMeant
    <3> QED BY <2>1, <3>1 DEF Attended, CancelHeard
  <2> QED BY <2>2, <2>3
<1>9. ASSUME NEW k \in Cancels, Publish(k) PROVE Attended(d)'
  <2>1. /\ UNCHANGED <<cancelled, stage, start, lst, held, active, strm, gone>> /\ Over(d)' = Over(d)
        /\ inbox' = inbox \cup {l \in Chats : lst[l] = "listening"}
        /\ req[k] = "publishing"
    BY <1>9 DEF Publish, Delivered, ReqUnchanged, Over
  <2>2. active
    BY <2>1 DEF Bookkeeping, Requested
  <2>3. Sole(d) => CancelHeard(d)'
    BY <2>1, <2>2, SoleIsMeant DEF Attended, CancelHeard
  <2> QED BY <2>1, <2>3 DEF Attended, Sole
<1>10. ASSUME NEW k \in Cancels, Check(k) \/ PublishFails(k) \/ Mark(k) PROVE Attended(d)'
  <2>1. /\ UNCHANGED <<cancelled, stage, start, lst, held, active, strm, gone>> /\ Over(d)' = Over(d)
        /\ inbox \subseteq inbox'
        /\ \A j \in Cancels : req'[j] \in {"published", "accepted"} => req[j] \in {"published", "accepted"}
    BY <1>10 DEF Check, PublishFails, Mark, Delivered, ReqUnchanged, Over
  <2> QED BY <2>1 DEF Attended, Sole, CancelHeard
<1>11. CASE ClearContext
  BY <1>1, <1>11 DEF ClearContext, Over
<1>12. CASE UNCHANGED vars
  BY <1>1, <1>12 DEF vars, Over
<1> QED
  BY <1>2, <1>3, <1>4, <1>5, <1>6, <1>7, <1>8, <1>9, <1>10, <1>11, <1>12 DEF Next

(* The whole invariant, at the start ... *)
LEMMA IInvInit == Init => IInv
BY SessionInit DEF IInv, Init, RunInit, Attended, CancelHeard, Over, Sole

(* ... and under every step. *)
LEMMA IInvStep == IInv /\ [Next]_vars => IInv'
BY SessionStep, AttendedKept DEF IInv

(* The invariant of the control plane, in every reachable state. *)
THEOREM ControlPlaneInv == Spec => []IInv
BY IInvInit, IInvStep, PTL DEF Spec

-----------------------------------------------------------------------------
(* What it implies.                                                        *)

(* Every variable keeps its type: no queue of a task ever holds more than four
   terminal events, no callback waits on a cancelled token. *)
THEOREM ChatTypeCorrect == Spec => []TypeOK
<1>1. IInv => TypeOK
  <2> SUFFICES ASSUME IInv PROVE TypeOK
    OBVIOUS
  <2>1. RunTyped /\ SessionTyped
    BY DEF IInv, SessionInv, RunInv
  <2>2. ASSUME NEW c \in Chats
        PROVE  queue[c] \in Seq({"error", "cancelled", "end"}) /\ Len(queue[c]) <= 4
    <3>1. queue[c] \in Seq(Terminals) /\ Len(queue[c]) <= Room(stage[c])
      BY DEF IInv, SessionInv, RunInv, Fit
    <3>2. Room(stage[c]) \in 0..4
      BY DEF Room
    <3>3. Len(queue[c]) \in Nat
      BY <3>1
    <3> QED BY <3>1, <3>2, <3>3 DEF Terminals
  <2> QED BY <2>1, <2>2 DEF RunTyped, SessionTyped, TypeOK, Outcomes
<1> QED BY <1>1, ControlPlaneInv, PTL

(* A stream tells of its run what is true: "done" only of one that ended by
   itself, uncancelled, "cancelled" only if the token was cancelled, whatever
   abort or exception met the task. *)
THEOREM StreamsTellTruth == Spec => []TerminalTruthful
<1>1. IInv => TerminalTruthful
  BY DEF IInv, SessionInv, Told, TerminalTruthful
<1> QED BY <1>1, ControlPlaneInv, PTL

(* A cancel reaches no run older than the one it was asked for. *)
THEOREM NoOlderRunCancelled == Spec => []CancelsNoOlder
<1>1. IInv => CancelsNoOlder
  BY DEF IInv, SessionInv, Bookkeeping
<1> QED BY <1>1, ControlPlaneInv, PTL

(* An accepted cancel of the session's only chat is heard. *)
THEOREM CancelNotLost == Spec => []NoCancelLost
<1>1. IInv => NoCancelLost
  BY DEF IInv, Attended, Sole, NoCancelLost
<1> QED BY <1>1, ControlPlaneInv, PTL

(* After its token is cancelled a graph begins no further call. *)
THEOREM CancelledRunCallsNothing == Spec => NoCallAfterCancel
<1> DEFINE Quiet == \A c \in Chats : stage'[c] = "call" /\ (stage[c] # "call" \/ left'[c] # left[c])
                      => c \notin cancelled
<1>1. ASSUME IInv, [Next]_vars PROVE [Quiet]_vars
  <2> SUFFICES ASSUME Next, NEW d \in Chats, stage'[d] = "call", stage[d] # "call" \/ left'[d] # left[d]
               PROVE  d \notin cancelled
    BY <1>1
  <2>0. RunTyped
    BY <1>1 DEF IInv, SessionInv, RunInv
  <2> USE DEF runVars, tokenVars, graphVars
  <2>1. ASSUME UNCHANGED <<stage, left>> PROVE FALSE
    BY <2>1
  <2>2. ASSUME NEW c \in Chats, RunStep(c) \/ Abort(c) PROVE d \notin cancelled
    <3> USE <2>0 DEF RunTyped, Goto
    <3>1. ASSUME NEW q, Leave(c, q), left' = left PROVE FALSE
      BY <3>1 DEF Leave, AfterAnswer
    <3>2. ASSUME GraphCancelled(c), stage[c] \in {"run", "call"} PROVE c = d => FALSE
      BY <3>2 DEF GraphCancelled, Leave, AfterAnswer
    <3>3. CASE StartCall(c)
      BY <3>2, <3>3 DEF StartCall, GraphCancelled, Leave, AfterAnswer
    <3>4. CASE ToolEnds(c)
      BY <3>2, <3>4 DEF ToolEnds, GraphCancelled, Leave, AfterAnswer
    <3>5. CASE Hook(c) \/ FinalAnswer(c) \/ RetrieveEnds(c) \/ ChunkQueued(c) \/ PartialNoted(c)
               \/ ToolsPersisted(c) \/ Unmirrored(c) \/ Cleared(c)
      BY <3>5 DEF Hook, FinalAnswer, RetrieveEnds, ChunkQueued, PartialNoted, ToolsPersisted, Unmirrored, Cleared
    <3>6. CASE LlmAnswers(c)
      BY <3>6 DEF LlmAnswers
    <3>7. CASE GraphEnds(c) \/ CallFails(c) \/ PartialPersisted(c)
      BY <3>1, <3>7 DEF GraphEnds, CallFails, PartialPersisted
    <3>8. CASE AnswerPersisted(c)
      BY <3>8 DEF AnswerPersisted, AfterAnswer
    <3>9. CASE CallCancelled(c)
      BY <3>9 DEF CallCancelled, GraphCancelled, Leave, AfterAnswer
    <3>10. CASE Abort(c)
      BY <3>1, <3>10 DEF Abort
    <3> QED BY <2>2, <3>3, <3>4, <3>5, <3>6, <3>7, <3>8, <3>9, <3>10 DEF RunStep
  <2>3. ASSUME NEW c \in Chats, Launch(c) PROVE FALSE
    BY <2>0, <2>3 DEF Launch, Goto, RunTyped
  <2>4. ASSUME NEW c \in Chats, Register(c) \/ Subscribed(c) \/ StartFails(c) PROVE FALSE
    BY <2>1, <2>4 DEF Register, Subscribed, StartFails, StartUnchanged
  <2>5. ASSUME NEW l \in Chats, ListenerHears(l) \/ ListenerCancels(l) PROVE FALSE
    BY <2>1, <2>5 DEF ListenerHears, ListenerCancels, SubUnchanged
  <2>6. ASSUME NEW c \in Chats, OpenStream(c) \/ SendTerminal(c) \/ Disconnect(c) \/ Unsubscribe(c) PROVE FALSE
    BY <2>1, <2>6 DEF OpenStream, SendTerminal, Disconnect, Unsubscribe, StreamUnchanged
  <2>7. ASSUME NEW k \in Cancels, Check(k) \/ Publish(k) \/ PublishFails(k) \/ Mark(k) PROVE FALSE
    BY <2>1, <2>7 DEF Check, Publish, PublishFails, Mark, ReqUnchanged
  <2>8. CASE ClearContext
    BY <2>1, <2>8 DEF ClearContext
  <2> QED BY <2>2, <2>3, <2>4, <2>5, <2>6, <2>7, <2>8 DEF Next
<1> QED BY <1>1, ControlPlaneInv, PTL DEF Spec, NoCallAfterCancel
=============================================================================
