------------------------------ MODULE AgentRun ------------------------------
(***************************************************************************)
(* The background task of each chat (_run_graph): it drives the agent      *)
(* graph, planner <-> tool_executor, then rag_retriever or the answer, and *)
(* puts what the client will see on the chat's queue.  A cancelled token   *)
(* meets it in four places: at the start of a node, in a call in flight    *)
(* (invoke_with_cancel), between nodes (route_after_planner), and as the   *)
(* on_cancel callback that cancels the asyncio task wherever it stands.    *)
(*                                                                         *)
(* Of the queue only what may end a stream is kept ("error", "cancelled"   *)
(* and the sentinel "end"); chunks of text end nothing.                    *)
(***************************************************************************)
EXTENDS Integers, Sequences

CONSTANTS
  Chats,          \* the chats, in the order they are started
  MaxIterations,  \* max_iterations: planner answers before the graph gives up
  MaxTools,       \* bound: tool calls one planner answer asks for
  CycleAfter      \* planner answers IterationMonitor needs to see a cycle (3)

ASSUME LimitsAssumption ==
  /\ MaxIterations \in Nat \ {0}
  /\ MaxTools \in Nat
  /\ CycleAfter \in Nat

VARIABLES
  cancelled,  \* chats whose CancellationToken is set
  hooked,     \* chats whose _abort_graph_task waits for the token
  aborts,     \* chats whose _abort_graph_task is scheduled
  stage,      \* the await each task stands at
  node,       \* the node that runs, or that comes next
  iter,       \* planner answers so far
  left,       \* tool calls left of the batch
  tooled,     \* chats with tool messages to persist
  queue,      \* what the task has put and the stream not taken
  outcome     \* history: how the graph ended

tokenVars == <<cancelled, hooked, aborts>>
graphVars == <<node, iter, left, tooled>>
runVars   == <<tokenVars, stage, graphVars, queue, outcome>>

Stages == {"none", "starting", "run", "call", "chunk", "note", "keep",
           "answer", "tools", "unmirror", "clear", "done"}

Goto(c, s, q) ==
  /\ stage' = [stage EXCEPT ![c] = s]
  /\ queue' = [queue EXCEPT ![c] = q]

Ends(c, how) == outcome' = [outcome EXCEPT ![c] = IF @ = "none" THEN how ELSE @]

-----------------------------------------------------------------------------
(* CancellationToken.                                                      *)

(* cancel: once; a registered callback becomes a task. *)
CancelToken(c) ==
  /\ cancelled' = cancelled \cup {c}
  /\ aborts' = aborts \cup (hooked \cap {c})
  /\ hooked' = hooked \ {c}

(* on_cancel: at once if the token is already cancelled. *)
OnCancel(c) ==
  /\ IF c \in cancelled THEN aborts' = aborts \cup {c} /\ UNCHANGED hooked
                        ELSE hooked' = hooked \cup {c} /\ UNCHANGED aborts
  /\ UNCHANGED cancelled

-----------------------------------------------------------------------------
(* The end of the task: its finally block.                                 *)

(* After the answer: the tool messages if there are any, else the sentinel. *)
AfterAnswer(c, q) ==
  IF c \in tooled THEN Goto(c, "tools", q) ELSE Goto(c, "clear", Append(q, "end"))

(* The block begins: an answer of some size is persisted first. *)
Leave(c, q) == Goto(c, "answer", q) \/ AfterAnswer(c, q)

AnswerPersisted(c) ==
  /\ stage[c] = "answer"
  /\ AfterAnswer(c, queue[c])
  /\ UNCHANGED <<tokenVars, graphVars, outcome>>

(* _persist_tool_messages, which puts an error if it fails, and a sentinel of
   its own. *)
ToolsPersisted(c) ==
  /\ stage[c] = "tools"
  /\ \/ Goto(c, "unmirror", queue[c] \o <<"end">>)
     \/ Goto(c, "unmirror", queue[c] \o <<"error", "end">>)
  /\ UNCHANGED <<tokenVars, graphVars, outcome>>

Unmirrored(c) ==
  /\ stage[c] = "unmirror"
  /\ Goto(c, "clear", Append(queue[c], "end"))
  /\ UNCHANGED <<tokenVars, graphVars, outcome>>

Cleared(c) ==
  /\ stage[c] = "clear"
  /\ Goto(c, "done", queue[c])
  /\ UNCHANGED <<tokenVars, graphVars, outcome>>

-----------------------------------------------------------------------------
(* The graph.                                                              *)

(* The runtime context is mirrored; the callback is registered and astream
   begins. *)
Hook(c) ==
  /\ stage[c] = "starting"
  /\ OnCancel(c)
  /\ Goto(c, "run", queue[c])
  /\ UNCHANGED <<graphVars, outcome>>

(* GraphCancelled reaches the task: what it calls the partial answer is noted
   and announced, if there is one. *)
GraphCancelled(c) ==
  /\ \/ Goto(c, "note", queue[c])
     \/ Leave(c, Append(queue[c], "cancelled"))
  /\ Ends(c, "cancelled")

(* A node begins: its token check, then its first call. *)
StartCall(c) ==
  /\ stage[c] = "run" /\ node[c] \in {"planner", "tools", "rag"}
  /\ \/ c \in cancelled /\ GraphCancelled(c)
     \/ c \notin cancelled /\ Goto(c, "call", queue[c]) /\ UNCHANGED outcome
  /\ UNCHANGED <<tokenVars, graphVars>>

(* final_answer, which awaits nothing and checks no token. *)
FinalAnswer(c) ==
  /\ stage[c] = "run" /\ node[c] = "final"
  /\ node' = [node EXCEPT ![c] = "end"]
  /\ Goto(c, "chunk", queue[c])
  /\ UNCHANGED <<tokenVars, iter, left, tooled, outcome>>

(* astream is exhausted. *)
GraphEnds(c) ==
  /\ stage[c] = "run" /\ node[c] = "end"
  /\ Leave(c, queue[c])
  /\ Ends(c, "completed")
  /\ UNCHANGED <<tokenVars, graphVars>>

(* Variant: nothing limits the iterations. *)
RouteWithoutLimit(c, asked) ==
  IF c \in cancelled THEN {"end"}
  ELSE IF asked > 0 THEN {"tools"} ELSE {"rag", "final"}

(* route_after_planner, after an answer that asked for so many tools. *)
Route(c, asked) ==
  IF c \in cancelled \/ iter[c] + 1 >= MaxIterations THEN {"end"}
  ELSE (IF iter[c] + 1 >= CycleAfter THEN {"end"} ELSE {})
       \cup (IF asked > 0 THEN {"tools"} ELSE {"rag", "final"})

(* Variant: the node's update leaves the iteration out. *)
NotCounted(c) == UNCHANGED iter

Counted(c) == iter' = [iter EXCEPT ![c] = @ + 1]

(* The LLM answers; the node's chunk goes to the loop in _run_graph. *)
LlmAnswers(c) ==
  /\ stage[c] = "call" /\ node[c] = "planner"
  /\ Counted(c)
  /\ \E asked \in 0..MaxTools : \E n \in Route(c, asked) :
       /\ node' = [node EXCEPT ![c] = n]
       /\ left' = [left EXCEPT ![c] = IF n = "tools" THEN asked ELSE 0]
  /\ IF c \in cancelled THEN Ends(c, "cancelled") ELSE UNCHANGED outcome
  /\ Goto(c, "chunk", queue[c])
  /\ UNCHANGED <<tokenVars, tooled>>

(* Variant: only the first call of a batch looks at the token. *)
ToolEndsUnchecked(c) ==
  /\ stage[c] = "call" /\ node[c] = "tools"
  /\ left' = [left EXCEPT ![c] = @ - 1]
  /\ IF left[c] > 1
     THEN UNCHANGED <<stage, node, queue>>
     ELSE node' = [node EXCEPT ![c] = "planner"] /\ Goto(c, "chunk", queue[c])
  /\ UNCHANGED <<tokenVars, iter, tooled, outcome>>

(* A tool answers, fails or times out, all of which are results; the next one
   of the batch is called, or the node is done. *)
ToolEnds(c) ==
  /\ stage[c] = "call" /\ node[c] = "tools"
  /\ left' = [left EXCEPT ![c] = @ - 1]
  /\ \/ /\ left[c] > 1 /\ c \notin cancelled
        /\ UNCHANGED <<stage, node, queue, outcome>>
     \/ /\ left[c] > 1 /\ c \in cancelled
        /\ GraphCancelled(c) /\ UNCHANGED node
     \/ /\ left[c] <= 1
        /\ node' = [node EXCEPT ![c] = "planner"]
        /\ Goto(c, "chunk", queue[c]) /\ UNCHANGED outcome
  /\ UNCHANGED <<tokenVars, iter, tooled>>

RetrieveEnds(c) ==
  /\ stage[c] = "call" /\ node[c] = "rag"
  /\ node' = [node EXCEPT ![c] = "final"]
  /\ Goto(c, "chunk", queue[c])
  /\ UNCHANGED <<tokenVars, iter, left, tooled, outcome>>

(* Variant: the exception is logged only. *)
CallFailsSilently(c) ==
  /\ stage[c] = "call" /\ node[c] \in {"planner", "rag"}
  /\ Leave(c, queue[c])
  /\ Ends(c, "error")
  /\ UNCHANGED <<tokenVars, graphVars>>

(* The LLM or the retrieval raises or times out. *)
CallFails(c) ==
  /\ stage[c] = "call" /\ node[c] \in {"planner", "rag"}
  /\ Leave(c, Append(queue[c], "error"))
  /\ Ends(c, "error")
  /\ UNCHANGED <<tokenVars, graphVars>>

(* The call loses its race with the token. *)
CallCancelled(c) ==
  /\ stage[c] = "call" /\ c \in cancelled
  /\ GraphCancelled(c)
  /\ UNCHANGED <<tokenVars, graphVars>>

(* A chunk is mirrored and queued, its tool messages kept. *)
ChunkQueued(c) ==
  /\ stage[c] = "chunk"
  /\ Goto(c, "run", queue[c])
  /\ tooled' = IF node[c] = "planner" THEN tooled \cup {c} ELSE tooled
  /\ UNCHANGED <<tokenVars, node, iter, left, outcome>>

(* The partial answer is mirrored, announced and then persisted. *)
PartialNoted(c) ==
  /\ stage[c] = "note"
  /\ Goto(c, "keep", Append(queue[c], "cancelled"))
  /\ UNCHANGED <<tokenVars, graphVars, outcome>>

PartialPersisted(c) ==
  /\ stage[c] = "keep"
  /\ Leave(c, queue[c])
  /\ UNCHANGED <<tokenVars, graphVars, outcome>>

(* _abort_graph_task: CancelledError at the await where the task stands.  It
   runs the finally block from its start or, if it is in there already, what is
   left of the innermost one. *)
Abort(c) ==
  /\ c \in aborts
  /\ aborts' = aborts \ {c}
  /\ \/ /\ stage[c] \in {"run", "call", "chunk", "note", "keep"}
        /\ Leave(c, queue[c]) /\ Ends(c, "aborted")
     \/ /\ stage[c] = "tools"
        /\ Goto(c, "done", Append(queue[c], "end")) /\ UNCHANGED outcome
     \/ /\ stage[c] \in {"answer", "unmirror", "clear", "done"}
        /\ Goto(c, "done", queue[c]) /\ UNCHANGED outcome
  /\ UNCHANGED <<cancelled, hooked, graphVars>>

-----------------------------------------------------------------------------
RunInit ==
  /\ cancelled = {} /\ hooked = {} /\ aborts = {}
  /\ stage = [c \in Chats |-> "none"]
  /\ node = [c \in Chats |-> "planner"]
  /\ iter = [c \in Chats |-> 0] /\ left = [c \in Chats |-> 0]
  /\ tooled = {}
  /\ queue = [c \in Chats |-> <<>>]
  /\ outcome = [c \in Chats |-> "none"]

RunStep(c) ==
  \/ Hook(c) \/ StartCall(c) \/ FinalAnswer(c) \/ GraphEnds(c)
  \/ LlmAnswers(c) \/ ToolEnds(c) \/ RetrieveEnds(c)
  \/ CallFails(c) \/ CallCancelled(c)
  \/ ChunkQueued(c) \/ PartialNoted(c) \/ PartialPersisted(c)
  \/ AnswerPersisted(c) \/ ToolsPersisted(c) \/ Unmirrored(c) \/ Cleared(c)

=============================================================================
