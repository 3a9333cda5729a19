----------------------------- MODULE ToolCalling -----------------------------
(***************************************************************************)
(* How the planner's model is made to call tools: the mode chosen for it   *)
(* (choose_mode), the model that build_agent_graph binds, and one answer   *)
(* of the planner, which may take several invocations of the model.        *)
(*                                                                         *)
(* A reply carries calls of the API's own and a text.  Of a text only the  *)
(* JSON objects in it count: the name of a tool stands for a call as the   *)
(* prompt asks for it; "garbled" for one whose arguments are a string that *)
(* is no JSON; "deep" for one nested too deep for the parser's patterns;   *)
(* "record" for an object without "tool" that has a "name".                *)
(***************************************************************************)
EXTENDS Naturals, SequencesExt

CONSTANTS
  Setups,    \* what chats are started with: tools, provider and model, the
             \* mode asked for ("none" of auto), what llm.bind_tools does
  Replies    \* replies of a model with tools bound

ASSUME RepliesAssumption ==
  Replies \subseteq [calls : Seq(STRING), text : Seq(STRING), blocks : BOOLEAN]

VARIABLES
  setup,     \* one of Setups; never changes
  bound,     \* bound_llm: "raw", "native", "react", "hybrid"; "none" before
  via,       \* how the model is invoked right now: "none", or as bound
  replied,   \* history: the invocations of the answer, with what came
  answer     \* what the planner got

toolVars == <<setup, bound, via, replied, answer>>

Modes == {"native", "react", "hybrid"}

-----------------------------------------------------------------------------
(* The capability matrix and the mode.                                     *)

(* DEFAULT_CAPABILITIES_YAML *)
NativeModels ==
  {<<"openai", "gpt-4o-mini">>, <<"openai", "gpt-4o">>,
   <<"anthropic", "claude-3-5-sonnet">>, <<"anthropic", "claude-3-haiku">>,
   <<"custom-openai", "default">>, <<"zai", "glm-4.5">>, <<"zai", "glm-4-flash">>}
Capabilities == NativeModels \cup {<<"ollama", "llama3.1-8b">>}

(* get_capabilities: the settings have the provider in upper case. *)
MatrixProvider(provider) ==
  CASE provider = "OPENAI" -> "openai" [] provider = "ANTHROPIC" -> "anthropic"
    [] provider = "OLLAMA" -> "ollama" [] provider = "ZAI" -> "zai"
    [] provider = "CUSTOM-OPENAI" -> "custom-openai"
GetCapabilities(provider, model) == Capabilities \cap {<<MatrixProvider(provider), model>>}

(* default_for_capabilities *)
DefaultFor(entry) == IF entry \in NativeModels THEN "hybrid" ELSE "react"

(* choose_mode; an unknown model is tried both ways. *)
ChooseMode(s) ==
  LET known == GetCapabilities(s.provider, s.model) IN
  IF s.mode # "none" THEN s.mode
  ELSE IF known = {} THEN "hybrid"
  ELSE DefaultFor(CHOOSE entry \in known : TRUE)

(* bind_tools, behind build_agent_graph, which goes on without tools if the
   model knows none; any other error, or a mode that is none, is the chat's. *)
BindTools(s, mode) ==
  CASE mode = "react" -> "react"
    [] mode = "hybrid" -> IF s.binds = "ok" THEN "hybrid" ELSE "react"
    [] mode = "native" -> IF s.binds = "ok" THEN "native"
                          ELSE IF s.binds = "NotImplementedError" THEN "raw" ELSE "failed"
    [] OTHER -> "failed"

-----------------------------------------------------------------------------
(* The texts.                                                              *)

IsCall(object) == object \notin {"deep", "record"}

(* parse_react_response: the first object with "tool", else with "name". *)
ParseReactResponse(text) ==
  LET call == SelectInSeq(text, IsCall)
      name == SelectInSeq(text, LAMBDA object : object = "record")
  IN  IF call # 0 THEN <<text[call]>> ELSE IF name # 0 THEN <<text[name]>> ELSE <<>>

(* _to_openai_tool_call, and what AIMessage reads of it: not the arguments
   that are no JSON.  A record's name is taken for a tool's. *)
ToOpenAiToolCall(calls) == IF calls = <<"garbled">> THEN <<>> ELSE calls

Answer(at, calls, text) == [at |-> at, calls |-> calls, text |-> text]
Nothing == Answer("none", <<>>, <<>>)
Failure == Answer("failed", <<>>, <<>>)
PlannerMessage(reply, calls) == Answer("message", calls, reply.text)

Invoke(how) == via' = how /\ UNCHANGED answer
Return(message) == via' = "none" /\ answer' = message

-----------------------------------------------------------------------------

(* build_agent_graph *)
BuildAgentGraph ==
  /\ bound = "none"
  /\ bound' = IF setup.tools = {} THEN "raw" ELSE BindTools(setup, ChooseMode(setup))
  /\ answer' = IF bound' = "failed" THEN Failure ELSE Nothing
  /\ UNCHANGED <<setup, via, replied>>

(* _planner_node invokes the model; the hybrid one natively first. *)
Plan ==
  /\ bound \in Modes \cup {"raw"} /\ replied = <<>> /\ via = "none" /\ answer = Nothing
  /\ Invoke(IF bound = "hybrid" THEN "native" ELSE bound)
  /\ UNCHANGED <<setup, bound, replied>>

Reply(reply) == replied' = Append(replied, [via |-> via, raised |-> FALSE, reply |-> reply])

(* Without tools bound to it the model makes no calls of the API's. *)
UnboundReplies == {reply \in Replies : reply.calls = <<>>}

RawReply ==
  /\ via = "raw"
  /\ \E reply \in UnboundReplies : Reply(reply) /\ Return(PlannerMessage(reply, <<>>))
  /\ UNCHANGED <<setup, bound>>

(* ReActBoundModel.ainvoke: blocks are read as they print. *)
ReactReply ==
  /\ via = "react"
  /\ \E reply \in UnboundReplies :
       Reply(reply) /\ Return(PlannerMessage(reply, ToOpenAiToolCall(ParseReactResponse(reply.text))))
  /\ UNCHANGED <<setup, bound>>

(* Variant: only an invocation that raises is asked again. *)
ApiIsTrusted(reply) == Return(PlannerMessage(reply, reply.calls))

(* HybridBoundModel.ainvoke: a text that calls a tool, or blocks, which the
   parser raises on, make it ask again. *)
HybridReply(reply) ==
  IF reply.calls = <<>> /\ (reply.blocks \/ ParseReactResponse(reply.text) # <<>>)
  THEN Invoke("react")
  ELSE Return(PlannerMessage(reply, reply.calls))

NativeReply ==
  /\ via = "native"
  /\ \E reply \in Replies :
       /\ Reply(reply)
       /\ IF bound = "hybrid" THEN HybridReply(reply) ELSE Return(PlannerMessage(reply, reply.calls))
  /\ UNCHANGED <<setup, bound>>

(* An invocation raises: the hybrid model falls back, also from a fallback
   that was asked for from within the try. *)
Raise ==
  /\ via # "none"
  /\ replied' = Append(replied, [via |-> via, raised |-> TRUE, reply |-> [calls |-> <<>>, text |-> <<>>, blocks |-> FALSE]])
  /\ IF bound = "hybrid" /\ (via = "native" \/ ~Last(replied).raised)
     THEN Invoke("react") ELSE Return(Failure)
  /\ UNCHANGED <<setup, bound>>

-----------------------------------------------------------------------------

ToolInit ==
  /\ setup \in Setups
  /\ bound = "none" /\ via = "none" /\ replied = <<>> /\ answer = Nothing

ToolNext == BuildAgentGraph \/ Plan \/ RawReply \/ ReactReply \/ NativeReply \/ Raise

ToolSpec == ToolInit /\ [][ToolNext]_toolVars

-----------------------------------------------------------------------------

ToolTypeOK ==
  /\ bound \in Modes \cup {"none", "raw", "failed"}
  /\ via \in {"none", "raw", "native", "react"}
  /\ answer.at \in {"none", "failed", "message"}
  /\ Len(replied) <= 3

(* No call that the model made in a way it was offered is passed over: calls of
   the API's are taken from the first reply that has them, an answer without
   calls comes with a text in which none can be read (unless a garbled one is
   in its way), and a call in an answer is of the last reply, the one whose text
   the user sees
   (tool_calling_adapter.py:225, 322). *)
NoCallPassedOver ==
  answer.at = "message" /\ bound \in {"react", "hybrid"} =>
    LET last == Last(replied).reply IN
    /\ \A i \in 1..(Len(replied) - 1) : replied[i].reply.calls = <<>>
    /\ answer.text = last.text
    /\ answer.calls = <<>> => "garbled" \in Range(last.text) \/ Range(last.text) \subseteq {"deep"}
    /\ Range(answer.calls) \subseteq Range(last.calls) \cup Range(last.text)

=============================================================================
