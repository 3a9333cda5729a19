---------------------------- MODULE StreamEvents ----------------------------
(***************************************************************************)
(* From the messages of the graph to the previews in the chat: what        *)
(* _stream_generator makes of a chunk, and what stream_tokens and          *)
(* handle_tool_event make of the events.  A server's emitter and a UI's    *)
(* previews only have the events between them.                             *)
(*                                                                         *)
(* A tool's payload is recognised by its shape; the chunks of a retrieval  *)
(* are abstracted to the question they were retrieved for, and tokens to   *)
(* their presence.                                                         *)
(***************************************************************************)
EXTENDS Naturals, SequencesExt, Ordering

CONSTANTS
  NormOf     \* normalise_query of each question: "" of a blank one

QueryTexts == DOMAIN NormOf
Tools == {"file_export", "web_search", "rag_query"}
RetrieverCall == "rag-retriever"   \* RAG_RETRIEVER_TOOL_CALL_ID

-----------------------------------------------------------------------------
(* The messages of a chunk.                                                *)

Call(id, tool, question) == [id |-> id, tool |-> tool, question |-> question]
AiMessage(text, calls) == [kind |-> "ai", text |-> text, calls |-> calls]
ToolMessage(call, shape) == [kind |-> "tool", call |-> call, shape |-> shape]
RetrievedDocs(some) == [kind |-> "docs", some |-> some]

(* What a tool answers: file_export a dict with artifact_id, and so on; every
   one may fail, and rag_query then has no chunks or an empty list of them. *)
Shapes(tool) ==
  CASE tool = "web_search" -> {"list", "error"}
    [] tool = "rag_query" -> {"chunks", "no chunks", "error"}
    [] tool = "file_export" -> {"artifact", "error"}

-----------------------------------------------------------------------------
(* The server's side.                                                      *)

(* The bookkeeping of one stream: rag_queries in the order of the calls, the
   emitted_rag_queries, and synthetic_rag_call_sent. *)
Emitter(question) == [question |-> question, queries |-> <<>>, emitted |-> {}, synthetic |-> FALSE]

(* resolve_tools *)
ResolveTools(enabled) == {t \in enabled : t \in Tools}

Token == [type |-> "token"]
ToolCallEvent(call) == [type |-> "tool_call", id |-> call.id, tool |-> call.tool, question |-> call.question]
RetrievedEvent(id, of, some) == [type |-> "retrieved_docs", id |-> id, of |-> of, some |-> some]

(* A call without an id is left out. *)
EmitAi(e, msg) ==
  LET named == {i \in DOMAIN msg.calls : msg.calls[i].id # ""}
      asked == {i \in named : msg.calls[i].tool = "rag_query"}
      announced == SelectAt(msg.calls, named)
  IN  [emitter |-> [e EXCEPT !.queries = @ \o SelectAt(msg.calls, asked)],
       events |-> (IF msg.text THEN <<Token>> ELSE <<>>)
                  \o [i \in DOMAIN announced |-> ToolCallEvent(announced[i])]]

(* _build_tool_result_preview, _parse_tool_full_results *)
ToolResultEvent(call, shape) ==
  [type |-> "tool_result", id |-> call.id, preview |-> shape, full |-> shape = "list"]

(* An artifact first, then the result, then what was retrieved. *)
EmitTool(e, msg) ==
  LET call == msg.call
      retrieved == msg.shape \in {"chunks", "no chunks"} /\ call.id # ""
      norm == NormOf[call.question]
  IN  [emitter |-> [e EXCEPT !.emitted = IF retrieved /\ norm # "" THEN @ \cup {norm} ELSE @],
       events |-> (IF msg.shape = "artifact" THEN <<[type |-> "artifact_ready", id |-> call.id]>> ELSE <<>>)
                  \o <<ToolResultEvent(call, msg.shape)>>
                  \o (IF retrieved THEN <<RetrievedEvent(call.id, call.question, msg.shape = "chunks")>> ELSE <<>>)]

(* Variant: any rag_query call will do, the most recent one. *)
LatestRagCallId(e) == IF e.queries = <<>> THEN {} ELSE {Last(e.queries).id}

(* _matching_rag_call_id: the most recent call with the user's question. *)
MatchingRagCallId(e) ==
  LET same == {i \in DOMAIN e.queries : NormOf[e.queries[i].question] = NormOf[e.question]} IN
  IF NormOf[e.question] = "" \/ same = {} THEN {} ELSE {e.queries[Max(same)].id}

(* The retriever node's chunks: unless the question was answered already they
   go to its call's preview or, without one, to a preview of their own. *)
EmitDocs(e, msg) ==
  LET norm == NormOf[e.question]
      matching == MatchingRagCallId(e)
      id == IF matching = {} THEN RetrieverCall ELSE CHOOSE i \in matching : TRUE
      announce == matching = {} /\ ~e.synthetic
  IN  IF ~msg.some \/ (norm # "" /\ norm \in e.emitted)
      THEN [emitter |-> e, events |-> <<>>]
      ELSE [emitter |-> [e EXCEPT !.synthetic = @ \/ announce,
                                  !.emitted = IF norm # "" THEN @ \cup {norm} ELSE @],
            events |-> (IF announce THEN <<ToolCallEvent(Call(id, "rag_query", e.question))>> ELSE <<>>)
                       \o <<RetrievedEvent(id, e.question, TRUE)>>]

Emit(e, msg) ==
  CASE msg.kind = "ai" -> EmitAi(e, msg)
    [] msg.kind = "tool" -> EmitTool(e, msg)
    [] msg.kind = "docs" -> EmitDocs(e, msg)

(* A chunk: its messages one after the other. *)
EmitAll(e, messages) ==
  LET made[i \in 0..Len(messages)] ==
        IF i = 0 THEN [emitter |-> e, events |-> <<>>]
        ELSE LET out == Emit(made[i - 1].emitter, messages[i]) IN
             [emitter |-> out.emitter, events |-> made[i - 1].events \o out.events]
  IN  made[Len(messages)]

(* _rag_query_answered, of the tool messages so far: the graph does not go to
   the retriever for a question that rag_query has answered. *)
RagQueryAnswered(question, answers) ==
  /\ NormOf[question] # ""
  /\ \E a \in answers : /\ a.call.tool = "rag_query" /\ a.shape \in {"chunks", "no chunks"}
                        /\ NormOf[a.call.question] = NormOf[question]

-----------------------------------------------------------------------------
(* The UI's side: pending_tool_calls, by id.                               *)

Known(previews) == {p.id : p \in previews}

Preview(id, tool, question) ==
  [id |-> id, tool |-> tool, question |-> question, status |-> "running",
   result |-> "none", chunksOf |-> {}, full |-> FALSE]

Updated(previews, id, change(_)) == {IF p.id = id THEN change(p) ELSE p : p \in previews}

(* handle_tool_event, behind stream_tokens and _on_tool_event: events without
   an id and results without a preview are dropped. *)
HandleToolEvent(previews, event) ==
  IF event.id = "" THEN previews ELSE
  CASE event.type = "tool_call" ->
         {p \in previews : p.id # event.id} \cup {Preview(event.id, event.tool, event.question)}
    [] event.type = "tool_result" ->
         Updated(previews, event.id, LAMBDA p :
           [p EXCEPT !.status = "done", !.result = event.preview, !.full = @ \/ event.full])
    [] event.type = "retrieved_docs" ->
         Updated(previews, event.id, LAMBDA p :
           [p EXCEPT !.status = "done", !.result = "chunks",
                     !.chunksOf = IF event.some THEN {event.of} ELSE @])

(* render_tool_calls: the panels that a rerun of the fragment rebuilds, each
   under the question of its preview. *)
Panel(kind, p, of) == [kind |-> kind, id |-> p.id, question |-> p.question, of |-> of]

RenderToolCalls(previews) ==
  {Panel("preview", p, p.question) : p \in previews}
    \cup (UNION {{Panel("citations", p, of) : of \in p.chunksOf} : p \in previews})
    \cup {Panel("web results", p, "") : p \in {q \in previews : q.full}}

=============================================================================
