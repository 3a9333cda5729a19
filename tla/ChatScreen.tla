----------------------------- MODULE ChatScreen -----------------------------
(***************************************************************************)
(* The Streamlit page: one script per browser tab, over the messages of    *)
(* every session that all the tabs of the process share (_message_store)   *)
(* and the artifacts that the last streams announced, shared too.          *)
(*                                                                         *)
(* A click reruns the tab's script from the top; what the script was doing *)
(* is abandoned at its next write to the page.  So every action of a user  *)
(* may cut a stream short, but not the POST, which writes nothing.         *)
(*                                                                         *)
(* A chunk of the graph is made when a stream takes it, and a stream takes *)
(* the next one when the client has read the events of the last: nothing   *)
(* of the graph depends on how far the client has read.                    *)
(***************************************************************************)
EXTENDS StreamEvents

CONSTANTS
  Tabs,        \* browser tabs
  Sids,        \* session ids
  Scenes       \* what tabs, prompts and answers to consider together

VARIABLES
  scene,     \* one of Scenes: the tabs, the ids of sessions, the user's questions and panels, the
             \* messages that each answer of the planner may be (as many answers
             \* as max_iterations), and the bounds on prompts and on clearings;
             \* never changes
  store,     \* _message_store
  cleared,   \* history: the clearings, by session
  arrived,   \* chat._pending_artifacts
  sessions,  \* _sessions: the turn that each session is at, 0 of none
  turns,     \* the turns started, each with how far its graph is
  screen     \* what each tab shows, and the stream it reads

(* What the planner may answer, and the calls of all of a scene's answers. *)
AiMessages ==
  [kind : {"ai"}, text : BOOLEAN, calls : Seq([id : STRING, tool : STRING, question : QueryTexts])]

CallsOf(s) == UNION {Range(msg.calls) : msg \in UNION Range(s.answers)}

(* A planner answers at least once; each of its calls has an id of its own
   (tool_calling_adapter.py:51), or none, and never the retriever node's. *)
ASSUME ScenesAssumption ==
  /\ "" \notin Sids
  /\ \A s \in Scenes :
       /\ s.tabs \subseteq Tabs /\ s.sids \subseteq Sids /\ s.questions \subseteq QueryTexts
       /\ s.prompts \in Nat /\ s.clears \in Nat
       /\ s.answers \in Seq(SUBSET AiMessages) /\ s.answers # <<>>
       /\ \A c, d \in CallsOf(s) : c.id # RetrieverCall /\ (c.id = d.id /\ c.id # "" => c = d)

screenVars == <<scene, store, cleared, arrived, sessions, turns, screen>>

StoredSids == {s \in Sids : store[s] # <<>>}

NoStream == [turn |-> 0, emitter |-> Emitter(""), wire |-> <<>>]
Blank == [stage |-> "closed", sid |-> "", messages |-> <<>>, registry |-> {},
          prompt |-> 0, previews |-> {}, artifacts |-> {},
          answer |-> FALSE, stream |-> NoStream, seen |-> 0]

-----------------------------------------------------------------------------
(* session.py.  Every script begins with init_state and the sidebar, which
   leave the session's id and those of the store in the registry. *)

LoadMessages(sid) == store[sid]

(* reset_streaming_state, and the end of the stream that the script read. *)
Reset(tab) == [tab EXCEPT !.stage = "idle", !.previews = {}, !.answer = FALSE, !.stream = NoStream]

Registered(tab) == [tab EXCEPT !.registry = @ \cup {tab.sid} \cup StoredSids]

(* A click interrupts anything but the POST. *)
Clickable(t) == screen[t].stage \in {"idle", "connecting", "streaming"}

(* generate_session_id: an id that nobody has used. *)
Used == StoredSids \cup UNION {screen[t].registry : t \in Tabs}
GenerateSessionId == IF scene.sids \subseteq Used THEN {} ELSE {CHOOSE s \in scene.sids : s \notin Used}

(* The ?session_id of the URL: a tab's own, or what another one's was. *)
Addresses(t) == IF screen[t].sid # "" THEN {screen[t].sid} ELSE Used \cup GenerateSessionId

(* init_state of a new browser session: a new tab, or a reload of one. *)
OpenTab(t) ==
  /\ screen[t].stage = "closed" \/ Clickable(t)
  /\ \E sid \in Addresses(t) :
       screen' = [screen EXCEPT ![t] =
         Registered([Blank EXCEPT !.stage = "idle", !.sid = sid, !.messages = LoadMessages(sid),
                                  !.seen = cleared[sid]])]
  /\ UNCHANGED <<store, cleared, arrived, sessions, turns>>

(* new_session *)
NewSession(t) ==
  /\ Clickable(t)
  /\ \E sid \in GenerateSessionId :
       screen' = [screen EXCEPT ![t] =
         Registered([Reset(@) EXCEPT !.sid = sid, !.messages = <<>>, !.artifacts = {},
                                     !.seen = cleared[sid]])]
  /\ UNCHANGED <<store, cleared, arrived, sessions, turns>>

(* Variant: the messages of the last session stay. *)
SwitchKeeping(t) ==
  /\ Clickable(t)
  /\ \E sid \in screen[t].registry \ {screen[t].sid} :
       screen' = [screen EXCEPT ![t] =
         Registered([Reset(@) EXCEPT !.sid = sid, !.artifacts = {}, !.seen = cleared[sid]])]
  /\ UNCHANGED <<store, cleared, arrived, sessions, turns>>

(* switch_session *)
SwitchSession(t) ==
  /\ Clickable(t)
  /\ \E sid \in screen[t].registry \ {screen[t].sid} :
       screen' = [screen EXCEPT ![t] =
         Registered([Reset(@) EXCEPT !.sid = sid, !.messages = LoadMessages(sid), !.artifacts = {},
                                     !.seen = cleared[sid]])]
  /\ UNCHANGED <<store, cleared, arrived, sessions, turns>>

(* clear_context: of the service's session, unless the request fails, and of
   the page's. *)
ClearContext(t) ==
  LET sid == screen[t].sid IN
  /\ Clickable(t) /\ cleared[sid] < scene.clears
  /\ \/ sessions' = [sessions EXCEPT ![sid] = 0]
     \/ UNCHANGED sessions
  /\ store' = [store EXCEPT ![sid] = <<>>]
  /\ cleared' = [cleared EXCEPT ![sid] = @ + 1]
  /\ screen' = [screen EXCEPT ![t] =
       Registered([Reset(@) EXCEPT !.messages = <<>>, !.artifacts = {}, !.seen = cleared[sid] + 1])]
  /\ UNCHANGED <<arrived, turns>>

(* Anything else that is clicked while the answer streams. *)
Interrupt(t) ==
  /\ screen[t].stage \in {"connecting", "streaming"}
  /\ screen' = [screen EXCEPT ![t] = Registered([@ EXCEPT !.stage = "idle", !.answer = FALSE, !.stream = NoStream])]
  /\ UNCHANGED <<store, cleared, arrived, sessions, turns>>

Message(role, sid, of) == [role |-> role, sid |-> sid, of |-> of]

(* add_message *)
AddMessage(t, tab, message) ==
  /\ store' = [store EXCEPT ![tab.sid] = Append(@, message)]
  /\ screen' = [screen EXCEPT ![t] = [tab EXCEPT !.messages = Append(@, message)]]

-----------------------------------------------------------------------------
(* render_streaming_fragment.                                              *)

(* render_settings_panel: a widget is on the page only with its tool, and has
   its default otherwise. *)
SettingsPanel(widgets) ==
  LET rag == "rag_query" \in widgets.tools IN
  [widgets EXCEPT !.strategy = IF rag THEN @ ELSE "hybrid",
                  !.topK = IF rag THEN @ ELSE 5,
                  !.reranker = IF rag THEN @ ELSE "bge",
                  !.maxResults = IF "web_search" \in widgets.tools THEN @ ELSE 5,
                  !.mode = IF @ = "auto" THEN "none" ELSE @]

(* A prompt: its message, then the POST is under way. *)
Prompt(t, question, widgets) ==
  LET n == Len(turns) + 1
      settings == SettingsPanel(widgets)
  IN
  /\ Clickable(t) /\ n <= scene.prompts
  /\ turns' = Append(turns, [at |-> "asked", question |-> question, settings |-> settings,
                             tools |-> ResolveTools(settings.tools),
                             answers |-> {}, calls |-> <<>>, round |-> 0])
  /\ AddMessage(t, [Registered(Reset(screen[t])) EXCEPT !.stage = "posting", !.prompt = n],
                Message("user", screen[t].sid, n))
  /\ UNCHANGED <<cleared, arrived, sessions>>

(* send_message: the service has started the turn, and the buffers that every
   tab writes to are emptied; or it is unavailable. *)
Post(t) ==
  /\ screen[t].stage = "posting"
  /\ \/ /\ sessions' = [sessions EXCEPT ![screen[t].sid] = screen[t].prompt]
        /\ turns' = [turns EXCEPT ![screen[t].prompt].at = "planner"]
        /\ arrived' = {}
        /\ screen' = [screen EXCEPT ![t].stage = "connecting"]
     \/ /\ screen' = [screen EXCEPT ![t].stage = "idle"]
        /\ UNCHANGED <<arrived, sessions, turns>>
  /\ UNCHANGED <<store, cleared>>

(* The stream is opened: of the turn that its session is at by now. *)
Connect(t) ==
  LET turn == sessions[screen[t].sid] IN
  /\ screen[t].stage = "connecting" /\ turn # 0
  /\ screen' = [screen EXCEPT ![t].stage = "streaming",
                              ![t].stream = [turn |-> turn, emitter |-> Emitter(turns[turn].question),
                                             wire |-> <<>>]]
  /\ UNCHANGED <<store, cleared, arrived, sessions, turns>>

-----------------------------------------------------------------------------
(* The graph, a chunk at a time.                                           *)

(* The stream of t takes a chunk of its turn. *)
Take(t, messages, turn) ==
  LET stream == screen[t].stream
      made == EmitAll(stream.emitter, messages)
  IN  /\ turns' = [turns EXCEPT ![stream.turn] = turn]
      /\ screen' = [screen EXCEPT ![t].stream = [@ EXCEPT !.emitter = made.emitter, !.wire = made.events]]
      /\ UNCHANGED <<store, cleared, arrived, sessions>>

Ready(t, at) ==
  /\ screen[t].stage = "streaming" /\ screen[t].stream.wire = <<>>
  /\ turns[screen[t].stream.turn].at = at

(* The planner answers; without calls, or with no tools, comes the question
   of the documents. *)
PlannerChunk(t) ==
  /\ Ready(t, "planner")
  /\ LET turn == turns[screen[t].stream.turn]
         round == turn.round + 1
     IN  \E msg \in scene.answers[round] :
           LET next == IF round = Len(scene.answers) THEN "end"
                       ELSE IF msg.calls # <<>> /\ turn.tools # {} THEN "tools" ELSE "answer"
           IN  Take(t, <<msg>>, [turn EXCEPT !.at = next, !.round = round, !.calls = msg.calls])

(* tool_executor: an answer to every call, an error to a tool that is off. *)
ToolsChunk(t) ==
  /\ Ready(t, "tools")
  /\ LET turn == turns[screen[t].stream.turn] IN
       \E shapes \in [DOMAIN turn.calls -> UNION {Shapes(tool) : tool \in Tools}] :
         /\ \A i \in DOMAIN turn.calls :
              shapes[i] \in IF turn.calls[i].tool \in turn.tools THEN Shapes(turn.calls[i].tool) ELSE {"error"}
         /\ LET answers == [i \in DOMAIN turn.calls |-> ToolMessage(turn.calls[i], shapes[i])] IN
              Take(t, answers, [turn EXCEPT !.at = "planner", !.answers = @ \cup Range(answers)])

(* rag_retriever: not for what rag_query has answered.  It may be off, the
   words may not call for it, an earlier turn may have answered. *)
DocsChunk(t) ==
  /\ Ready(t, "answer")
  /\ LET turn == turns[screen[t].stream.turn] IN
       /\ ~RagQueryAnswered(turn.question, turn.answers)
       /\ \E some \in BOOLEAN : Take(t, <<RetrievedDocs(some)>>, [turn EXCEPT !.at = "end"])

-----------------------------------------------------------------------------
(* The client's side of the stream.                                        *)

(* stream_tokens, an event. *)
Receive(t) ==
  LET wire == screen[t].stream.wire IN
  /\ screen[t].stage = "streaming" /\ wire # <<>>
  /\ LET event == Head(wire)
         token == event.type = "token"
         artifact == event.type = "artifact_ready"
     IN  /\ screen' = [screen EXCEPT
              ![t].stream.wire = Tail(wire),
              ![t].answer = @ \/ token,
              ![t].previews = IF token \/ artifact THEN @ ELSE HandleToolEvent(@, event)]
         /\ arrived' = IF artifact THEN arrived \cup {<<screen[t].stream.turn, event.id>>} ELSE arrived
  /\ UNCHANGED <<store, cleared, sessions, turns>>

(* The fragment ends: the answer is kept, also of a stream that broke. *)
Finish(t) ==
  LET tab == [screen[t] EXCEPT !.stage = "idle", !.answer = FALSE, !.stream = NoStream,
                               !.artifacts = IF arrived # {} THEN arrived ELSE @]
  IN  /\ \/ screen[t].answer /\ AddMessage(t, tab, Message("assistant", tab.sid, tab.prompt))
         \/ ~screen[t].answer /\ screen' = [screen EXCEPT ![t] = tab] /\ UNCHANGED store
      /\ UNCHANGED <<cleared, arrived, sessions>>

(* A terminal event, which only one stream of a turn gets: the graph's end, an
   error in it, or a cancellation. *)
EndStream(t) ==
  /\ \E at \in {"planner", "tools", "answer", "end"} : Ready(t, at)
  /\ turns' = [turns EXCEPT ![screen[t].stream.turn] = [@ EXCEPT !.at = "over", !.answers = {}, !.calls = <<>>]]
  /\ Finish(t)

(* The connection fails, now or before; or the session is not there any more,
   and the one event is an error. *)
BreakStream(t) ==
  /\ screen[t].stage \in {"connecting", "streaming"}
  /\ Finish(t)
  /\ UNCHANGED turns

-----------------------------------------------------------------------------

ScreenInit ==
  /\ scene \in Scenes
  /\ store = [s \in Sids |-> <<>>]
  /\ cleared = [s \in Sids |-> 0]
  /\ arrived = {}
  /\ sessions = [s \in Sids |-> 0]
  /\ turns = <<>>
  /\ screen = [t \in Tabs |-> Blank]

ScreenNext ==
  UNCHANGED scene /\ \E t \in scene.tabs :
    \/ OpenTab(t) \/ NewSession(t) \/ SwitchSession(t) \/ ClearContext(t) \/ Interrupt(t)
    \/ \E question \in scene.questions, widgets \in scene.panels : Prompt(t, question, widgets)
    \/ Post(t) \/ Connect(t)
    \/ PlannerChunk(t) \/ ToolsChunk(t) \/ DocsChunk(t)
    \/ Receive(t) \/ EndStream(t) \/ BreakStream(t)

ScreenSpec == ScreenInit /\ [][ScreenNext]_screenVars

-----------------------------------------------------------------------------

ScreenTypeOK ==
  /\ store \in [Sids -> Seq([role : {"user", "assistant"}, sid : Sids, of : DOMAIN turns])]
  /\ cleared \in [Sids -> 0..scene.clears]
  /\ sessions \in [Sids -> 0..Len(turns)]
  /\ \A n \in DOMAIN turns : turns[n].tools \subseteq Tools
  /\ \A t \in Tabs : /\ screen[t].stage \in {"closed", "idle", "posting", "connecting", "streaming"}
                     /\ screen[t].stage # "closed" => screen[t].sid \in screen[t].registry

(* What the page shows of a retrieval is of the question that its preview
   names, and the documents that the retriever node found always come to a
   preview that the page has: the server keeps its calls and the page its
   previews, and only the order of the events holds them together
   (service.py:1590, render.py:480). *)
PreviewsTruthful ==
  \A t \in Tabs :
    LET wire == screen[t].stream.wire IN
    /\ \A panel \in RenderToolCalls(screen[t].previews) :
         panel.kind = "citations" => NormOf[panel.of] = NormOf[panel.question]
    /\ \A i \in DOMAIN wire :
         wire[i].type = "retrieved_docs"
           /\ wire[i].id \in {RetrieverCall} \cup {c.id : c \in Range(screen[t].stream.emitter.queries)}
           => wire[i].id \in Known(screen[t].previews)
                              \cup {wire[j].id : j \in {k \in 1..(i - 1) : wire[k].type = "tool_call"}}

(* A tab shows the history of its own session and nothing else.  In a session
   that nobody cleared each answer comes after its question; and unless it was
   cleared since the tab loaded it, a tab has its messages in the order of the
   store that all the session's tabs write to (session.py:97-140).  A stream
   that ends after a clearing does bring its answer back, without question. *)
HistoryIsOfSession ==
  \A t \in Tabs :
    LET tab == screen[t] IN
    /\ \A i \in DOMAIN tab.messages :
         /\ tab.messages[i].sid = tab.sid
         /\ tab.messages[i].role = "assistant" /\ cleared[tab.sid] = 0
              => \E j \in 1..(i - 1) : tab.messages[j] = Message("user", tab.sid, tab.messages[i].of)
    /\ tab.sid \in Sids /\ tab.seen = cleared[tab.sid]
         => /\ IsInjective(store[tab.sid]) /\ Range(tab.messages) \subseteq Range(store[tab.sid])
            /\ \A i, j \in DOMAIN tab.messages, k, l \in DOMAIN store[tab.sid] :
                 i < j /\ store[tab.sid][k] = tab.messages[i] /\ store[tab.sid][l] = tab.messages[j]
                   => k < l

=============================================================================
