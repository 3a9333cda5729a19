----------------------------- MODULE MCServices -----------------------------
(***************************************************************************)
(* One TLC instance for the parts of the system that share no state with   *)
(* each other or with the chats of ChatSession: in each behaviour one of   *)
(* them moves, `part`, and the others stay where they begin.  Parts that   *)
(* do not move begin in one fixed state, so the state space is the sum of  *)
(* theirs, not the product.                                                *)
(***************************************************************************)
EXTENDS LlmRouting, SemanticCache, Retrieval, ServiceLifecycle, Indexing, ChatScreen, ToolCalling,
        SessionRecords

CONSTANTS call1, call2, change1, change2

VARIABLE part      \* the one that moves; never changes

Parts == {"routing", "cache", "retrieval", "lifecycle", "indexing", "screen", "tools", "records"}

OneOf(S) == CHOOSE x \in S : TRUE
Fixed(p, value, S) == part # p => value = OneOf(S)

ServicesInit ==
  /\ part \in Parts
  /\ RoutingInit   /\ Fixed("routing", conf, Confs)
  /\ CacheInit     /\ Fixed("cache", cacheOn, BOOLEAN) /\ Fixed("cache", embeddings, Leftovers)
  /\ LifecycleInit /\ Fixed("lifecycle", site, Sites)
  /\ IndexingInit  /\ Fixed("indexing", install, Installs)
  /\ ScreenInit    /\ Fixed("screen", scene, Scenes)
  /\ ToolInit      /\ Fixed("tools", setup, Setups)
  /\ RecordsInit   /\ Fixed("records", scenario, Scenarios)
  /\ RetrievalInit
  /\ part # "retrieval" => /\ config = CHOOSE c \in Configs : c.strategy = "hybrid"
                           /\ pooled /\ retriever = "hybrid"

ServicesNext ==
  /\ UNCHANGED part
  /\ IF part = "routing"   THEN RoutingNext   ELSE UNCHANGED routingVars
  /\ IF part = "cache"     THEN CacheNext     ELSE UNCHANGED cacheVars
  /\ IF part = "retrieval" THEN RetrievalNext ELSE UNCHANGED retrievalVars
  /\ IF part = "lifecycle" THEN LifecycleNext ELSE UNCHANGED lifecycleVars
  /\ IF part = "indexing"  THEN IndexingNext  ELSE UNCHANGED indexingVars
  /\ IF part = "screen"    THEN ScreenNext    ELSE UNCHANGED screenVars
  /\ IF part = "tools"     THEN ToolNext      ELSE UNCHANGED toolVars
  /\ IF part = "records"   THEN RecordsNext   ELSE UNCHANGED recordsVars

ServicesSpec ==
  ServicesInit /\ [][ServicesNext]_<<part, routingVars, cacheVars, retrievalVars, lifecycleVars,
                                     indexingVars, screenVars, toolVars, recordsVars>>

(* Type correctness of every part: its state is one the code can be in. *)
TypeOK ==
  /\ RoutingTypeOK /\ CacheTypeOK /\ RetrievalTypeOK /\ LifecycleTypeOK
  /\ IndexingTypeOK /\ ScreenTypeOK /\ ToolTypeOK /\ RecordsTypeOK

-----------------------------------------------------------------------------
(* Routing: the default cost table; every provider and policy; all, half or *)
(* none of the chats go through the router.                                *)
TwoChats == {"chat 1", "chat 2"}
Conf(p, m, traffic, shadow, proxy, keeps, policies, calls) ==
  [provider |-> p, model |-> m, traffic |-> traffic, shadow |-> shadow, proxy |-> proxy,
   keepsTotal |-> keeps, policies |-> policies, calls |-> calls]
SomeConfs ==
  {Conf("OPENAI", "gpt-4o-mini", 50, FALSE, FALSE, FALSE, {"cost_priority", "quality_priority"}, 3),
   Conf("ZAI", "glm-4.5", 100, FALSE, TRUE, TRUE, {"quality_priority"}, 4),
   Conf("ZAI", "glm-4.5", 100, TRUE, TRUE, TRUE, {"latency_priority", "privacy_priority"}, 2)}
  \cup {Conf(p, "any", 0, TRUE, FALSE, FALSE, {}, 1) : p \in Providers \ {"OPENAI"}}

(* Cache: two LLM calls side by side, two changes of a document, questions  *)
(* similar enough to share an answer; one of the three buckets is empty.   *)
TwoReaders == {call1, call2}
TwoMarkers == {change1, change2}
Symmetry == Permutations(TwoReaders) \cup Permutations(TwoMarkers)
TwoQuestions == {"q1", "q2"}
NothingOrAll == {{}, TwoQuestions}
OneDoc == {"doc"}
ThreeBuckets == <<{"q1"}, {}, {"q2"}>>
Similarity == [pair \in TwoQuestions \X TwoQuestions |-> IF pair[1] = pair[2] THEN 100 ELSE 95]

(* Retrieval: three documents, two from each leg, cut by fusion or by top_k. *)
ThreeIds == {"d1", "d2", "d3"}
Retriever(strategy, topK, fused, weight, enabled, chain) ==
  [strategy |-> strategy, topK |-> topK, perLeg |-> 2, fused |-> fused, vectorWeight |-> weight,
   bm25Weight |-> 100 - weight, enabled |-> enabled, reranker |-> "bge", chain |-> chain]
SomeConfigs ==
  {Retriever("hybrid", 2, 3, 50, TRUE, <<"bge", "cohere">>),
   Retriever("hybrid", 1, 2, 70, TRUE, <<>>), Retriever("vector", 2, 3, 50, FALSE, <<>>)}

(* Lifecycle: two background runs, requests with and without overrides,    *)
(* and installations with and without Redis, vectors and streams.          *)
TwoRuns == {"run 1", "run 2"}
Override(strategy, reranker, topK) == [strategy |-> strategy, reranker |-> reranker, topK |-> topK]
SomeAsks == {Override({}, {}, {}), Override({"bm25"}, {}, {}), Override({"?"}, {}, {1}),
             Override({}, {"identity"}, {1})}
Site(strategy, vector, backend, redis, streams) ==
  [env |-> Retriever(strategy, 2, 3, 50, TRUE, <<>>), vector |-> vector, backend |-> backend,
   checkpointRedis |-> redis, streams |-> streams]
SomeSites ==
  {Site("hybrid", "vector", "redis_postgres", TRUE, {"forensic", "ingestor"}),
   Site("hybrid", "UnboundLocalError", "redis_only", TRUE, {}),
   Site("bm25", "none", "postgres_only", FALSE, {"forensic"})}

(* Indexing: two requests, two chunk lists, one fact per document.         *)
TwoRequests == {"request 1", "request 2"}
OneUser == {"user"}
TwoContents == {<<>>, <<"a", "b">>}
Chunk(doc, index, text) == [doc |-> doc, index |-> index, text |-> text]
TwoLoads == {{Chunk(0, 1, "b"), Chunk(0, 0, "a")}, {Chunk(1, 0, "a"), Chunk(2, 0, "b")}}
Install(pool, vector, extractor, columns) ==
  [pool |-> pool, vector |-> vector, extractor |-> extractor, columns |-> columns]
SomeInstalls == {Install(TRUE, TRUE, "ready", TRUE), Install(TRUE, FALSE, "off", FALSE),
                 Install(TRUE, TRUE, "raises", FALSE), Install(FALSE, TRUE, "off", FALSE)}

(* Screen: one tab with two retrievals in an answer, two tabs of a session, *)
(* one tab that changes its session, two tabs and sessions.                *)
TwoTabs == {"tab 1", "tab 2"}
TwoSids == {"s1", "s2"}
Normal == [q \in {"what", "WHAT", "who", ""} |-> IF q = "WHAT" THEN "what" ELSE q]
Widgets(tools, mode) ==
  [tools |-> tools, strategy |-> "bm25", topK |-> 3, reranker |-> "none", maxResults |-> 7,
   mode |-> mode, policy |-> "cost_priority", mcp |-> FALSE]
NoTools == {Widgets({}, "react")}
Scene(tabs, sids, panels, replies, prompts, clears) ==
  [tabs |-> tabs, sids |-> sids, questions |-> {"what"}, panels |-> panels, answers |-> replies,
   prompts |-> prompts, clears |-> clears]
Plain == <<{AiMessage(TRUE, <<>>)}>>
TwoQueries == AiMessage(FALSE, <<Call("a", "rag_query", "WHAT"), Call("b", "rag_query", "who")>>)
Export == Call("e", "file_export", "")
SomeScenes ==
  {Scene({"tab 1"}, {"s1"}, {Widgets(Tools, "auto"), Widgets({"file_export"}, "react")},
         <<{TwoQueries, AiMessage(TRUE, <<Export, Call("", "web_search", "")>>)},
           {AiMessage(TRUE, <<>>), AiMessage(FALSE, <<Call("c", "rag_query", "what")>>)},
           {AiMessage(TRUE, <<>>)}>>, 1, 0),
   Scene(TwoTabs, {"s1"}, {Widgets({"file_export"}, "react")},
         <<{AiMessage(TRUE, <<Export>>)}, {AiMessage(FALSE, <<>>)}>>, 2, 0),
   Scene(TwoTabs, {"s1"}, NoTools, Plain, 2, 1),
   Scene({"tab 1"}, TwoSids, NoTools, Plain, 2, 1),
   Scene(TwoTabs, TwoSids, NoTools, Plain, 1, 1)}

(* Tools: models known to be native, known not to be, and unknown; every   *)
(* mode, one that is none, and each way llm.bind_tools can end.            *)
Setup(tools, p, m, mode, binds) ==
  [tools |-> tools, provider |-> p, model |-> m, mode |-> mode, binds |-> binds]
SomeSetups ==
  {Setup({}, "OPENAI", "gpt-4o", "native", "ok")} \cup
  {Setup({"rag_query", "web_search"}, pm[1], pm[2], mode, binds) :
     pm \in {<<"ZAI", "glm-4.5">>, <<"OLLAMA", "gpt-4o-mini">>, <<"OLLAMA", "llama3.1-8b">>},
     mode \in {"none", "native", "react", "sometimes"},
     binds \in {"ok", "NotImplementedError", "TypeError"}}
ReplyOf(calls, text, blocks) == [calls |-> calls, text |-> text, blocks |-> blocks]
SomeReplies ==
  {ReplyOf(<<>>, <<>>, FALSE), ReplyOf(<<>>, <<>>, TRUE),
   ReplyOf(<<"rag_query", "web_search">>, <<>>, FALSE), ReplyOf(<<"rag_query">>, <<"web_search">>, TRUE),
   ReplyOf(<<>>, <<"record", "rag_query">>, FALSE), ReplyOf(<<>>, <<"deep", "record">>, FALSE),
   ReplyOf(<<>>, <<"garbled", "rag_query">>, FALSE), ReplyOf(<<>>, <<"deep">>, FALSE)}

(* Records: one chat with a fast and a slow export, whose calls may fail,    *)
(* with and without a pool; two chats that overlap or follow one another.   *)
Node(name, text, exports) == [node |-> name, text |-> text, exports |-> exports]
LongRun == <<Node("planner", FALSE, <<>>), Node("tool_executor", TRUE, <<"fast", "slow">>),
             Node("final_answer", TRUE, <<>>)>>
ToolRun == <<Node("tool_executor", TRUE, <<"fast">>)>>
ShortRun == <<Node("planner", TRUE, <<>>)>>
RagRun == <<Node("planner", TRUE, <<>>), Node("rag_retriever", FALSE, <<>>)>>
Chatting(pool, missing, fails, prompts, script) ==
  [pool |-> pool, missing |-> missing, fails |-> fails, prompts |-> prompts, script |-> script]
SomeScenarios ==
  {Chatting(TRUE, 500, 2, {1}, <<LongRun>>), Chatting(TRUE, 404, 1, {}, <<LongRun>>),
   Chatting(FALSE, 404, 1, {1}, <<RagRun>>), Chatting(TRUE, 404, 0, {1}, <<ToolRun, ShortRun>>)}
=============================================================================
