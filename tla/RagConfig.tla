------------------------------ MODULE RagConfig ------------------------------
(***************************************************************************)
(* How a retrieval pipeline is configured and put together, as operators:  *)
(* the environment's RetrieverConfig, the overrides of a request, the      *)
(* embedding function, the vector store, and the retriever made of them.   *)
(***************************************************************************)
EXTENDS Integers, Sequences

Strategies == {"hybrid", "bm25", "vector"}

(* RetrieverConfig, before it is validated: the fields the models read. *)
RetrieverConfigs ==
  [strategy : Strategies, topK : Int, perLeg : Int, fused : Int, vectorWeight : Int, bm25Weight : Int,
   enabled : BOOLEAN, reranker : STRING, chain : Seq(STRING)]

(* RetrieverConfig.__post_init__: the fields a request can change.  Weights
   are in percent. *)
ValidConfig(c) ==
  /\ c.strategy \in Strategies
  /\ c.topK > 0 /\ c.perLeg > 0 /\ c.fused > 0
  /\ c.vectorWeight \in 1..99 /\ c.bm25Weight = 100 - c.vectorWeight
  /\ Len(c.chain) <= 3

(* from_env: Cohere without its key becomes BGE, unless the chain names it. *)
FromEnv(c, cohereKey) == [c EXCEPT !.reranker = IF @ = "cohere" /\ ~cohereKey THEN "bge" ELSE @]

(* What a request may ask for: {} is a key that is absent, "?" and -1 stand
   for values that do not parse. *)
Optional(S) == {{}} \cup {{x} : x \in S}
Overrides == [strategy : Optional({"bm25", "?"}), reranker : Optional({"identity", ""}), topK : Optional({-1, 0, 1})]

(* Variant: what does not validate is kept. *)
TakeAnyTopK(c, o) == [c EXCEPT
  !.strategy = IF o.strategy \subseteq Strategies /\ o.strategy # {} THEN CHOOSE s \in o.strategy : TRUE ELSE @,
  !.reranker = IF o.reranker \in {{}, {""}} THEN @ ELSE CHOOSE r \in o.reranker : TRUE,
  !.topK = IF o.topK = {} THEN @ ELSE CHOOSE k \in o.topK : TRUE]

(* _apply_retriever_overrides: an unusable value keeps the environment's. *)
ApplyOverrides(c, o) == [c EXCEPT
  !.strategy = IF o.strategy \subseteq Strategies /\ o.strategy # {} THEN CHOOSE s \in o.strategy : TRUE ELSE @,
  !.reranker = IF o.reranker \in {{}, {""}} THEN @ ELSE CHOOSE r \in o.reranker : TRUE,
  !.topK = IF \E k \in o.topK : k > 0 THEN CHOOSE k \in o.topK : TRUE ELSE @]

(* create_embedding_function: for the cloud providers with a key, except zai,
   it reads orya_proxy_url before any assignment, which no handler catches. *)
EmbeddingFunction(provider, keyed, localInstalled) ==
  CASE provider \notin {"local", "openai", "custom-openai", "zai"} -> "none"
    [] provider = "local" \/ ~keyed -> IF localInstalled THEN "local" ELSE "none"
    [] provider = "zai" -> "cloud"
    [] OTHER -> "UnboundLocalError"

(* create_vector_retriever: the store is built whatever came of the embedding
   function, None included, as long as the backend is known and installed. *)
VectorRetriever(kind, embedding, installed) ==
  CASE kind = "none" -> "none"
    [] embedding = "UnboundLocalError" -> "UnboundLocalError"
    [] kind \in {"chroma", "pgvector"} /\ installed -> "vector"
    [] OTHER -> "none"

(* _build_retriever, here and in pipeline_singleton: hybrid without a pool
   still gets a BM25 leg, which fails at every retrieval. *)
BuildRetriever(strategy, vector, pooled) ==
  CASE vector = "UnboundLocalError" -> "UnboundLocalError"
    [] strategy = "hybrid" /\ vector = "none" -> IF pooled THEN "bm25" ELSE "empty"
    [] strategy = "hybrid" -> "hybrid"
    [] strategy = "bm25" -> IF pooled THEN "bm25" ELSE "empty"
    [] OTHER -> IF vector = "none" THEN "empty" ELSE "vector"
=============================================================================
