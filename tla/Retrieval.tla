------------------------------ MODULE Retrieval ------------------------------
(***************************************************************************)
(* One retrieval: the two legs of the hybrid retriever run side by side,   *)
(* their rankings are fused, and the fused list is reranked by the first   *)
(* reranker of the chain that is able to.  Any of them may fail at any     *)
(* time; what is left must still be an answer.                             *)
(*                                                                         *)
(* A document is its id.  The vector store's ids are d:i and the table's   *)
(* are d, so what the deployed pair returns never overlaps; rrf_fusion     *)
(* takes any two rankings, and so does the model.                          *)
(***************************************************************************)
EXTENDS RagConfig, FiniteSets, SequencesExt, Ordering

CONSTANTS
  Ids,
  Configs,     \* the environment's configurations to try
  Denominator  \* scores are counted in fractions of it

Legs == {"vector", "bm25"}
KConstant == 60

ASSUME RetrievalAssumption ==
  /\ Configs \subseteq RetrieverConfigs /\ \A c \in Configs : ValidConfig(c)
  /\ Denominator \in Nat \ {0}
  /\ \A c \in Configs : \A rank \in 1..c.perLeg : Denominator % (KConstant + rank) = 0

VARIABLES
  config,     \* RetrieverConfig after the overrides
  retriever,  \* what _build_retriever made of it
  pooled,     \* whether the BM25 leg has a pool
  leg,        \* by leg: "pending", "ok" or "failed"
  found,      \* by leg: the ranking it returned
  rstage,     \* where the retrieval stands
  members,    \* the rerankers that could be loaded, and the one that is next
  turn,
  ranked,     \* the fused documents, then the answer
  active,     \* who put the answer in order: no one, "fallback" or a "reranker"
  fallbacks   \* increments of the fallback counter

retrievalVars == <<config, retriever, pooled, leg, found, rstage, members, turn, ranked, active, fallbacks>>

Prefix(s, n) == SubSeq(s, 1, IF n < Len(s) THEN n ELSE Len(s))
Lesser(a, b) == IF a < b THEN a ELSE b
Rankings(n) == {s \in BoundedSeq(Ids, n) : IsInjective(s)}

-----------------------------------------------------------------------------
(* rrf_fusion: the weighted reciprocal ranks, over a common denominator.   *)

Rank(s, x) == CHOOSE i \in DOMAIN s : s[i] = x
Share(s, x, weight) == IF x \in Range(s) THEN weight * (Denominator \div (KConstant + Rank(s, x))) ELSE 0
Rrf(v, b, x) == Share(v, x, config.vectorWeight) + Share(b, x, config.bm25Weight)

(* Where a document enters the dict of scores: the vector leg's come first. *)
Arrival(v, b, x) == IF x \in Range(v) THEN Rank(v, x) ELSE Len(v) + Rank(b, x)

(* sorted(..., reverse=True) keeps the order of arrival of a tie. *)
Before(v, b, x, y) ==
  \/ Rrf(v, b, x) > Rrf(v, b, y)
  \/ Rrf(v, b, x) = Rrf(v, b, y) /\ Arrival(v, b, x) < Arrival(v, b, y)

(* Variant: the sort is ascending. *)
FuseAscending(v, b, n) ==
  LET ids == Range(v) \cup Range(b) IN
  Prefix(Ordered(ids, {pair \in ids \X ids : Before(v, b, pair[2], pair[1])}), n)

(* Each document once, the best first. *)
Fuse(v, b, n) ==
  LET ids == Range(v) \cup Range(b) IN
  Prefix(Ordered(ids, {pair \in ids \X ids : Before(v, b, pair[1], pair[2])}), n)

-----------------------------------------------------------------------------
(* The retrieval.                                                          *)

RetrievalInit ==
  /\ \E env \in Configs, keyed \in BOOLEAN, o \in Overrides :
       config = ApplyOverrides(FromEnv(env, keyed), o)
  /\ pooled \in BOOLEAN
  /\ \E vector \in {"none", "vector"} : retriever = BuildRetriever(config.strategy, vector, pooled)
  /\ leg = [l \in Legs |-> "pending"] /\ found = [l \in Legs |-> <<>>]
  /\ rstage = "legs" /\ members = <<>> /\ turn = 1
  /\ ranked = <<>> /\ active = "prefix" /\ fallbacks = 0

Asked == CASE retriever = "hybrid" -> Legs [] retriever = "empty" -> {} [] OTHER -> {retriever}

(* A leg answers, or raises; the BM25 one does so for want of a pool.  Both
   legs of the hybrid retriever are asked for vector_top_k documents. *)
LegEnds(l) ==
  /\ rstage = "legs" /\ l \in Asked /\ leg[l] = "pending"
  /\ \/ /\ l = "bm25" => pooled
        /\ \E s \in Rankings(config.perLeg) : found' = [found EXCEPT ![l] = s]
        /\ leg' = [leg EXCEPT ![l] = "ok"]
     \/ leg' = [leg EXCEPT ![l] = "failed"] /\ UNCHANGED found
  /\ UNCHANGED <<config, retriever, pooled, rstage, members, turn, ranked, active, fallbacks>>

(* The vector leg fails before it returns a coroutine: the handler reads
   vector_failed, which is not bound yet. *)
LegRaisesAtOnce ==
  /\ rstage = "legs" /\ retriever = "hybrid" /\ \A l \in Legs : leg[l] = "pending"
  /\ rstage' = "raised"
  /\ UNCHANGED <<config, retriever, pooled, leg, found, members, turn, ranked, active, fallbacks>>

(* Variant: one leg's failure is enough. *)
JoinAllOrNothing ==
  /\ rstage = "legs" /\ \A l \in Asked : leg[l] # "pending"
  /\ IF \E l \in Asked : leg[l] = "failed"
     THEN rstage' = "raised" /\ UNCHANGED ranked
     ELSE /\ rstage' = "load"
          /\ ranked' = IF retriever = "hybrid" THEN Fuse(found["vector"], found["bm25"], config.fused)
                       ELSE found["vector"] \o found["bm25"]
  /\ UNCHANGED <<config, retriever, pooled, leg, found, members, turn, active, fallbacks>>

(* aretrieve of the hybrid retriever raises only if both legs failed, a
   single leg's exception passes through; then rrf_fusion. *)
Join ==
  /\ rstage = "legs" /\ \A l \in Asked : leg[l] # "pending"
  /\ IF Asked # {} /\ \A l \in Asked : leg[l] = "failed"
     THEN rstage' = "raised" /\ UNCHANGED ranked
     ELSE /\ rstage' = "load"
          /\ ranked' = IF retriever = "hybrid" THEN Fuse(found["vector"], found["bm25"], config.fused)
                       ELSE found["vector"] \o found["bm25"]
  /\ UNCHANGED <<config, retriever, pooled, leg, found, members, turn, active, fallbacks>>

(* The first top_k as they are: what the identity reranker returns, too. *)
Kept == Prefix(ranked, config.topK)

CountFallback == fallbacks' = fallbacks + 1

(* _identity_fallback and what goes with it. *)
Identity ==
  /\ rstage' = "done" /\ ranked' = Kept
  /\ active' = "fallback" /\ CountFallback
  /\ UNCHANGED <<members, turn>>

(* BGE's model and Cohere's service may be down at any time. *)
CanFail(m) == m # "identity"

(* The best top_k, in the order m puts them. *)
Answers(m) ==
  IF CanFail(m) THEN {s \in Rankings(config.topK) : /\ Range(s) \subseteq Range(ranked)
                                                   /\ Len(s) = Lesser(config.topK, Len(ranked))}
  ELSE {Kept}

NextMember ==
  IF turn < Len(members) THEN turn' = turn + 1 /\ UNCHANGED <<rstage, members, ranked, active, fallbacks>>
  ELSE Identity

Named == IF config.chain = <<>> THEN <<config.reranker>> ELSE config.chain

(* What the registry can load of them. *)
Loaded == {SelectAt(Named, {i \in DOMAIN Named : Named[i] \in some}) : some \in SUBSET Range(Named)}

(* rerank_after_fusion: nothing to do, or the rerankers that load: those of
   the chain, or the one that is configured. *)
LoadRerankers ==
  /\ rstage = "load"
  /\ IF ~config.enabled \/ Len(ranked) <= config.topK
     THEN /\ rstage' = "done" /\ ranked' = Kept
          /\ UNCHANGED <<members, turn, active, fallbacks>>
     ELSE \E usable \in Loaded :
            IF usable = <<>> THEN Identity
            ELSE /\ members' = usable /\ rstage' = "health" /\ turn' = 1
                 /\ UNCHANGED <<ranked, active, fallbacks>>
  /\ UNCHANGED <<config, retriever, pooled, leg, found>>

(* The chain is healthy with its first healthy member; a check that raises
   ends the attempt. *)
HealthCheck ==
  /\ rstage = "health"
  /\ \/ rstage' = "rerank" /\ turn' = 1 /\ UNCHANGED <<members, ranked, active, fallbacks>>
     \/ CanFail(members[turn]) /\ NextMember
     \/ CanFail(members[turn]) /\ Identity
  /\ UNCHANGED <<config, retriever, pooled, leg, found>>

(* RerankerChain.rerank, or the single reranker: a member that works puts the
   best top_k in some order; one that is unhealthy by now or raises is
   skipped; at the end of the chain the first top_k stay as they are. *)
Rerank ==
  /\ rstage = "rerank"
  /\ \/ \E s \in Answers(members[turn]) :
          /\ ranked' = s /\ rstage' = "done" /\ active' = "reranker"
          /\ fallbacks' = IF turn > 1 THEN fallbacks + 1 ELSE fallbacks
          /\ UNCHANGED <<members, turn>>
     \/ CanFail(members[turn]) /\ NextMember
  /\ UNCHANGED <<config, retriever, pooled, leg, found>>

RetrievalNext ==
  \/ \E l \in Legs : LegEnds(l)
  \/ LegRaisesAtOnce \/ Join \/ LoadRerankers \/ HealthCheck \/ Rerank

RetrievalSpec == RetrievalInit /\ [][RetrievalNext]_retrievalVars

-----------------------------------------------------------------------------
(* Type correctness of a retrieval; its configuration is one that validates. *)
RetrievalTypeOK ==
  /\ ValidConfig(config) /\ pooled \in BOOLEAN
  /\ retriever \in {"hybrid", "bm25", "vector", "empty"}
  /\ leg \in [Legs -> {"pending", "ok", "failed"}]
  /\ rstage \in {"legs", "load", "health", "rerank", "done", "raised"}
  /\ \A l \in Legs : found[l] \in Rankings(config.perLeg)
  /\ Range(ranked) \subseteq Ids /\ turn \in 1..3 /\ fallbacks \in Nat

(* An answer has as many documents as were asked for and found, none twice
   and none invented, whichever leg, loading, health check or reranker failed
   on the way, and a retrieval raises only if no leg has answered: a failure
   costs order, never documents.  The fallback counter moves exactly once for
   an answer that the first reranker did not order, whichever path it took. *)
DegradesGracefully ==
  /\ rstage = "raised" => \A l \in Asked : leg[l] # "ok"
  /\ rstage = "done" =>
       LET pool == UNION {Range(found[l]) : l \in Legs}
           kept == IF retriever = "hybrid" THEN Lesser(config.fused, Cardinality(pool)) ELSE Cardinality(pool)
       IN  /\ IsInjective(ranked) /\ Range(ranked) \subseteq pool
           /\ Len(ranked) = Lesser(config.topK, kept)
           /\ fallbacks = IF active = "prefix" \/ (active = "reranker" /\ turn = 1) THEN 0 ELSE 1

(* A document that is at least as well placed in both rankings, absence being
   the last place, is never fused behind another or cut in its favour. *)
FusionRespectsDominance ==
  rstage = "load" /\ retriever = "hybrid" =>
    LET place(s, x) == IF x \in Range(s) THEN Rank(s, x) ELSE Len(s) + 1
        better(x, y) == /\ \A l \in Legs : place(found[l], x) <= place(found[l], y)
                        /\ \E l \in Legs : place(found[l], x) < place(found[l], y)
    IN  \A x \in Ids, y \in Range(ranked) :
          better(x, y) => x \in Range(ranked) /\ Rank(ranked, x) < Rank(ranked, y)
=============================================================================
