-------------------------- MODULE ServiceLifecycle --------------------------
(***************************************************************************)
(* The agent service's start and stop, and the two things they own that    *)
(* requests reach for: the shared asyncpg pool and the retrieval pipelines *)
(* cached in pipeline_singleton.  start_chat returns while its run goes on *)
(* in a background task, so rag_query may be called at any moment of the   *)
(* shutdown and after it.                                                  *)
(***************************************************************************)
EXTENDS RagConfig, FiniteSets

CONSTANTS
  Runs,
  Asks,     \* the overrides that requests carry
  Sites     \* installations to try

ASSUME LifecycleAssumption ==
  /\ Asks \subseteq Overrides
  /\ \A s \in Sites : /\ s.env \in RetrieverConfigs /\ ValidConfig(s.env)
                     /\ s.vector \in {"none", "vector", "UnboundLocalError"}
                     /\ s.backend \in {"redis_postgres", "redis_only", "postgres_only"}
                     /\ s.checkpointRedis \in BOOLEAN
                     /\ s.streams \in {{}, {"forensic"}, {"forensic", "ingestor"}}

VARIABLES
  site,          \* settings and environment of the process; never changes
  phase,         \* where _startup and _shutdown stand
  running,       \* the background services that are up
  poolsMade, openPools,
  sharedPool,    \* pool._pool, or 0
  appPool,       \* app.state.pg_pool, or 0
  pipeline,      \* pipeline_singleton._pipeline: {} or {p}
  overrideCache, \* the pipelines in _override_cache, by their keys
  run            \* the background runs and the pipeline each was last given

lifecycleVars ==
  <<site, phase, running, poolsMade, openPools, sharedPool, appPool, pipeline, overrideCache, run>>

poolVars == <<poolsMade, openPools, sharedPool, appPool>>
cacheState == <<pipeline, overrideCache>>

(* build_checkpointer: a layer that is missing is not made up for. *)
BuildCheckpointer(backend, redisUp, pool) ==
  CASE backend = "redis_postgres" /\ redisUp /\ pool # 0 -> "composite"
    [] backend = "redis_only" /\ redisUp -> "redis"
    [] backend = "postgres_only" /\ pool # 0 -> "postgres"
    [] OTHER -> "none"

(* create_agent_app passes no pool: the shared one is created later. *)
Checkpointer == BuildCheckpointer(site.backend, site.checkpointRedis, 0)

LifecycleInit ==
  /\ site \in Sites
  /\ phase = "built" /\ running = {}
  /\ poolsMade = 0 /\ openPools = {} /\ sharedPool = 0 /\ appPool = 0
  /\ pipeline = {} /\ overrideCache = {}
  /\ run = [r \in Runs |-> [at |-> "idle", ask |-> {}, got |-> {}]]

-----------------------------------------------------------------------------
(* The pool.                                                               *)

(* get_shared_pool_sync, resolve_pool: a pool that is closing is none. *)
UsablePool == IF sharedPool \in openPools THEN sharedPool ELSE 0

(* get_shared_pool: the pool that is there, or a new one. *)
TakePool ==
  IF UsablePool # 0 THEN UNCHANGED <<poolsMade, openPools, sharedPool>>
  ELSE /\ poolsMade' = poolsMade + 1 /\ sharedPool' = poolsMade + 1
       /\ openPools' = openPools \cup {poolsMade + 1}

-----------------------------------------------------------------------------
(* The pipelines.                                                          *)

Pipeline(config, retriever, pool) == [config |-> config, retriever |-> retriever, pool |-> pool]

(* A pipeline only holds the pool if its retriever asks it for BM25. *)
BuiltPipeline(config, pool) ==
  LET retriever == BuildRetriever(config.strategy, site.vector, pool # 0) IN
  Pipeline(config, retriever, IF retriever \in {"hybrid", "bm25"} THEN pool ELSE 0)

(* _create_fallback_pipeline *)
FallbackPipeline == Pipeline(site.env, "fallback", 0)

BuildRaises(p) == p.retriever = "UnboundLocalError"

(* Variant: the key leaves top_k out. *)
CacheKeyNoTopK(c) == <<c.strategy, c.reranker, c.enabled>>

(* _pipeline_cache_key *)
CacheKey(c) == <<c.strategy, c.reranker, c.topK, c.enabled>>

Cached(key) == {p \in overrideCache : CacheKey(p.config) = key}

(* get_pipeline_for_request with the overrides of run r and the pool that the
   caller passes or that is found: one turn of the event loop.  The build may
   fail with an exception that is caught, or raise one that is not, which
   leaves the run as ifRaised. *)
GivePipeline(r, ask, pool, ifRaised) ==
  LET config == ApplyOverrides(site.env, ask)
      key == CacheKey(config)
      give(p, how) == run' = [run EXCEPT ![r] = [at |-> "answering", ask |-> {ask}, got |-> {[pipe |-> p, how |-> how]}]]
  IN  IF key = CacheKey(site.env) /\ pipeline # {}
      THEN (\E p \in pipeline : give(p, "singleton")) /\ UNCHANGED overrideCache
      ELSE IF Cached(key) # {}
      THEN (\E p \in Cached(key) : give(p, "cached")) /\ UNCHANGED overrideCache
      ELSE \/ /\ ~BuildRaises(BuiltPipeline(config, pool))
              /\ give(BuiltPipeline(config, pool), "built")
              /\ overrideCache' = overrideCache \cup {BuiltPipeline(config, pool)}
           \/ /\ give(IF pipeline = {} THEN FallbackPipeline ELSE CHOOSE p \in pipeline : TRUE, "degraded")
              /\ UNCHANGED overrideCache
           \/ /\ BuildRaises(BuiltPipeline(config, pool))
              /\ run' = [run EXCEPT ![r] = [at |-> ifRaised, ask |-> {ask}, got |-> {}]]
              /\ UNCHANGED overrideCache

-----------------------------------------------------------------------------
(* _startup.                                                               *)

ConnectRedis ==
  /\ phase = "built"
  /\ phase' \in {"writers", "failed"}
  /\ UNCHANGED <<site, running, poolVars, cacheState, run>>

StartWriters ==
  /\ phase = "writers" /\ phase' = "pool"
  /\ running' = {"operational"} \cup site.streams
  /\ UNCHANGED <<site, poolVars, cacheState, run>>

(* A pool that cannot be made leaves the service without BM25. *)
CreatePool ==
  /\ phase = "pool" /\ phase' = "pipeline"
  /\ \/ TakePool /\ appPool' = sharedPool'
     \/ UNCHANGED poolVars
  /\ UNCHANGED <<site, running, cacheState, run>>

(* get_shared_pipeline tries to get the pool once more.  Exceptions of the
   three kinds it catches leave the fallback for good, others leave nothing. *)
CreatePipeline ==
  /\ phase = "pipeline" /\ phase' = "loops"
  /\ \/ /\ TakePool
        /\ LET p == BuiltPipeline(site.env, sharedPool') IN
           pipeline' = IF BuildRaises(p) THEN {} ELSE {p}
     \/ pipeline' \in {{FallbackPipeline}, {}} /\ UNCHANGED <<poolsMade, openPools, sharedPool>>
  /\ UNCHANGED <<site, running, appPool, overrideCache, run>>

(* The collector, the flush loop if the bundle names a PostgreSQL
   checkpointer, and the recovery, before the first request is served. *)
StartLoops ==
  /\ phase = "loops" /\ phase' = "serving"
  /\ running' = running \cup {"collector"} \cup (IF Checkpointer = "postgres" THEN {"flusher"} ELSE {})
  /\ UNCHANGED <<site, poolVars, cacheState, run>>

-----------------------------------------------------------------------------
(* Requests and their runs.                                                *)

(* start_chat passes app.state.pg_pool, if there is one. *)
StartChat(r) ==
  /\ phase = "serving" /\ run[r].at = "idle"
  /\ \E ask \in Asks : GivePipeline(r, ask, IF appPool # 0 THEN appPool ELSE UsablePool, "refused")
  /\ UNCHANGED <<site, phase, running, poolVars, pipeline>>

(* rag_query reads the overrides from the run's context; the graph's tools
   node catches what it raises. *)
RagQuery(r) ==
  /\ run[r].at = "answering"
  /\ \E ask \in run[r].ask : GivePipeline(r, ask, UsablePool, "answering")
  /\ UNCHANGED <<site, phase, running, poolVars, pipeline>>

RunOver(r) ==
  /\ run[r].at = "answering"
  /\ run' = [run EXCEPT ![r].at = "over"]
  /\ UNCHANGED <<site, phase, running, poolVars, cacheState>>

-----------------------------------------------------------------------------
(* _shutdown: the services in this order, each awaited.                    *)

StopOrder == <<"flusher", "ingestor", "operational", "forensic", "collector">>

(* A close that raises ends the shutdown there. *)
StopService ==
  /\ phase \in {"serving", "stopping"}
  /\ \E i \in DOMAIN StopOrder :
       /\ StopOrder[i] \in running /\ \A j \in 1..(i - 1) : StopOrder[j] \notin running
       /\ \/ running' = running \ {StopOrder[i]} /\ phase' = "stopping"
          \/ StopOrder[i] # "collector" /\ phase' = "broken" /\ UNCHANGED running
  /\ UNCHANGED <<site, poolVars, cacheState, run>>

(* close_shared_pool: the pool is closing from here on, and is awaited. *)
ClosePool ==
  /\ phase = "stopping" /\ running = {}
  /\ phase' = "closing"
  /\ openPools' = openPools \ {sharedPool}
  /\ UNCHANGED <<site, running, poolsMade, sharedPool, appPool, cacheState, run>>

(* Variant: the pool is closed, and the cached pipelines stay. *)
ForgetPoolOnly ==
  /\ phase = "closing" /\ phase' = "stopped"
  /\ sharedPool' = 0 /\ appPool' = 0
  /\ UNCHANGED <<site, running, poolsMade, openPools, cacheState, run>>

(* It is closed: the references go, then close_shared_pipeline. *)
ClearPipelines ==
  /\ phase = "closing" /\ phase' = "stopped"
  /\ sharedPool' = 0 /\ appPool' = 0
  /\ pipeline' = {} /\ overrideCache' = {}
  /\ UNCHANGED <<site, running, poolsMade, openPools, run>>

LifecycleNext ==
  \/ ConnectRedis \/ StartWriters \/ CreatePool \/ CreatePipeline \/ StartLoops
  \/ \E r \in Runs : StartChat(r) \/ RagQuery(r) \/ RunOver(r)
  \/ StopService \/ ClosePool \/ ClearPipelines

LifecycleSpec == LifecycleInit /\ [][LifecycleNext]_lifecycleVars

-----------------------------------------------------------------------------
(* Type correctness of the process. *)
LifecycleTypeOK ==
  /\ site \in Sites
  /\ phase \in {"built", "failed", "writers", "pool", "pipeline", "loops", "serving",
                "stopping", "broken", "closing", "stopped"}
  /\ running \subseteq {"operational", "forensic", "ingestor", "collector", "flusher"}
  /\ poolsMade \in 0..2 /\ openPools \subseteq 1..2 /\ {sharedPool, appPool} \subseteq 0..2
  /\ \A p \in pipeline \cup overrideCache : ValidConfig(p.config) /\ p.pool \in 0..2
  /\ \A r \in Runs : run[r].at \in {"idle", "answering", "refused", "over"}

(* Whatever was cached by whom before, a request is given a pipeline with the
   strategy, reranker and top_k it asked for (or the environment's where it
   asked for nothing usable), unless building that one failed. *)
ServedAsAsked ==
  \A r \in Runs : \A g \in run[r].got, ask \in run[r].ask :
    g.how # "degraded" => g.pipe.config = ApplyOverrides(site.env, ask)

(* There is one pool at a time, no pipeline that later requests can be given
   holds a pool that has been closed, except while the shutdown awaits that
   closing, and a shutdown that went through leaves no pool open: although
   runs go on asking for pipelines all the while. *)
PoolsAccountedFor ==
  /\ Cardinality(openPools) <= 1
  /\ phase # "closing" => \A p \in pipeline \cup overrideCache : p.pool \in openPools \cup {0}
  /\ phase = "stopped" => openPools = {}
=============================================================================
