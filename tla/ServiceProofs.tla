--------------------------- MODULE ServiceProofs ----------------------------
(***************************************************************************)
(* What the process owns and what it keeps. ServiceLifecycle, for every    *)
(* installation, set of runs and overrides: its types, that a pipeline     *)
(* that a request is given is the one it asked for, and that no pool is    *)
(* lost or used after it was closed. Indexing, for every installation, set *)
(* of requests and contents: the tables keep their constraints, an ingest  *)
(* tells what it did, and no document changes unannounced. SessionRecords, *)
(* for any number of turns and whatever their graphs yield, however often  *)
(* Redis, S3 and PostgreSQL fail and whenever a run is cancelled: its      *)
(* types, that what a run announced is kept, and that the forensic record  *)
(* of a cancel tells where the run was.                                    *)
(***************************************************************************)
EXTENDS ServiceLifecycle, Indexing, SessionRecords, FiniteSetTheorems, TLAPS

(* The overrides reach three fields of the configuration, no other. *)
Tuned(c) == c = [site.env EXCEPT !.strategy = c.strategy, !.reranker = c.reranker, !.topK = c.topK]

(* What is cached was configured for the environment or for a request. *)
OverrideInv ==
  /\ \A p \in pipeline : p.config = site.env
  /\ \A p \in overrideCache : Tuned(p.config)

RunInv ==
  /\ DOMAIN run = Runs /\ run = [r \in Runs |-> run[r]]
  /\ \A r \in Runs : DOMAIN run[r] = {"at", "ask", "got"}

PipelineInv == site \in Sites /\ OverrideInv /\ RunInv /\ ServedAsAsked

(* The pool there is is the shared one.  Until the shutdown closes it, both
   references are to it or to none, and so are those of the cached pipelines
   until it is closed and they go. *)
PoolInv ==
  /\ poolsMade \in Nat /\ openPools \subseteq {sharedPool} \ {0}
  /\ sharedPool \in 0..poolsMade
  /\ phase \notin {"closing", "stopped"} => {sharedPool, appPool} \subseteq openPools \cup {0}
  /\ phase \in {"closing", "stopped"} => openPools = {}
  /\ phase # "closing" => \A p \in pipeline \cup overrideCache : p.pool \in openPools \cup {0}

-----------------------------------------------------------------------------
(* What requests are given.                                                *)

(* The overrides tune the environment's configuration. *)
LEMMA OverridesTune ==
  ASSUME NEW c \in RetrieverConfigs, NEW o
  PROVE  LET d == ApplyOverrides(c, o) IN
         d = [c EXCEPT !.strategy = d.strategy, !.reranker = d.reranker, !.topK = d.topK]
<1> DEFINE s == ApplyOverrides(c, o).strategy
           r == ApplyOverrides(c, o).reranker
           k == ApplyOverrides(c, o).topK
<1>1. PICK t, v, w : ApplyOverrides(c, o) = [c EXCEPT !.strategy = t, !.reranker = v, !.topK = w]
  BY DEF ApplyOverrides
<1>2. s = t /\ r = v /\ k = w
  BY <1>1 DEF RetrieverConfigs
<1> QED BY <1>1, <1>2

(* _pipeline_cache_key tells two tuned configurations apart. *)
LEMMA KeyIsConfig ==
  ASSUME NEW c \in RetrieverConfigs, NEW d, NEW e, CacheKey(d) = CacheKey(e),
         d = [c EXCEPT !.strategy = d.strategy, !.reranker = d.reranker, !.topK = d.topK],
         e = [c EXCEPT !.strategy = e.strategy, !.reranker = e.reranker, !.topK = e.topK]
  PROVE  d = e
<1>1. d.strategy = e.strategy /\ d.reranker = e.reranker /\ d.topK = e.topK
  BY DEF CacheKey
<1> QED BY <1>1

(* The environment's own configuration is one of them. *)
LEMMA EnvIsTuned ==
  ASSUME NEW c \in RetrieverConfigs
  PROVE  c = [c EXCEPT !.strategy = c.strategy, !.reranker = c.reranker, !.topK = c.topK]
BY DEF RetrieverConfigs

(* A request changes the overrides' cache by the pipeline built for it, at most. *)
LEMMA GiveKeepsCache ==
  ASSUME PipelineInv, UNCHANGED <<site, pipeline>>,
         NEW r \in Runs, NEW ask, NEW pool, NEW ifRaised, GivePipeline(r, ask, pool, ifRaised)
  PROVE  /\ OverrideInv'
         /\ overrideCache' \subseteq overrideCache \cup {BuiltPipeline(ApplyOverrides(site.env, ask), pool)}
<1> DEFINE config == ApplyOverrides(site.env, ask)
           built == BuiltPipeline(config, pool)
<1>1. overrideCache' \subseteq overrideCache \cup {built}
  BY DEF GivePipeline
<1>2. site.env \in RetrieverConfigs
  BY LifecycleAssumption DEF PipelineInv
<1>3. built.config = config
  BY DEF BuiltPipeline, Pipeline
<1>4. Tuned(config)
  BY <1>2, OverridesTune DEF Tuned
<1>5. \A p \in overrideCache' : Tuned(p.config)
  BY <1>1, <1>3, <1>4 DEF PipelineInv, OverrideInv
<1> QED BY <1>1, <1>5 DEF PipelineInv, OverrideInv, Tuned

(* get_pipeline_for_request gives what was asked for, unless it says degraded. *)
LEMMA GiveServes ==
  ASSUME PipelineInv, UNCHANGED <<site, pipeline>>,
         NEW r \in Runs, NEW ask, NEW pool, NEW ifRaised, GivePipeline(r, ask, pool, ifRaised)
  PROVE  PipelineInv'
<1> DEFINE config == ApplyOverrides(site.env, ask)
<1>1. site.env \in RetrieverConfigs
  BY LifecycleAssumption DEF PipelineInv
<1>2. Tuned(config) /\ Tuned(site.env)
  BY <1>1, OverridesTune, EnvIsTuned DEF Tuned
<1> DEFINE Serves(at, got) ==
             /\ run' = [run EXCEPT ![r] = [at |-> at, ask |-> {ask}, got |-> got]]
             /\ \A g \in got : g.how # "degraded" => g.pipe.config = config
<1>3. PICK at, got : Serves(at, got)
  <2>1. CASE CacheKey(config) = CacheKey(site.env) /\ pipeline # {}
    <3>1. PICK p \in pipeline : run' = [run EXCEPT ![r] =
            [at |-> "answering", ask |-> {ask}, got |-> {[pipe |-> p, how |-> "singleton"]}]]
      BY <2>1 DEF GivePipeline
    <3>2. config = site.env
      BY <1>1, <1>2, <2>1, KeyIsConfig DEF Tuned
    <3>3. p.config = config
      BY <3>2 DEF PipelineInv, OverrideInv
    <3>4. Serves("answering", {[pipe |-> p, how |-> "singleton"]})
      BY <3>1, <3>3
    <3> HIDE DEF Serves
    <3> QED BY <3>4
  <2>2. CASE ~(CacheKey(config) = CacheKey(site.env) /\ pipeline # {}) /\ Cached(CacheKey(config)) # {}
    <3>1. PICK p \in Cached(CacheKey(config)) : run' = [run EXCEPT ![r] =
            [at |-> "answering", ask |-> {ask}, got |-> {[pipe |-> p, how |-> "cached"]}]]
      BY <2>2 DEF GivePipeline
    <3>2. CacheKey(p.config) = CacheKey(config) /\ Tuned(p.config)
      BY DEF Cached, PipelineInv, OverrideInv
    <3>3. p.config = config
      BY <1>1, <1>2, <3>2, KeyIsConfig DEF Tuned
    <3>4. Serves("answering", {[pipe |-> p, how |-> "cached"]})
      BY <3>1, <3>3
    <3> HIDE DEF Serves
    <3> QED BY <3>4
  <2>3. CASE ~(CacheKey(config) = CacheKey(site.env) /\ pipeline # {}) /\ Cached(CacheKey(config)) = {}
    <3> DEFINE built == [pipe |-> BuiltPipeline(config, pool), how |-> "built"]
    <3>1. BuiltPipeline(config, pool).config = config
      BY DEF BuiltPipeline, Pipeline
    <3>2. \/ run' = [run EXCEPT ![r] = [at |-> "answering", ask |-> {ask}, got |-> {built}]]
          \/ \E p : run' = [run EXCEPT ![r] =
               [at |-> "answering", ask |-> {ask}, got |-> {[pipe |-> p, how |-> "degraded"]}]]
          \/ run' = [run EXCEPT ![r] = [at |-> ifRaised, ask |-> {ask}, got |-> {}]]
      BY <2>3 DEF GivePipeline
    <3>3. ASSUME run' = [run EXCEPT ![r] = [at |-> "answering", ask |-> {ask}, got |-> {built}]]
          PROVE  Serves("answering", {built})
      BY <3>1, <3>3
    <3>4. ASSUME NEW p, run' = [run EXCEPT ![r] =
                   [at |-> "answering", ask |-> {ask}, got |-> {[pipe |-> p, how |-> "degraded"]}]]
          PROVE  Serves("answering", {[pipe |-> p, how |-> "degraded"]})
      BY <3>4
    <3>5. ASSUME run' = [run EXCEPT ![r] = [at |-> ifRaised, ask |-> {ask}, got |-> {}]]
          PROVE  Serves(ifRaised, {})
      BY <3>5
    <3> HIDE DEF Serves
    <3> QED BY <3>2, <3>3, <3>4, <3>5
  <2> QED BY <2>1, <2>2, <2>3
<1>4. RunInv'
  BY <1>3 DEF PipelineInv, RunInv
<1>5. ServedAsAsked'
  <2> SUFFICES ASSUME NEW q \in Runs, NEW g \in run'[q].got, NEW a \in run'[q].ask, g.how # "degraded"
               PROVE  g.pipe.config = ApplyOverrides(site.env, a)
    BY DEF ServedAsAsked
  <2>1. CASE q = r
    BY <1>3, <2>1 DEF PipelineInv, RunInv
  <2>2. CASE q # r
    BY <1>3, <2>2 DEF PipelineInv, RunInv, ServedAsAsked
  <2> QED BY <2>1, <2>2
<1>6. OverrideInv'
  BY GiveKeepsCache
<1> QED BY <1>4, <1>5, <1>6 DEF PipelineInv

(* A step that leaves the runs alone, and the caches as they are or with the
   environment's configuration, keeps the invariant. *)
LEMMA CachesServe ==
  ASSUME PipelineInv, UNCHANGED <<site, run>>, overrideCache' \subseteq overrideCache,
         \A p \in pipeline' : p \in pipeline \/ p.config = site.env
  PROVE  PipelineInv'
<1>1. OverrideInv'
  BY DEF PipelineInv, OverrideInv, Tuned
<1>2. RunInv'
  BY DEF PipelineInv, RunInv
<1>3. ServedAsAsked'
  BY DEF PipelineInv, ServedAsAsked
<1> QED BY <1>1, <1>2, <1>3 DEF PipelineInv

(* The pipelines of requests are theirs at the start. *)
LEMMA PipelinesInit == LifecycleInit => PipelineInv
BY DEF LifecycleInit, PipelineInv, OverrideInv, RunInv, ServedAsAsked

(* ... and after every step of the service. *)
LEMMA PipelinesStep == PipelineInv /\ [LifecycleNext]_lifecycleVars => PipelineInv'
<1> SUFFICES ASSUME PipelineInv, [LifecycleNext]_lifecycleVars PROVE PipelineInv'
  OBVIOUS
<1> USE DEF poolVars, cacheState
<1>1. ASSUME CreatePipeline PROVE PipelineInv'
  <2>1. \A p \in pipeline' : p.config = site.env
    BY <1>1 DEF CreatePipeline, BuiltPipeline, FallbackPipeline, Pipeline
  <2> QED BY <1>1, <2>1, CachesServe DEF CreatePipeline
<1>2. ASSUME NEW r \in Runs, StartChat(r) PROVE PipelineInv'
  BY <1>2, GiveServes DEF StartChat
<1>3. ASSUME NEW r \in Runs, RagQuery(r) PROVE PipelineInv'
  BY <1>3, GiveServes DEF RagQuery
<1>4. ASSUME NEW r \in Runs, RunOver(r) PROVE PipelineInv'
  <2>1. OverrideInv'
    BY <1>4 DEF RunOver, PipelineInv, OverrideInv, Tuned
  <2>2. RunInv' /\ \A q \in Runs : run'[q].ask = run[q].ask /\ run'[q].got = run[q].got
    BY <1>4 DEF RunOver, PipelineInv, RunInv
  <2>3. ServedAsAsked'
    BY <1>4, <2>2 DEF RunOver, PipelineInv, ServedAsAsked
  <2> QED BY <1>4, <2>1, <2>2, <2>3 DEF RunOver, PipelineInv
<1>5. CASE UNCHANGED lifecycleVars
  BY <1>5, CachesServe DEF lifecycleVars
<1>6. CASE ConnectRedis \/ StartWriters \/ CreatePool \/ StartLoops
  BY <1>6, CachesServe DEF ConnectRedis, StartWriters, CreatePool, StartLoops
<1>7. CASE StopService \/ ClosePool \/ ClearPipelines
  BY <1>7, CachesServe DEF StopService, ClosePool, ClearPipelines
<1> QED BY <1>1, <1>2, <1>3, <1>4, <1>5, <1>6, <1>7 DEF LifecycleNext

(* Whatever was cached by whom before, a request of a run is given a pipeline
   configured as it asked, unless building that one failed: the three cached
   lookups of get_pipeline_for_request never mix two requests' overrides up. *)
THEOREM RequestsServedAsAsked == LifecycleSpec => []ServedAsAsked
<1>1. LifecycleSpec => []PipelineInv
  BY PipelinesInit, PipelinesStep, PTL DEF LifecycleSpec
<1>2. PipelineInv => ServedAsAsked
  BY DEF PipelineInv
<1> QED BY <1>1, <1>2, PTL

-----------------------------------------------------------------------------
(* The shared pool.                                                        *)

(* resolve_pool hands out an open pool or none. *)
LEMMA UsableIsOpen == UsablePool \in openPools \cup {0}
BY DEF UsablePool

(* A pipeline holds the pool it was built with or none. *)
LEMMA BuiltHolds == \A config, pool : BuiltPipeline(config, pool).pool \in {pool, 0}
BY DEF BuiltPipeline, Pipeline

(* get_shared_pool leaves an open pool, the only one, and closes none. *)
LEMMA TakePoolOpens ==
  ASSUME PoolInv, phase \notin {"closing", "stopped"}, TakePool
  PROVE  /\ poolsMade' \in Nat /\ openPools' = {sharedPool'} /\ sharedPool' \in 1..poolsMade'
         /\ openPools \subseteq openPools'
<1>1. CASE UsablePool # 0
  <2>1. UNCHANGED <<poolsMade, openPools, sharedPool>>
    BY <1>1 DEF TakePool
  <2>2. sharedPool \in openPools /\ sharedPool # 0
    BY <1>1 DEF UsablePool
  <2>3. openPools = {sharedPool}
    BY <2>2 DEF PoolInv
  <2>4. poolsMade \in Nat /\ sharedPool \in 1..poolsMade
    BY <2>2 DEF PoolInv
  <2> QED BY <2>1, <2>3, <2>4
<1>2. CASE UsablePool = 0
  <2>1. openPools = {}
    BY <1>2, 0 \notin openPools DEF PoolInv, UsablePool
  <2>2. poolsMade' = poolsMade + 1 /\ sharedPool' = poolsMade + 1 /\ openPools' = openPools \cup {poolsMade + 1}
    BY <1>2 DEF TakePool
  <2> QED BY <2>1, <2>2 DEF PoolInv
<1> QED BY <1>1, <1>2

(* There is no pool at the start. *)
LEMMA PoolsInit == LifecycleInit => PoolInv
BY DEF LifecycleInit, PoolInv

(* A request changes nothing but the overrides' cache, and puts no pool into
   it but an open one. *)
LEMMA RequestKeepsPools ==
  ASSUME PoolInv, UNCHANGED <<phase, poolVars, pipeline>>, NEW ask, NEW r, NEW ifRaised,
         NEW pool, phase \in {"closing", "stopped"} \/ pool \in openPools \cup {0},
         phase = "stopped" => pool = 0,
         GivePipeline(r, ask, pool, ifRaised)
  PROVE  PoolInv'
<1>1. PICK p : p.pool \in {pool, 0} /\ overrideCache' \subseteq overrideCache \cup {p}
  <2>1. overrideCache' \subseteq overrideCache \cup {BuiltPipeline(ApplyOverrides(site.env, ask), pool)}
    BY DEF GivePipeline
  <2> QED BY <2>1, BuiltHolds
<1>2. phase # "closing" => p.pool \in openPools \cup {0}
  BY <1>1
<1> QED BY <1>1, <1>2 DEF PoolInv, poolVars

(* The invariant of the pool is kept by every step of the service. *)
LEMMA PoolsStep == PoolInv /\ [LifecycleNext]_lifecycleVars => PoolInv'
<1> SUFFICES ASSUME PoolInv, [LifecycleNext]_lifecycleVars PROVE PoolInv'
  OBVIOUS
<1>1. CASE ConnectRedis \/ StartWriters \/ StartLoops
  BY <1>1 DEF ConnectRedis, StartWriters, StartLoops, PoolInv, poolVars, cacheState
<1>2. CASE CreatePool
  <2>1. phase = "pool" /\ phase' = "pipeline" /\ UNCHANGED cacheState
    BY <1>2 DEF CreatePool
  <2>2. CASE UNCHANGED poolVars
    BY <2>1, <2>2 DEF PoolInv, poolVars, cacheState
  <2>3. CASE TakePool /\ appPool' = sharedPool'
    <3>1. /\ poolsMade' \in Nat /\ openPools' = {sharedPool'} /\ sharedPool' \in 1..poolsMade'
          /\ openPools \subseteq openPools'
      BY <2>1, <2>3, TakePoolOpens
    <3>2. \A p \in pipeline' \cup overrideCache' : p.pool \in openPools' \cup {0}
      BY <2>1, <3>1 DEF PoolInv, cacheState
    <3> QED BY <2>1, <2>3, <3>1, <3>2 DEF PoolInv
  <2> QED BY <1>2, <2>2, <2>3 DEF CreatePool
<1>3. CASE CreatePipeline
  <2>1. phase = "pipeline" /\ phase' = "loops" /\ UNCHANGED <<appPool, overrideCache>>
    BY <1>3 DEF CreatePipeline
  <2>2. CASE pipeline' \in {{FallbackPipeline}, {}} /\ UNCHANGED <<poolsMade, openPools, sharedPool>>
    BY <2>1, <2>2 DEF PoolInv, FallbackPipeline, Pipeline
  <2>3. CASE TakePool /\ pipeline' \subseteq {BuiltPipeline(site.env, sharedPool')}
    <3>1. \A p \in pipeline' : p.pool \in {sharedPool', 0}
      BY <2>3, BuiltHolds
    <3>2. /\ poolsMade' \in Nat /\ openPools' = {sharedPool'} /\ sharedPool' \in 1..poolsMade'
          /\ openPools \subseteq openPools'
      BY <2>1, <2>3, TakePoolOpens
    <3>3. appPool' \in openPools' \cup {0} /\ \A p \in overrideCache' : p.pool \in openPools' \cup {0}
      BY <2>1, <3>2 DEF PoolInv
    <3> QED BY <2>1, <3>1, <3>2, <3>3 DEF PoolInv
  <2> QED BY <1>3, <2>2, <2>3 DEF CreatePipeline
<1>4. ASSUME NEW r \in Runs, StartChat(r) PROVE PoolInv'
  <2> DEFINE pool == IF appPool # 0 THEN appPool ELSE UsablePool
  <2>1. pool \in openPools \cup {0}
    BY <1>4, UsableIsOpen DEF StartChat, PoolInv
  <2>2. phase = "serving"
    BY <1>4 DEF StartChat
  <2>3. PICK ask \in Asks : GivePipeline(r, ask, pool, "refused")
    BY <1>4 DEF StartChat
  <2> HIDE DEF pool
  <2> QED BY <1>4, <2>1, <2>2, <2>3, RequestKeepsPools DEF StartChat
<1>5. ASSUME NEW r \in Runs, RagQuery(r) PROVE PoolInv'
  <2>1. phase = "stopped" => UsablePool = 0
    BY UsableIsOpen DEF PoolInv
  <2> QED BY <1>5, <2>1, UsableIsOpen, RequestKeepsPools DEF RagQuery
<1>6. ASSUME NEW r \in Runs, RunOver(r) PROVE PoolInv'
  BY <1>6 DEF RunOver, PoolInv, poolVars, cacheState
<1>7. CASE StopService
  BY <1>7 DEF StopService, PoolInv, poolVars, cacheState
<1>8. CASE ClosePool
  BY <1>8 DEF ClosePool, PoolInv, cacheState
<1>9. CASE ClearPipelines
  BY <1>9 DEF ClearPipelines, PoolInv
<1>10. CASE UNCHANGED lifecycleVars
  BY <1>10 DEF lifecycleVars, PoolInv
<1> QED BY <1>1, <1>2, <1>3, <1>4, <1>5, <1>6, <1>7, <1>8, <1>9, <1>10 DEF LifecycleNext

(* There is never more than one pool, no pipeline that a later request can be
   given holds a closed one except while the shutdown awaits that closing, and
   a shutdown that went through leaves none open, however runs go on asking
   (get_shared_pool, close_shared_pool, close_shared_pipeline). *)
THEOREM PoolsAllAccountedFor == LifecycleSpec => []PoolsAccountedFor
<1>1. LifecycleSpec => []PoolInv
  BY PoolsInit, PoolsStep, PTL DEF LifecycleSpec
<1>2. PoolInv => PoolsAccountedFor
  <2> SUFFICES ASSUME PoolInv PROVE PoolsAccountedFor
    OBVIOUS
  <2>1. Cardinality(openPools) <= 1
    <3>1. openPools \subseteq {sharedPool}
      BY DEF PoolInv
    <3>2. IsFiniteSet({sharedPool}) /\ Cardinality({sharedPool}) = 1
      BY FS_Singleton
    <3> QED BY <3>1, <3>2, FS_Subset
  <2> QED BY <2>1 DEF PoolInv, PoolsAccountedFor
<1> QED BY <1>1, <1>2, PTL

-----------------------------------------------------------------------------
(* Indexing: what the requests and the tables keep.                        *)

Ingesting == {"legs", "extracting", "extracted"}
Changing == {"found", "invalidated", "cleared", "updated"}
RequestFields == {"at", "op", "doc", "content", "user", "bm25", "vector", "did", "code", "status"}
RowFields == {"id", "user", "content"}

RequestsAreRecords ==
  /\ DOMAIN request = Requests /\ request = [r \in Requests |-> request[r]]
  /\ \A r \in Requests : DOMAIN request[r] = RequestFields

(* What a request knows of its own progress, and claims when it is done. *)
Told(req) ==
  /\ req.at \in {"idle", "done"} \cup Ingesting \cup Changing
  /\ req.code \in {0, 200, 201, 404, 500, 503}
  /\ req.at = "idle" => req.bm25 = "off" /\ req.vector = "off"
  /\ req.at \in Ingesting => /\ req.op = "ingest" /\ req.user \in users
                             /\ req.bm25 \in {"asked", "ok", "failed"}
                             /\ req.vector \in {"off", "asked", "ok", "failed"}
                             /\ install.vector => req.vector # "off"
  /\ req.at \in {"extracting", "extracted"} => "asked" \notin {req.bm25, req.vector}
  /\ req.at \in Changing => req.op \in {"delete", "update"} /\ req.bm25 = "off" /\ req.vector = "off"
  /\ req.at \in {"invalidated", "cleared", "updated"} => "invalidated" \in req.did
  /\ req.bm25 = "ok" => "row" \in req.did
  /\ req.vector = "ok" => "chunks" \in req.did
  /\ (req.op = "ingest" /\ req.at = "done") =>
       /\ req.code = 201 => "ok" \in {req.bm25, req.vector}
       /\ req.code = 500 => "ok" \notin {req.bm25, req.vector}
       /\ (req.status = "indexed" /\ install.vector) => "chunks" \in req.did

RequestInv == install \in Installs /\ RequestsAreRecords /\ \A r \in Requests : Told(request[r])

(* The constraints of the documents table, of its foreign keys and of the
   vector store's ids. *)
RowsUnique == \A d, e \in docs : (d.id = e.id \/ d.content = e.content) => d = e
ChunksUnique == \A c, e \in chunks : (c.doc = e.doc /\ c.n = e.n) => c = e

TableInv ==
  /\ \A d \in docs : DOMAIN d = RowFields /\ d.user \in users
  /\ users \subseteq Users
  /\ RowsUnique /\ ChunksUnique
  /\ \A f \in facts : \E d \in docs : d.id = f.doc

(* A step that moves one request keeps what all of them know. *)
LEMMA RequestMoves ==
  ASSUME RequestInv, install' = install, users \subseteq users', NEW r \in Requests, NEW new,
         request' = [request EXCEPT ![r] = new], DOMAIN new = RequestFields, Told(new)'
  PROVE  RequestInv'
<1>1. RequestsAreRecords'
  BY DEF RequestInv, RequestsAreRecords
<1>2. ASSUME NEW q \in Requests PROVE Told(request[q])'
  <2>1. CASE q = r
    BY <2>1 DEF RequestInv, RequestsAreRecords
  <2>2. CASE q # r
    <3>1. PICK req : req = request[q] /\ req = request'[q]
      BY <2>2 DEF RequestInv, RequestsAreRecords
    <3>2. Told(req)
      BY <3>1 DEF RequestInv
    <3>3. Told(req)'
      BY <3>2 DEF Told
    <3> QED BY <3>1, <3>3 DEF Told
  <2> QED BY <2>1, <2>2
<1> QED BY <1>1, <1>2 DEF RequestInv


(* What a request knew, it knows when the users have grown. *)
LEMMA ToldLater ==
  ASSUME NEW req, Told(req), install' = install, users \subseteq users'
  PROVE  Told(req)'
BY DEF Told

(* Answering a request changes where it stands and what it answers. *)
LEMMA AnswersFields ==
  ASSUME NEW req, DOMAIN req = RequestFields, NEW code, NEW status
  PROVE  LET new == Answered(req, code, status) IN
         /\ DOMAIN new = RequestFields
         /\ new.at = "done" /\ new.code = code /\ new.status = status
         /\ new.op = req.op /\ new.bm25 = req.bm25 /\ new.vector = req.vector /\ new.did = req.did
BY DEF Answered, RequestFields

(* An answer that is true of the legs may be given. *)
LEMMA AnswersTold ==
  ASSUME NEW req, DOMAIN req = RequestFields, Told(req),
         NEW code \in {200, 201, 404, 500, 503}, NEW status,
         req.op = "ingest" => /\ code = 201 => "ok" \in {req.bm25, req.vector}
                              /\ code = 500 => "ok" \notin {req.bm25, req.vector}
                              /\ (status = "indexed" /\ install.vector) => req.vector = "ok"
  PROVE  Told(Answered(req, code, status))
<1>1. PICK new : new = Answered(req, code, status)
  OBVIOUS
<1>2. /\ new.at = "done" /\ new.code = code /\ new.status = status
      /\ new.op = req.op /\ new.bm25 = req.bm25 /\ new.vector = req.vector /\ new.did = req.did
  BY <1>1, AnswersFields
<1>3. Told(new)
  BY <1>2 DEF Told, Ingesting, Changing
<1> QED BY <1>1, <1>3

(* No request has begun at the start. *)
LEMMA RequestsInit == IndexingInit => RequestInv
<1> SUFFICES ASSUME IndexingInit PROVE RequestInv
  OBVIOUS
<1>1. DOMAIN NoRequest = RequestFields
  BY DEF NoRequest, RequestFields
<1>2. Told(NoRequest)
  BY DEF NoRequest, Told, Ingesting, Changing
<1> QED BY <1>1, <1>2 DEF IndexingInit, RequestInv, RequestsAreRecords

(* What the requests know is kept by every step. *)
LEMMA RequestsStep == RequestInv /\ [IndexingNext]_indexingVars => RequestInv'
<1> SUFFICES ASSUME RequestInv, [IndexingNext]_indexingVars PROVE RequestInv'
  OBVIOUS
<1> USE DEF stores, Ingesting, Changing
<1>1. ASSUME NEW r \in Requests,
             IngestArrives(r) \/ Bm25Leg(r) \/ VectorLeg(r) \/ GatherLegs(r) \/ ExtractFacts(r) \/ AnswerIngest(r)
      PROVE  RequestInv'
  <2>1. PICK req, new : req = request[r] /\ new = request'[r]
    OBVIOUS
  <2>2. DOMAIN req = RequestFields /\ Told(req)
    BY <2>1 DEF RequestInv, RequestsAreRecords
  <2>3. CASE IngestArrives(r)
    <3>1. install' = install /\ users \subseteq users'
      BY <2>3 DEF IngestArrives
    <3> DEFINE Asking(user, content) == [request[r] EXCEPT !.op = "ingest", !.content = content, !.user = user]
               Arrives(user, base) ==
                 IF ~install.pool
                 THEN /\ request' = [request EXCEPT ![r] = Answered(base, 503, "none")]
                      /\ UNCHANGED <<users, lastDoc>>
                 ELSE \/ /\ users' = users \cup {user}
                         /\ lastDoc' = lastDoc + 1
                         /\ request' = [request EXCEPT ![r] =
                              IF install.extractor = "raises" THEN Answered(base, 500, "none")
                              ELSE [base EXCEPT !.at = "legs", !.doc = lastDoc', !.bm25 = "asked",
                                                !.vector = IF install.vector THEN "asked" ELSE "off"]]
                      \/ /\ request' = [request EXCEPT ![r] = Answered(base, 500, "none")]
                         /\ UNCHANGED <<users, lastDoc>>
    <3>arrived. PICK user \in Users, content \in Contents : Arrives(user, Asking(user, content))
      BY <2>3, Zenon DEF IngestArrives
    <3>2. PICK base : base = Asking(user, content) /\ Arrives(user, base)
      BY <3>arrived
    <3>3. /\ req.at = "idle" /\ request' = [request EXCEPT ![r] = new]
          /\ \/ \E code \in {500, 503} : new = Answered(base, code, "none")
             \/ /\ users' = users \cup {user}
                /\ \E doc : new = [base EXCEPT !.at = "legs", !.doc = doc, !.bm25 = "asked",
                                               !.vector = IF install.vector THEN "asked" ELSE "off"]
      <4>1. req.at = "idle"
        BY <2>1, <2>3 DEF IngestArrives
      <4>2. \A v : request' = [request EXCEPT ![r] = v] => new = v
        BY <2>1 DEF RequestInv, RequestsAreRecords
      <4>3. request' = [request EXCEPT ![r] = new]
        BY <3>2, <4>2
      <4>4. CASE ~install.pool
        <5>1. new = Answered(base, 503, "none")
          BY <3>2, <4>2, <4>4
        <5> QED BY <4>1, <4>3, <5>1
      <4>5. CASE install.pool /\ request' = [request EXCEPT ![r] = Answered(base, 500, "none")]
        BY <4>1, <4>2, <4>3, <4>5
      <4>6. CASE install.pool /\ request' # [request EXCEPT ![r] = Answered(base, 500, "none")]
        <5>1. /\ users' = users \cup {user}
              /\ request' = [request EXCEPT ![r] =
                   IF install.extractor = "raises" THEN Answered(base, 500, "none")
                   ELSE [base EXCEPT !.at = "legs", !.doc = lastDoc', !.bm25 = "asked",
                                     !.vector = IF install.vector THEN "asked" ELSE "off"]]
          BY <3>2, <4>6
        <5>2. new = [base EXCEPT !.at = "legs", !.doc = lastDoc', !.bm25 = "asked",
                                 !.vector = IF install.vector THEN "asked" ELSE "off"]
          BY <4>2, <4>6, <5>1
        <5> QED BY <4>1, <4>3, <5>1, <5>2
      <4> QED BY <4>4, <4>5, <4>6
    <3>4. /\ DOMAIN base = RequestFields /\ base.at = "idle" /\ base.op = "ingest" /\ base.user = user
          /\ base.code = req.code /\ base.bm25 = "off" /\ base.vector = "off"
      <4>1. base = [req EXCEPT !.op = "ingest", !.content = content, !.user = user]
        BY <2>1, <3>2
      <4>2. req.bm25 = "off" /\ req.vector = "off" /\ req.at = "idle"
        BY <2>2, <3>3 DEF Told
      <4> HIDE DEF Asking, Arrives
      <4> QED BY <2>2, <4>1, <4>2 DEF RequestFields
    <3>5. Told(base)
      BY <2>2, <3>4 DEF Told
    <3>6. CASE \E code \in {500, 503} : new = Answered(base, code, "none")
      <4>1. DOMAIN new = RequestFields
        BY <3>4, <3>6, AnswersFields
      <4>2. Told(new)
        BY <3>4, <3>5, <3>6, AnswersTold
      <4>3. Told(new)'
        BY <3>1, <4>2, ToldLater
      <4> QED BY <3>1, <3>3, <4>1, <4>3, RequestMoves
    <3>7. CASE /\ users' = users \cup {user}
               /\ \E doc : new = [base EXCEPT !.at = "legs", !.doc = doc, !.bm25 = "asked",
                                              !.vector = IF install.vector THEN "asked" ELSE "off"]
      <4>1. /\ DOMAIN new = RequestFields /\ new.at = "legs" /\ new.op = "ingest" /\ new.bm25 = "asked"
            /\ new.vector \in {"asked", "off"} /\ install.vector => new.vector = "asked"
            /\ new.user = user /\ new.code = base.code
        BY <3>4, <3>7 DEF RequestFields
      <4>2. Told(new)'
        BY <3>1, <3>4, <3>5, <3>7, <4>1 DEF Told
      <4> QED BY <3>1, <3>3, <4>1, <4>2, RequestMoves
    <3> QED BY <3>3, <3>6, <3>7
  <2>4. CASE Bm25Leg(r) \/ VectorLeg(r)
    <3>1. install' = install /\ users \subseteq users'
      BY <2>4 DEF Bm25Leg, VectorLeg
    <3>2. request' = [request EXCEPT ![r] = new] /\ DOMAIN new = RequestFields
      BY <2>1, <2>2, <2>4 DEF Bm25Leg, VectorLeg, RequestInv, RequestsAreRecords, RequestFields
    <3>3. Told(new)'
      BY <2>1, <2>2, <2>4 DEF Bm25Leg, VectorLeg, RequestInv, RequestsAreRecords, RequestFields, Told
    <3> QED BY <3>1, <3>2, <3>3, RequestMoves
  <2>5. CASE GatherLegs(r) \/ ExtractFacts(r)
    <3>1. install' = install /\ users \subseteq users'
      BY <2>5 DEF GatherLegs, ExtractFacts
    <3>2. request' = [request EXCEPT ![r] = new] /\ DOMAIN new = RequestFields
      BY <2>1, <2>2, <2>5 DEF GatherLegs, ExtractFacts, Goes, RequestInv, RequestsAreRecords, RequestFields
    <3>3. Told(new)'
      BY <2>1, <2>2, <2>5 DEF GatherLegs, ExtractFacts, Goes, RequestInv, RequestsAreRecords, RequestFields, Told
    <3> QED BY <3>1, <3>2, <3>3, RequestMoves
  <2>6. CASE AnswerIngest(r)
    <3>1. install' = install /\ users \subseteq users'
      BY <2>6 DEF AnswerIngest
    <3>2. \/ /\ AllLegsFailed(req) /\ request' = [request EXCEPT ![r] = Answered(req, 500, "none")]
          \/ /\ ~AllLegsFailed(req)
             /\ \E status : /\ status = "indexed" => req.vector # "failed"
                            /\ request' = [request EXCEPT ![r] = Answered(req, 201, status)]
      BY <2>1, <2>6 DEF AnswerIngest, Ends
    <3>3. /\ req.at = "extracted" /\ request' = [request EXCEPT ![r] = new]
          /\ \/ AllLegsFailed(req) /\ new = Answered(req, 500, "none")
             \/ /\ ~AllLegsFailed(req)
                /\ \E status : (status = "indexed" => req.vector # "failed") /\ new = Answered(req, 201, status)
      BY <2>1, <2>6, <3>2 DEF AnswerIngest, RequestInv, RequestsAreRecords
    <3>4. DOMAIN new = RequestFields
      BY <2>2, <3>3, AnswersFields
    <3>5. /\ req.bm25 \in {"ok", "failed"} /\ req.vector \in {"off", "ok", "failed"}
          /\ install.vector => req.vector # "off"
      BY <2>2, <3>3 DEF Told
    <3>6. Told(new)
      <4>1. CASE AllLegsFailed(req) /\ new = Answered(req, 500, "none")
        BY <2>2, <4>1, AnswersTold DEF AllLegsFailed
      <4>2. ASSUME ~AllLegsFailed(req), NEW status, status = "indexed" => req.vector # "failed",
                   new = Answered(req, 201, status)
            PROVE  Told(new)
        BY <2>2, <3>5, <4>2, AnswersTold DEF AllLegsFailed
      <4> QED BY <3>3, <4>1, <4>2
    <3>7. Told(new)'
      BY <3>1, <3>6, ToldLater
    <3> QED BY <3>1, <3>3, <3>4, <3>7, RequestMoves
  <2> QED BY <1>1, <2>3, <2>4, <2>5, <2>6
<1>2. ASSUME NEW r \in Requests,
             \/ ChangeArrives(r, "delete") \/ ChangeArrives(r, "update") \/ InvalidateDoc(r)
             \/ DeleteDocument(r) \/ DeleteFacts(r) \/ UpdateRow(r) \/ Reindex(r)
      PROVE  RequestInv'
  <2>1. PICK req, new : req = request[r] /\ new = request'[r]
    OBVIOUS
  <2>2. DOMAIN req = RequestFields /\ Told(req)
    BY <2>1 DEF RequestInv, RequestsAreRecords
  <2>3. install' = install /\ users \subseteq users'
    BY <1>2 DEF ChangeArrives, InvalidateDoc, DeleteDocument, DeleteFacts, UpdateRow, Reindex
  <2>4. CASE ChangeArrives(r, "delete") \/ ChangeArrives(r, "update")
    <3>1. PICK op \in {"delete", "update"} : ChangeArrives(r, op)
      BY <2>4
    <3>2. req.at = "idle"
      BY <2>1, <3>1 DEF ChangeArrives
    <3> DEFINE Asked(id, content, base) ==
                 /\ base = [req EXCEPT !.op = op, !.doc = id, !.content = content]
                 /\ request' = [request EXCEPT ![r] = new]
                 /\ \/ \E code \in {404, 500, 503} : new = Answered(base, code, "none")
                    \/ new = [base EXCEPT !.at = "found"]
    <3>asked. PICK id, content, base : Asked(id, content, base)
      <4>1. \A v : request' = [request EXCEPT ![r] = v] => new = v
        BY <2>1 DEF RequestInv, RequestsAreRecords
      <4> DEFINE Asking(id, text) ==
                   [request[r] EXCEPT !.op = op, !.doc = id, !.content = IF op = "update" THEN text ELSE <<>>]
                 Arrives(id, up, base) ==
                   request' = [request EXCEPT ![r] =
                     IF ~install.pool THEN Answered(base, 503, "none")
                     ELSE IF ~up \/ (op = "update" /\ install.extractor = "raises") THEN Answered(base, 500, "none")
                     ELSE IF Row(id) = {} THEN Answered(base, 404, "none")
                     ELSE [base EXCEPT !.at = "found"]]
      <4>3. PICK id \in 0..lastDoc, text \in Contents, up \in BOOLEAN : Arrives(id, up, Asking(id, text))
        BY <3>1, Zenon DEF ChangeArrives
      <4>4. /\ request' = [request EXCEPT ![r] = new]
            /\ new = IF ~install.pool THEN Answered(Asking(id, text), 503, "none")
                     ELSE IF ~up \/ (op = "update" /\ install.extractor = "raises")
                     THEN Answered(Asking(id, text), 500, "none")
                     ELSE IF Row(id) = {} THEN Answered(Asking(id, text), 404, "none")
                     ELSE [Asking(id, text) EXCEPT !.at = "found"]
        <5> HIDE DEF Asking
        <5> DEFINE v == IF ~install.pool THEN Answered(Asking(id, text), 503, "none")
                        ELSE IF ~up \/ (op = "update" /\ install.extractor = "raises")
                        THEN Answered(Asking(id, text), 500, "none")
                        ELSE IF Row(id) = {} THEN Answered(Asking(id, text), 404, "none")
                        ELSE [Asking(id, text) EXCEPT !.at = "found"]
        <5>1. request' = [request EXCEPT ![r] = v]
          BY <4>3
        <5> HIDE DEF v, Arrives
        <5>2. new = v
          BY <4>1, <5>1
        <5>3. request' = [request EXCEPT ![r] = new]
          BY <5>1, <5>2
        <5> QED BY <5>2, <5>3 DEF v
      <4>5. PICK content : content = IF op = "update" THEN text ELSE <<>>
        OBVIOUS
      <4>6. PICK base : base = [req EXCEPT !.op = op, !.doc = id, !.content = content]
        OBVIOUS
      <4>7. base = Asking(id, text)
        BY <2>1, <4>5, <4>6
      <4>8. \/ \E code \in {404, 500, 503} : new = Answered(base, code, "none")
            \/ new = [base EXCEPT !.at = "found"]
        <5> HIDE DEF Asking, Arrives
        <5> QED BY <4>4, <4>7
      <4>9. Asked(id, content, base)
        <5> HIDE DEF Asking, Arrives
        <5> QED BY <4>4, <4>6, <4>8
      <4> HIDE DEF Asked
      <4> QED BY <4>9
    <3>3. /\ DOMAIN base = RequestFields /\ base.at = "idle" /\ base.op = op /\ base.code = req.code
          /\ base.bm25 = "off" /\ base.vector = "off"
      <4>1. req.bm25 = "off" /\ req.vector = "off" /\ req.at = "idle"
        BY <2>2, <3>2 DEF Told
      <4> QED BY <2>2, <3>asked, <4>1 DEF RequestFields
    <3>4. Told(base)
      BY <2>2, <3>3 DEF Told
    <3>5. CASE \E code \in {404, 500, 503} : new = Answered(base, code, "none")
      <4>1. DOMAIN new = RequestFields
        BY <3>3, <3>5, AnswersFields
      <4>2. Told(new)
        BY <3>3, <3>4, <3>5, AnswersTold
      <4>3. Told(new)'
        BY <2>3, <4>2, ToldLater
      <4> QED BY <2>3, <3>asked, <4>1, <4>3, RequestMoves
    <3>6. CASE new = [base EXCEPT !.at = "found"]
      <4>1. /\ DOMAIN new = RequestFields /\ new.at = "found" /\ new.op = op /\ new.code = base.code
            /\ new.bm25 = "off" /\ new.vector = "off"
        BY <3>3, <3>6 DEF RequestFields
      <4>2. Told(new)
        BY <3>4, <4>1 DEF Told
      <4>3. Told(new)'
        BY <2>3, <4>2, ToldLater
      <4> QED BY <2>3, <3>asked, <4>1, <4>3, RequestMoves
    <3> QED BY <3>asked, <3>5, <3>6
  <2>5. CASE InvalidateDoc(r)
    <3>1. /\ req.at = "found"
          /\ \/ request' = [request EXCEPT ![r] = [req EXCEPT !.at = "invalidated", !.did = {"invalidated"}]]
             \/ request' = [request EXCEPT ![r] = Answered(req, 500, "none")]
      BY <2>1, <2>5 DEF InvalidateDoc, Ends, RequestInv, RequestsAreRecords
    <3>2. /\ request' = [request EXCEPT ![r] = new]
          /\ \/ new = [req EXCEPT !.at = "invalidated", !.did = {"invalidated"}]
             \/ new = Answered(req, 500, "none")
      BY <2>1, <3>1 DEF RequestInv, RequestsAreRecords
    <3>3. req.op # "ingest" /\ req.bm25 = "off" /\ req.vector = "off"
      BY <2>2, <3>1 DEF Told
    <3>4. CASE new = Answered(req, 500, "none")
      <4>1. DOMAIN new = RequestFields /\ Told(new)
        BY <2>2, <3>3, <3>4, AnswersFields, AnswersTold
      <4>2. Told(new)'
        BY <2>3, <4>1, ToldLater
      <4> QED BY <2>3, <3>2, <4>1, <4>2, RequestMoves
    <3>5. CASE new = [req EXCEPT !.at = "invalidated", !.did = {"invalidated"}]
      <4>1. /\ DOMAIN new = RequestFields /\ new.at = "invalidated" /\ "invalidated" \in new.did
            /\ new.op = req.op /\ new.code = req.code /\ new.bm25 = "off" /\ new.vector = "off"
        BY <2>2, <3>3, <3>5 DEF RequestFields
      <4>2. Told(new)
        BY <2>2, <3>1, <4>1 DEF Told
      <4>3. Told(new)'
        BY <2>3, <4>2, ToldLater
      <4> QED BY <2>3, <3>2, <4>1, <4>3, RequestMoves
    <3> QED BY <3>2, <3>4, <3>5
  <2>6. CASE DeleteDocument(r) \/ DeleteFacts(r) \/ UpdateRow(r) \/ Reindex(r)
    <3>1. \/ req.at = "invalidated" /\ request' = [request EXCEPT ![r] = [req EXCEPT !.at = "cleared"]]
          \/ req.at = "cleared" /\ request' = [request EXCEPT ![r] = [req EXCEPT !.at = "updated"]]
          \/ /\ req.at \in Changing
             /\ \E status : \E code \in {200, 500} : request' = [request EXCEPT ![r] = Answered(req, code, status)]
      BY <2>1, <2>6 DEF DeleteDocument, DeleteFacts, UpdateRow, Reindex, Goes, Ends, RequestInv, RequestsAreRecords
    <3>2. /\ request' = [request EXCEPT ![r] = new]
          /\ \/ req.at = "invalidated" /\ new = [req EXCEPT !.at = "cleared"]
             \/ req.at = "cleared" /\ new = [req EXCEPT !.at = "updated"]
             \/ /\ req.at \in Changing
                /\ \E status : \E code \in {200, 500} : new = Answered(req, code, status)
      BY <2>1, <3>1 DEF RequestInv, RequestsAreRecords
    <3>3. req.op \in {"delete", "update"} /\ req.bm25 = "off" /\ req.vector = "off"
      BY <2>2, <3>2 DEF Told
    <3>4. DOMAIN new = RequestFields
      BY <2>2, <3>2, AnswersFields DEF RequestFields
    <3>5. Told(new)
      <4>1. ASSUME NEW at \in {"cleared", "updated"}, req.at \in {"invalidated", "cleared"},
                   new = [req EXCEPT !.at = at]
            PROVE  Told(new)
        <5>1. /\ new.at = at /\ new.op = req.op /\ new.code = req.code /\ new.did = req.did
              /\ new.bm25 = "off" /\ new.vector = "off"
          BY <2>2, <3>3, <4>1 DEF RequestFields
        <5> QED BY <2>2, <3>3, <4>1, <5>1 DEF Told
      <4>2. ASSUME NEW code \in {200, 500}, NEW status, new = Answered(req, code, status) PROVE Told(new)
        BY <2>2, <3>3, <4>2, AnswersTold
      <4> QED BY <3>2, <4>1, <4>2
    <3>6. Told(new)'
      BY <2>3, <3>5, ToldLater
    <3> QED BY <2>3, <3>2, <3>4, <3>6, RequestMoves
  <2> QED BY <1>2, <2>4, <2>5, <2>6
<1>3. CASE IndexChunks \/ UNCHANGED indexingVars
  BY <1>3 DEF IndexChunks, indexingVars, RequestInv, RequestsAreRecords, Told
<1> QED BY <1>1, <1>2, <1>3 DEF IndexingNext

-----------------------------------------------------------------------------
(* The tables.                                                             *)

(* A row that is upserted when it may be keeps the table's constraints, and
   takes no row away. *)
LEMMA UpsertKeeps ==
  ASSUME TableInv, NEW id, NEW user \in users, NEW content, Insertable(docs, Document(id, user, content)),
         docs' = Upsert(docs, Document(id, user, content)), UNCHANGED <<users, facts, chunks>>
  PROVE  TableInv' /\ docs \subseteq docs'
<1>1. PICK new : new = Document(id, user, content)
  OBVIOUS
<1>2. DOMAIN new = RowFields /\ new.id = id /\ new.user = user /\ new.content = content
  BY <1>1 DEF Document, RowFields
<1>3. CASE \E d \in docs : d.content = new.content
  BY <1>1, <1>3 DEF Upsert, TableInv, RowsUnique, ChunksUnique
<1>4. CASE ~\E d \in docs : d.content = new.content
  <2>1. docs' = docs \cup {new} /\ \A d \in docs : d.id # new.id
    BY <1>1, <1>4 DEF Upsert, Insertable
  <2>2. RowsUnique'
    BY <1>4, <2>1 DEF TableInv, RowsUnique
  <2> QED BY <1>2, <2>1, <2>2 DEF TableInv, ChunksUnique
<1> QED BY <1>3, <1>4

(* The chunks written for a document replace those of the same numbers. *)
LEMMA WithChunksUnique ==
  ASSUME ChunksUnique, NEW doc, NEW content, chunks' = WithChunks(doc, content)
  PROVE  ChunksUnique'
<1> SUFFICES ASSUME NEW c \in chunks', NEW e \in chunks', c.doc = e.doc, c.n = e.n PROVE c = e
  BY DEF ChunksUnique
<1> DEFINE old == {x \in chunks : ~(x.doc = doc /\ x.n \in DOMAIN content)}
           fresh == {[doc |-> doc, n |-> i, text |-> content[i]] : i \in DOMAIN content}
<1>1. chunks' = old \cup fresh
  BY DEF WithChunks
<1>2. \A x \in fresh : x.doc = doc /\ x.n \in DOMAIN content /\ x = [doc |-> doc, n |-> x.n, text |-> content[x.n]]
  OBVIOUS
<1>3. \A x \in old : x \in chunks /\ ~(x.doc = doc /\ x.n \in DOMAIN content)
  OBVIOUS
<1> HIDE DEF old, fresh
<1>4. CASE c \in old /\ e \in old
  BY <1>3, <1>4 DEF ChunksUnique
<1>5. CASE c \in fresh /\ e \in fresh
  BY <1>2, <1>5
<1>6. CASE (c \in old /\ e \in fresh) \/ (c \in fresh /\ e \in old)
  BY <1>2, <1>3, <1>6
<1> QED BY <1>1, <1>4, <1>5, <1>6

(* A row deleted takes its facts with it. *)
LEMMA DeleteKeeps ==
  ASSUME TableInv, NEW id, DeleteRow(id), UNCHANGED <<users, chunks>>
  PROVE  TableInv'
BY DEF DeleteRow, Row, TableInv, RowsUnique, ChunksUnique

(* A row takes a content that is no other row's. *)
LEMMA UpdateKeeps ==
  ASSUME TableInv, NEW id, NEW content, UNCHANGED <<users, facts, chunks>>,
         \A d \in docs : d.content = content => d.id = id,
         docs' = {IF d.id = id THEN [d EXCEPT !.content = content] ELSE d : d \in docs}
  PROVE  TableInv'
<1> DEFINE Updated(d) == IF d.id = id THEN [d EXCEPT !.content = content] ELSE d
<1>1. \A d \in docs : /\ DOMAIN Updated(d) = RowFields
                      /\ Updated(d).id = d.id /\ Updated(d).user = d.user
                      /\ Updated(d).content = IF d.id = id THEN content ELSE d.content
  BY DEF TableInv, RowFields
<1>2. docs' = {Updated(d) : d \in docs}
  OBVIOUS
<1> HIDE DEF Updated
<1>3. RowsUnique'
  <2> SUFFICES ASSUME NEW d \in docs, NEW e \in docs,
                      Updated(d).id = Updated(e).id \/ Updated(d).content = Updated(e).content
               PROVE  d = e
    BY <1>2 DEF RowsUnique
  <2> QED BY <1>1 DEF TableInv, RowsUnique
<1>4. \A d \in docs' : DOMAIN d = RowFields /\ d.user \in users
  BY <1>1, <1>2 DEF TableInv
<1>5. \A f \in facts : \E d \in docs' : d.id = f.doc
  BY <1>1, <1>2 DEF TableInv
<1> QED BY <1>3, <1>4, <1>5 DEF TableInv, ChunksUnique

(* Documents loaded in one transaction: one row for each content that has none. *)
LEMMA IndexChunksKeeps ==
  ASSUME TableInv, IndexChunks
  PROVE  TableInv' /\ docs \subseteq docs'
<1>1. PICK load \in Loads, user \in users :
        LET ids == {c.doc : c \in load}
            fresh == {id \in ids : /\ \A d \in docs : d.content # Joined(load, id)
                                   /\ \A other \in ids : Joined(load, other) = Joined(load, id) => id <= other}
        IN  /\ \A id \in fresh : Row(id) = {}
            /\ docs' = docs \cup {Document(id, user, Joined(load, id)) : id \in fresh}
  BY DEF IndexChunks
<1> DEFINE ids == {c.doc : c \in load}
           fresh == {id \in ids : /\ \A d \in docs : d.content # Joined(load, id)
                                  /\ \A other \in ids : Joined(load, other) = Joined(load, id) => id <= other}
<1>2. fresh \subseteq Nat
  BY IndexingAssumption
<1>3. \A i, j \in fresh : Joined(load, i) = Joined(load, j) => i <= j
  OBVIOUS
<1>4. \A i, j \in fresh : Joined(load, i) = Joined(load, j) => i = j
  <2> HIDE DEF fresh
  <2> QED BY <1>2, <1>3
<1>5. \A i \in fresh, d \in docs : d.content # Joined(load, i) /\ d.id # i
  BY <1>1 DEF Row
<1>6. docs' = docs \cup {Document(id, user, Joined(load, id)) : id \in fresh}
  BY <1>1
<1> HIDE DEF ids, fresh
<1>7. \A i : LET new == Document(i, user, Joined(load, i)) IN
             DOMAIN new = RowFields /\ new.id = i /\ new.user = user /\ new.content = Joined(load, i)
  BY DEF Document, RowFields
<1>8. RowsUnique'
  <2> SUFFICES ASSUME NEW d \in docs', NEW e \in docs', d.id = e.id \/ d.content = e.content PROVE d = e
    BY DEF RowsUnique
  <2>1. CASE d \in docs /\ e \in docs
    BY <2>1 DEF TableInv, RowsUnique
  <2>2. CASE d \notin docs /\ e \in docs
    BY <1>5, <1>6, <1>7, <2>2
  <2>3. CASE d \in docs /\ e \notin docs
    BY <1>5, <1>6, <1>7, <2>3
  <2>4. CASE d \notin docs /\ e \notin docs
    <3>1. PICK i \in fresh, j \in fresh :
            d = Document(i, user, Joined(load, i)) /\ e = Document(j, user, Joined(load, j))
      BY <1>6, <2>4
    <3>2. i = j
      BY <1>4, <1>7, <3>1
    <3> QED BY <3>1, <3>2
  <2> QED BY <2>1, <2>2, <2>3, <2>4
<1>9. \A d \in docs' : DOMAIN d = RowFields /\ d.user \in users
  BY <1>6, <1>7 DEF TableInv
<1>10. UNCHANGED <<users, chunks, facts>> /\ docs \subseteq docs'
  BY <1>6 DEF IndexChunks
<1> QED BY <1>8, <1>9, <1>10 DEF TableInv, ChunksUnique

(* The tables are empty at the start. *)
LEMMA TablesInit == IndexingInit => TableInv
BY DEF IndexingInit, TableInv, RowsUnique, ChunksUnique

(* Steps that write no row and no fact, add users only, and leave the chunks
   alone or write a document's keep the tables' constraints. *)
LEMMA OtherTablesKeep ==
  ASSUME TableInv, UNCHANGED docs, facts' \subseteq facts, users \subseteq users', users' \subseteq Users,
         UNCHANGED chunks \/ \E doc, content : chunks' = WithChunks(doc, content)
  PROVE  TableInv'
<1>1. ChunksUnique'
  <2>1. CASE UNCHANGED chunks
    BY <2>1 DEF TableInv, ChunksUnique
  <2>2. ASSUME NEW doc, NEW content, chunks' = WithChunks(doc, content) PROVE ChunksUnique'
    BY <2>2, WithChunksUnique DEF TableInv
  <2> QED BY <2>1, <2>2
<1> QED BY <1>1 DEF TableInv, RowsUnique

(* The tables' constraints are kept by every step. *)
LEMMA TablesStep == RequestInv /\ TableInv /\ [IndexingNext]_indexingVars => TableInv'
<1> SUFFICES ASSUME RequestInv, TableInv, [IndexingNext]_indexingVars PROVE TableInv'
  OBVIOUS
<1> USE DEF stores
<1>0. users \subseteq Users
  BY DEF TableInv
<1>1. ASSUME NEW r \in Requests, IngestArrives(r) PROVE TableInv'
  <2>1. UNCHANGED <<docs, chunks, facts>> /\ users \subseteq users' /\ users' \subseteq Users
    BY <1>0, <1>1 DEF IngestArrives
  <2> QED BY <2>1, OtherTablesKeep
<1>2. ASSUME NEW r \in Requests, Bm25Leg(r) PROVE TableInv'
  <2>1. request[r].user \in users /\ UNCHANGED <<users, chunks, facts>>
    BY <1>2 DEF Bm25Leg, RequestInv, Told, Ingesting
  <2>2. CASE UNCHANGED docs
    BY <2>1, <2>2, <1>0, OtherTablesKeep
  <2>3. PICK id, user, content : id = request[r].doc /\ user = request[r].user /\ content = request[r].content
    OBVIOUS
  <2>4. CASE docs' # docs
    <3>1. Insertable(docs, Document(id, user, content)) /\ docs' = Upsert(docs, Document(id, user, content))
      BY <1>2, <2>3, <2>4 DEF Bm25Leg
    <3> QED BY <2>1, <2>3, <3>1, UpsertKeeps
  <2> QED BY <2>2, <2>4
<1>3. ASSUME NEW r \in Requests, VectorLeg(r) \/ Reindex(r) PROVE TableInv'
  <2>1. UNCHANGED chunks \/ chunks' = WithChunks(request[r].doc, request[r].content)
    BY <1>3 DEF VectorLeg, Reindex
  <2>2. UNCHANGED <<docs, facts, users>>
    BY <1>3 DEF VectorLeg, Reindex
  <2> QED BY <1>0, <2>1, <2>2, OtherTablesKeep
<1>4. ASSUME NEW r \in Requests, ExtractFacts(r) PROVE TableInv'
  <2>1. UNCHANGED <<docs, users, chunks>>
    BY <1>4 DEF ExtractFacts
  <2>2. \A f \in facts' : f \in facts \/ (f.doc = request[r].doc /\ Row(request[r].doc) # {})
    BY <1>4 DEF ExtractFacts
  <2>3. \A f \in facts' : \E d \in docs : d.id = f.doc
    BY <2>2 DEF Row, TableInv
  <2> QED BY <2>1, <2>3 DEF TableInv, RowsUnique, ChunksUnique
<1>5. ASSUME NEW r \in Requests, DeleteDocument(r) PROVE TableInv'
  <2>1. CASE DeleteRow(request[r].doc)
    <3>1. PICK id : id = request[r].doc
      OBVIOUS
    <3> QED BY <1>5, <2>1, <3>1, DeleteKeeps DEF DeleteDocument
  <2>2. CASE UNCHANGED <<docs, facts>>
    BY <1>0, <1>5, <2>2, OtherTablesKeep DEF DeleteDocument
  <2> QED BY <1>5, <2>1, <2>2 DEF DeleteDocument
<1>6. ASSUME NEW r \in Requests, DeleteFacts(r) PROVE TableInv'
  BY <1>0, <1>6, OtherTablesKeep DEF DeleteFacts
<1>7. ASSUME NEW r \in Requests, UpdateRow(r) PROVE TableInv'
  <2>1. UNCHANGED <<users, chunks, facts>>
    BY <1>7 DEF UpdateRow
  <2>2. CASE UNCHANGED docs
    BY <1>0, <2>1, <2>2, OtherTablesKeep
  <2>3. PICK id, content : id = request[r].doc /\ content = request[r].content
    OBVIOUS
  <2>4. CASE docs' # docs
    <3>1. /\ \A d \in docs : d.content = content => d.id = id
          /\ docs' = {IF d.id = id THEN [d EXCEPT !.content = content] ELSE d : d \in docs}
      BY <1>7, <2>3, <2>4 DEF UpdateRow
    <3> QED BY <2>1, <3>1, UpdateKeeps
  <2> QED BY <2>2, <2>4
<1>8. ASSUME NEW r \in Requests,
             \/ GatherLegs(r) \/ AnswerIngest(r) \/ ChangeArrives(r, "delete") \/ ChangeArrives(r, "update")
             \/ InvalidateDoc(r)
      PROVE  TableInv'
  <2>1. UNCHANGED <<users, docs, chunks, facts>>
    BY <1>8 DEF GatherLegs, AnswerIngest, ChangeArrives, InvalidateDoc
  <2> QED BY <1>0, <2>1, OtherTablesKeep
<1>9. CASE IndexChunks
  BY <1>9, IndexChunksKeeps
<1>10. CASE UNCHANGED indexingVars
  BY <1>0, <1>10, OtherTablesKeep DEF indexingVars
<1> QED BY <1>1, <1>2, <1>3, <1>4, <1>5, <1>6, <1>7, <1>8, <1>9, <1>10 DEF IndexingNext

(* Both invariants hold in every state the endpoints reach. *)
LEMMA IndexingInvariant == IndexingSpec => [](RequestInv /\ TableInv)
<1>1. IndexingInit => RequestInv /\ TableInv
  BY RequestsInit, TablesInit
<1>2. RequestInv /\ TableInv /\ [IndexingNext]_indexingVars => RequestInv' /\ TableInv'
  BY RequestsStep, TablesStep
<1> QED BY <1>1, <1>2, PTL DEF IndexingSpec

(* The tables keep their constraints, ids and contents unique and a document
   for every fact, under interleaved requests, failed legs, lost answers and
   loads of whole lists of chunks. *)
THEOREM TablesConsistent == IndexingSpec => []IndexingTypeOK
<1>1. RequestInv /\ TableInv => IndexingTypeOK
  <2> SUFFICES ASSUME RequestInv, TableInv PROVE IndexingTypeOK
    OBVIOUS
  <2>1. /\ install.extractor \in {"off", "ready", "raises"}
        /\ {install.pool, install.vector, install.columns} \subseteq BOOLEAN
    BY IndexingAssumption DEF RequestInv
  <2>2. \A r \in Requests : request[r].code \in {0, 200, 201, 404, 500, 503}
    BY DEF RequestInv, Told
  <2> QED BY <2>1, <2>2 DEF TableInv, RowsUnique, ChunksUnique, IndexingTypeOK
<1> QED BY <1>1, IndexingInvariant, PTL

(* What an ingest claims it has done it did, and one that answers 500 has no
   leg that confirmed (index_document_with_hybrid, POST /documents). *)
THEOREM IngestToldTruly == IndexingSpec => []IngestTellsTruth
<1>1. RequestInv => IngestTellsTruth
  BY DEF RequestInv, Told, IngestTellsTruth
<1> QED BY <1>1, IndexingInvariant, PTL

(* A step that takes a row or its content away is a request's that told the
   semantic cache before (invalidate_doc comes first in DELETE and PUT). *)
THEOREM ChangesAreAnnounced == IndexingSpec => ContentChangesAnnounced
<1> DEFINE Announced ==
      \A d \in docs : (\A e \in docs' : <<e.id, e.content>> # <<d.id, d.content>>) =>
        \E r \in Requests : /\ request[r].at # "done" /\ request[r].doc = d.id
                            /\ "invalidated" \in request[r].did
<1>1. RequestInv /\ TableInv /\ [IndexingNext]_indexingVars => [Announced]_indexingVars
  <2> SUFFICES ASSUME RequestInv, TableInv, IndexingNext PROVE Announced
    OBVIOUS
  <2>1. CASE docs \subseteq docs'
    BY <2>1
  <2>2. ASSUME NEW r \in Requests, DeleteDocument(r), ~(docs \subseteq docs') PROVE Announced
    <3>1. docs' = docs \ Row(request[r].doc)
      BY <2>2 DEF DeleteDocument, DeleteRow
    <3>2. request[r].at # "done" /\ "invalidated" \in request[r].did
      BY <2>2 DEF DeleteDocument, RequestInv, Told
    <3> QED BY <3>1, <3>2 DEF Row
  <2>3. ASSUME NEW r \in Requests, UpdateRow(r), ~(docs \subseteq docs') PROVE Announced
    <3>1. docs' = {IF d.id = request[r].doc THEN [d EXCEPT !.content = request[r].content] ELSE d : d \in docs}
      BY <2>3 DEF UpdateRow
    <3>2. request[r].at # "done" /\ "invalidated" \in request[r].did
      BY <2>3 DEF UpdateRow, RequestInv, Told
    <3>3. \A d \in docs : d.id # request[r].doc => d \in docs'
      BY <3>1
    <3> QED BY <3>2, <3>3
  <2>4. ASSUME NEW r \in Requests, Bm25Leg(r) PROVE docs \subseteq docs'
    BY <2>4 DEF Bm25Leg, Upsert
  <2>5. IndexChunks => docs \subseteq docs'
    BY IndexChunksKeeps
  <2>6. ASSUME NEW r \in Requests,
               \/ IngestArrives(r) \/ VectorLeg(r) \/ GatherLegs(r) \/ ExtractFacts(r) \/ AnswerIngest(r)
               \/ ChangeArrives(r, "delete") \/ ChangeArrives(r, "update") \/ InvalidateDoc(r)
               \/ DeleteFacts(r) \/ Reindex(r)
        PROVE  docs \subseteq docs'
    BY <2>6 DEF IngestArrives, VectorLeg, GatherLegs, ExtractFacts, AnswerIngest, ChangeArrives, InvalidateDoc,
                DeleteFacts, Reindex, stores
  <2> HIDE DEF Announced
  <2> QED BY <2>1, <2>2, <2>3, <2>4, <2>5, <2>6 DEF IndexingNext
<1> QED BY <1>1, IndexingInvariant, PTL DEF IndexingSpec, ContentChangesAnnounced

-----------------------------------------------------------------------------
(* The types of the process.                                               *)

Phases == {"built", "failed", "writers", "pool", "pipeline", "loops", "serving",
           "stopping", "broken", "closing", "stopped"}
Services == {"operational", "forensic", "ingestor", "collector", "flusher"}

(* _startup makes a pool when it is the pool's turn, or else when it is the
   pipeline's: so there are two at most.  And what is cached is valid. *)
ProcessInv ==
  /\ PoolInv /\ site \in Sites /\ phase \in Phases /\ running \subseteq Services
  /\ phase \in {"built", "failed", "writers", "pool"} => poolsMade = 0
  /\ phase = "pipeline" => poolsMade <= 1
  /\ poolsMade \in 0..2 /\ appPool \in 0..2
  /\ \A p \in pipeline \cup overrideCache : ValidConfig(p.config) /\ p.pool \in 0..2
  /\ DOMAIN run = Runs
  /\ \A r \in Runs : /\ DOMAIN run[r] = {"at", "ask", "got"} /\ run[r].ask \subseteq Asks
                     /\ run[r].at \in {"idle", "answering", "refused", "over"}

(* What a request overrides, it overrides by what is valid. *)
LEMMA OverridesAreValid ==
  ASSUME NEW c \in RetrieverConfigs, ValidConfig(c), NEW o \in Overrides
  PROVE  ValidConfig(ApplyOverrides(c, o))
<1>1. PICK t, v, w : /\ ApplyOverrides(c, o) = [c EXCEPT !.strategy = t, !.reranker = v, !.topK = w]
                     /\ t = IF o.strategy \subseteq Strategies /\ o.strategy # {} THEN CHOOSE s \in o.strategy : TRUE ELSE c.strategy
                     /\ w = IF \E k \in o.topK : k > 0 THEN CHOOSE k \in o.topK : TRUE ELSE c.topK
  BY DEF ApplyOverrides
<1>2. t \in Strategies
  BY <1>1 DEF ValidConfig
<1>3. w > 0
  <2>1. PICK K : K = o.topK
    OBVIOUS
  <2>2. K = {} \/ K = {-1} \/ K = {0} \/ K = {1}
    BY <2>1 DEF Overrides, Optional
  <2>3. CASE K = {1}
    BY <1>1, <2>1, <2>3
  <2>4. CASE K # {1}
    <3>1. ~ \E k \in K : k > 0
      BY <2>2, <2>4
    <3> QED BY <1>1, <2>1, <3>1 DEF ValidConfig
  <2> QED BY <2>3, <2>4
<1>4. PICK d : d = [c EXCEPT !.strategy = t, !.reranker = v, !.topK = w]
  OBVIOUS
<1>5. /\ d.strategy = t /\ d.topK = w /\ d.perLeg = c.perLeg /\ d.fused = c.fused
      /\ d.vectorWeight = c.vectorWeight /\ d.bm25Weight = c.bm25Weight /\ d.chain = c.chain
  BY <1>4 DEF RetrieverConfigs
<1>6. ValidConfig(d)
  BY <1>2, <1>3, <1>5 DEF ValidConfig
<1> QED BY <1>1, <1>4, <1>6

(* A process that begins is in such a state (lifespan, the settings). *)
LEMMA ProcessStarts == LifecycleInit => ProcessInv
<1>1. SUFFICES ASSUME LifecycleInit PROVE ProcessInv
  OBVIOUS
<1>2. PoolInv
  BY <1>1, PoolsInit
<1>3. \A r \in Runs : /\ DOMAIN run[r] = {"at", "ask", "got"} /\ run[r].ask \subseteq Asks
                      /\ run[r].at \in {"idle", "answering", "refused", "over"}
  BY <1>1 DEF LifecycleInit
<1> QED BY <1>1, <1>2, <1>3 DEF LifecycleInit, ProcessInv, Phases

(* A request caches what is valid, and its run goes on. *)
LEMMA RequestKeepsProcess ==
  ASSUME ProcessInv, PoolInv', UNCHANGED <<site, phase, running, poolVars, pipeline>>, NEW ask \in Asks, NEW r \in Runs,
         NEW ifRaised \in {"refused", "answering"}, NEW pool \in 0..2, GivePipeline(r, ask, pool, ifRaised)
  PROVE  ProcessInv'
<1>1. PICK config : config = ApplyOverrides(site.env, ask)
  OBVIOUS
<1>2. ValidConfig(config)
  BY <1>1, LifecycleAssumption, OverridesAreValid DEF ProcessInv
<1>3. PICK built : built = BuiltPipeline(config, pool)
  OBVIOUS
<1>4. built.config = config /\ built.pool \in 0..2
  BY <1>3, BuiltHolds DEF BuiltPipeline, Pipeline
<1>5. overrideCache' \subseteq overrideCache \cup {built}
  BY <1>1, <1>3 DEF GivePipeline
<1>6. \A p \in pipeline' \cup overrideCache' : ValidConfig(p.config) /\ p.pool \in 0..2
  BY <1>2, <1>4, <1>5 DEF ProcessInv
<1>7. PICK at, got : at \in {"answering", "refused"} /\ run' = [run EXCEPT ![r] = [at |-> at, ask |-> {ask}, got |-> got]]
  BY <1>1 DEF GivePipeline
<1>8. /\ DOMAIN run' = Runs
      /\ \A q \in Runs : /\ DOMAIN run'[q] = {"at", "ask", "got"} /\ run'[q].ask \subseteq Asks
                         /\ run'[q].at \in {"idle", "answering", "refused", "over"}
  BY <1>7 DEF ProcessInv
<1> QED BY <1>6, <1>8 DEF ProcessInv, poolVars

(* The retriever's pool is the one shared, or a second one (_get_shared_pool). *)
LEMMA TakenPool ==
  ASSUME ProcessInv, TakePool
  PROVE  /\ poolsMade' \in {poolsMade, poolsMade + 1}
         /\ sharedPool' \in 0..poolsMade' /\ sharedPool' \in Nat
<1>1. CASE UsablePool # 0
  BY <1>1 DEF TakePool, ProcessInv, PoolInv
<1>2. CASE UsablePool = 0
  BY <1>2 DEF TakePool, ProcessInv, PoolInv
<1> QED BY <1>1, <1>2

(* Every step of the startup, the requests and the shutdown keeps it. *)
LEMMA ProcessSteps == ProcessInv /\ [LifecycleNext]_lifecycleVars => ProcessInv'
<1> SUFFICES ASSUME ProcessInv, [LifecycleNext]_lifecycleVars PROVE ProcessInv'
  OBVIOUS
<1>0. PoolInv'
  BY PoolsStep DEF ProcessInv
<1>1. CASE ConnectRedis
  BY <1>0, <1>1 DEF ConnectRedis, ProcessInv, poolVars, cacheState, Phases
<1>2. CASE StartWriters
  <2>1. site.streams \subseteq Services /\ "operational" \in Services
    BY LifecycleAssumption DEF ProcessInv, Services
  <2>2. running' \subseteq Services
    BY <1>2, <2>1 DEF StartWriters
  <2> QED BY <1>0, <1>2, <2>2 DEF StartWriters, ProcessInv, poolVars, cacheState, Phases
<1>3. CASE StartLoops
  <2>1. running' \subseteq Services
    BY <1>3 DEF StartLoops, ProcessInv, Services
  <2> QED BY <1>0, <1>3, <2>1 DEF StartLoops, ProcessInv, poolVars, cacheState, Phases
<1>4. CASE CreatePool
  <2>1. /\ phase = "pool" /\ phase' = "pipeline" /\ UNCHANGED <<site, running, cacheState, run>>
        /\ (TakePool /\ appPool' = sharedPool') \/ UNCHANGED poolVars
    BY <1>4 DEF CreatePool
  <2>2. poolsMade' \in 0..1 /\ appPool' \in 0..2
    <3>1. CASE UNCHANGED poolVars
      BY <2>1, <3>1 DEF ProcessInv, poolVars
    <3>2. CASE TakePool /\ appPool' = sharedPool'
      BY <2>1, <3>2, TakenPool DEF ProcessInv
    <3> QED BY <2>1, <3>1, <3>2
  <2> QED BY <1>0, <2>1, <2>2 DEF ProcessInv, cacheState, Phases
<1>5. CASE CreatePipeline
  <2>1. /\ phase = "pipeline" /\ phase' = "loops" /\ UNCHANGED <<site, running, appPool, overrideCache, run>>
    BY <1>5 DEF CreatePipeline
  <2>2. ValidConfig(site.env)
    BY LifecycleAssumption DEF ProcessInv
  <2>3. poolsMade' \in 0..2 /\ \A p \in pipeline' : ValidConfig(p.config) /\ p.pool \in 0..2
    <3>1. CASE pipeline' \in {{FallbackPipeline}, {}} /\ UNCHANGED <<poolsMade, openPools, sharedPool>>
      <4>1. FallbackPipeline.config = site.env /\ FallbackPipeline.pool = 0
        BY DEF FallbackPipeline, Pipeline
      <4> QED BY <2>2, <3>1, <4>1 DEF ProcessInv
    <3>2. CASE TakePool /\ pipeline' \subseteq {BuiltPipeline(site.env, sharedPool')}
      <4>1. poolsMade' \in 0..2 /\ sharedPool' \in 0..2
        BY <2>1, <3>2, TakenPool DEF ProcessInv
      <4>2. PICK p : p = BuiltPipeline(site.env, sharedPool')
        OBVIOUS
      <4>3. p.config = site.env /\ p.pool \in 0..2
        BY <4>1, <4>2, BuiltHolds DEF BuiltPipeline, Pipeline
      <4> QED BY <2>2, <3>2, <4>1, <4>2, <4>3
    <3> QED BY <1>5, <3>1, <3>2 DEF CreatePipeline
  <2> QED BY <1>0, <2>1, <2>3 DEF ProcessInv, Phases
<1>6. ASSUME NEW r \in Runs, StartChat(r) PROVE ProcessInv'
  <2>1. PICK ask \in Asks : GivePipeline(r, ask, IF appPool # 0 THEN appPool ELSE UsablePool, "refused")
    BY <1>6 DEF StartChat
  <2>2. (IF appPool # 0 THEN appPool ELSE UsablePool) \in 0..2
    BY DEF UsablePool, ProcessInv, PoolInv
  <2> QED BY <1>0, <1>6, <2>1, <2>2, RequestKeepsProcess DEF StartChat
<1>7. ASSUME NEW r \in Runs, RagQuery(r) PROVE ProcessInv'
  <2>1. PICK ask \in run[r].ask : GivePipeline(r, ask, UsablePool, "answering")
    BY <1>7 DEF RagQuery
  <2>2. UsablePool \in 0..2 /\ ask \in Asks
    BY DEF UsablePool, ProcessInv, PoolInv
  <2> QED BY <1>0, <1>7, <2>1, <2>2, RequestKeepsProcess DEF RagQuery
<1>8. ASSUME NEW r \in Runs, RunOver(r) PROVE ProcessInv'
  <2>1. run' = [run EXCEPT ![r].at = "over"]
    BY <1>8 DEF RunOver
  <2>2. /\ DOMAIN run' = Runs
        /\ \A q \in Runs : /\ DOMAIN run'[q] = {"at", "ask", "got"} /\ run'[q].ask \subseteq Asks
                           /\ run'[q].at \in {"idle", "answering", "refused", "over"}
    BY <2>1 DEF ProcessInv
  <2> QED BY <1>0, <1>8, <2>2 DEF RunOver, ProcessInv, poolVars, cacheState
<1>9. CASE StopService
  <2>1. running' \subseteq running /\ phase' \in {"stopping", "broken"}
    BY <1>9 DEF StopService
  <2> QED BY <1>0, <1>9, <2>1 DEF StopService, ProcessInv, poolVars, cacheState, Phases
<1>10. CASE ClosePool
  BY <1>0, <1>10 DEF ClosePool, ProcessInv, cacheState, Phases
<1>11. CASE ClearPipelines
  BY <1>0, <1>11 DEF ClearPipelines, ProcessInv, Phases
<1>12. CASE UNCHANGED lifecycleVars
  BY <1>0, <1>12 DEF lifecycleVars, ProcessInv
<1> QED BY <1>1, <1>2, <1>3, <1>4, <1>5, <1>6, <1>7, <1>8, <1>9, <1>10, <1>11, <1>12 DEF LifecycleNext

(* Types: whatever the installation, the runs and the overrides, the process is in
   a phase of its startup or shutdown, with at most two pools and a valid pipeline. *)
THEOREM LifecycleTyped == LifecycleSpec => []LifecycleTypeOK
<1>1. LifecycleSpec => []ProcessInv
  BY ProcessStarts, ProcessSteps, PTL DEF LifecycleSpec
<1>2. ProcessInv => LifecycleTypeOK
  <2>1. SUFFICES ASSUME ProcessInv PROVE LifecycleTypeOK
    OBVIOUS
  <2>2. {sharedPool, appPool} \subseteq 0..2 /\ openPools \subseteq 1..2
    BY <2>1 DEF ProcessInv, PoolInv
  <2> QED BY <2>1, <2>2 DEF ProcessInv, LifecycleTypeOK, Phases, Services
<1> QED BY <1>1, <1>2, PTL

-----------------------------------------------------------------------------
(* What a chat leaves behind.                                              *)

Streaming == {"seeded", "graph", "mirroring"}
Early == {"none", "begun", "seeded", "graph", "mirroring", "noting", "partial", "answer"}
Stages == Early \cup {"tools", "forgetting", "clearing", "over", "aborted"}
Sizes == {"none", "prompt", "chunk"}

Artifacts == [turn : Turns, n : Nat, format : {"fast", "slow"}]
Results == SUBSET Artifacts
Jobs ==
  [at : Stages, taken : Nat, size : Sizes, doing : 0..2, results : Seq(Results), noted : Seq(Results),
   kept : Nat, quits : BOOLEAN, struck : BOOLEAN, alone : BOOLEAN]
Rows == [answers : Seq(Stages), tools : Seq(Results)]

-----------------------------------------------------------------------------
(* The invariant.                                                          *)

(* Both objects of each artifact among the results are in the bucket. *)
Had(results) ==
  \A i \in DOMAIN results : \A a \in results[i] : <<a, "payload">> \in bucket /\ <<a, "sidecar">> \in bucket

(* A turn that has begun has a script and has taken some of its chunks. *)
ScriptInv(t) == job[t].at # "none" => t <= Len(scenario.script) /\ job[t].taken <= Len(scenario.script[t])

(* An export under way is of the next chunk, and its payload goes first. *)
ExportsInv(t) ==
  /\ Had(job[t].noted) /\ Had(job[t].results)
  /\ job[t].doing > 0 =>
       /\ job[t].at = "graph" /\ job[t].taken < Len(scenario.script[t])
       /\ Len(job[t].results) < Len(Due(t).exports)
  /\ job[t].doing = 2 => <<Artifact(t), "payload">> \in bucket

(* The rows of a turn's tool results against those that it announced. *)
KeptInv(t) ==
  LET j == job[t]
      kept == rows[t].tools
  IN
  /\ j.kept <= Len(j.noted) /\ IsPrefix(kept, j.noted)
  /\ j.at \in Early => kept = <<>> /\ j.kept = 0 /\ ~j.quits
  /\ j.at = "tools" => Len(kept) = j.kept /\ j.kept < Len(j.noted) /\ ~j.quits
  /\ j.at \in {"clearing", "over"} => ~j.quits
  /\ j.at \in {"forgetting", "clearing", "over"} /\ ~j.quits /\ scenario.pool /\ mishaps = 0 => kept = j.noted

TurnInv(t) ==
  job[t] \in Jobs /\ rows[t] \in Rows /\ ScriptInv(t) /\ ExportsInv(t) /\ KeptInv(t)

(* The registry never has the context of a run that came to its end ... *)
LiveInv ==
  /\ live \in {0} \cup Turns
  /\ live # 0 => job[live].at \notin {"none", "begun", "forgetting", "clearing", "over"}

(* ... the mirror only if Redis failed ... *)
MirrorInv ==
  \A c \in mirror : c.of \in Turns /\ c.size \in Sizes /\ (job[c.of].at = "over" => mishaps > 0)

(* ... and a run that streams alone is the one that the registry has. *)
AloneInv ==
  \A t \in Turns :
    job[t].alone =>
      /\ \A u \in Turns : u < t => u \in Finished
      /\ job[t].at \in Streaming /\ (\A u \in Turns : u > t => u \notin Started) => live = t

BucketInv == \A object \in bucket : object[2] = "sidecar" => <<object[1], "payload">> \in bucket

HearingInv ==
  /\ cancelled \subseteq Turns
  /\ DOMAIN hearing = Turns /\ DOMAIN told = Turns
  /\ \A t \in Turns : hearing[t] \in {"no", "loading", "telling", "done"} /\ Len(told[t]) <= 1

RecordsInv ==
  /\ scenario \in Scenarios /\ mishaps \in 0..scenario.fails
  /\ DOMAIN job = Turns /\ DOMAIN rows = Turns
  /\ \A t \in Turns : TurnInv(t)
  /\ BucketInv /\ LiveInv /\ MirrorInv /\ AloneInv /\ HearingInv

-----------------------------------------------------------------------------
(* The steps of a job.                                                     *)

(* The scenario is one of those to be tried, and it is well formed. *)
LEMMA ScenarioTyped ==
  ASSUME scenario \in Scenarios
  PROVE  /\ scenario.fails \in Nat /\ scenario.script \in Seq(Seq(Yields))
         /\ Len(scenario.script) <= LastTurn
BY ScenariosAssumption DEF Scenario

(* The chunk that is due is one of a graph's. *)
LEMMA DueTyped ==
  ASSUME scenario \in Scenarios, NEW t \in Turns, job[t] \in Jobs,
         t <= Len(scenario.script), job[t].taken < Len(scenario.script[t])
  PROVE  Due(t) \in Yields /\ Due(t).exports \in Seq({"fast", "slow"})
<1>1. scenario.script \in Seq(Seq(Yields))
  BY ScenarioTyped
<1>2. t \in 1..Len(scenario.script)
  BY DEF Turns
<1>3. scenario.script[t] \in Seq(Yields)
  BY <1>1, <1>2
<1>4. job[t].taken \in Nat
  BY DEF Jobs
<1>5. job[t].taken + 1 \in 1..Len(scenario.script[t])
  BY <1>3, <1>4
<1>6. Due(t) \in Yields
  BY <1>3, <1>5 DEF Due
<1> QED BY <1>6 DEF Yields

(* The two objects of an artifact, in the order in which they go. *)
LEMMA UploadOrderIs == /\ Len(UploadOrder) = 2 /\ UploadOrder[1] = "payload" /\ UploadOrder[2] = "sidecar"
BY DEF UploadOrder

(* What a step of turn t's job may change, with what the invariant asks of it. *)
JobStep(t) ==
  /\ UNCHANGED <<scenario, cancelled, hearing, told>>
  /\ mishaps' = mishaps \/ (mishaps < scenario.fails /\ mishaps' = mishaps + 1)
  /\ DOMAIN job' = Turns /\ DOMAIN rows' = Turns
  /\ \A u \in Turns \ {t} : job'[u] = job[u] /\ rows'[u] = rows[u]
  /\ job[t].at \notin {"over", "aborted"} /\ job'[t].at # "none"
  /\ bucket \subseteq bucket'
  /\ \A o \in bucket' : o \in bucket \/ (o[2] = "sidecar" => <<o[1], "payload">> \in bucket)
  /\ TurnInv(t)'

(* ... to the registry: it is the turn's, or no worse than before; *)
LiveStep(t) ==
  \/ live' = 0
  \/ live' = t /\ job'[t].at \notin {"none", "begun", "forgetting", "clearing", "over"}
  \/ live' = live /\ (live = t => job'[t].at \notin {"none", "begun", "forgetting", "clearing", "over"})

(* ... to the mirror: it is the turn's, or no worse than before; *)
MirrorStep(t) ==
  /\ \A c \in mirror' : c \in mirror \/ (c.of = t /\ c.size \in Sizes /\ job'[t].at # "over")
  /\ job'[t].at = "over" => mirror' = {} \/ mishaps' > 0

(* ... and to the right to be alone, which a turn gets when it starts. *)
AloneStep(t) ==
  /\ job'[t].alone => job[t].alone \/ (job'[t].at \notin Streaming /\ \A u \in Turns : u < t => u \in Finished)
  /\ job'[t].at \in Streaming => live' = t \/ (job[t].at \in Streaming /\ live' = live)

(* A step of one turn's job leaves what the others announced and kept. *)
LEMMA OthersKept ==
  ASSUME RecordsInv, NEW t \in Turns, JobStep(t), NEW u \in Turns, u # t
  PROVE  TurnInv(u)'
<1>1. /\ job'[u] = job[u] /\ rows'[u] = rows[u] /\ scenario' = scenario /\ bucket \subseteq bucket'
      /\ mishaps' = 0 => mishaps = 0
  <2>1. mishaps \in Nat
    BY ScenarioTyped DEF RecordsInv
  <2> QED BY <2>1 DEF JobStep
<1>2. job[u] \in Jobs /\ rows[u] \in Rows /\ ScriptInv(u) /\ ExportsInv(u) /\ KeptInv(u)
  BY DEF RecordsInv, TurnInv
<1>3. ScriptInv(u)'
  BY <1>1, <1>2 DEF ScriptInv
<1>4. ExportsInv(u)'
  BY <1>1, <1>2 DEF ExportsInv, Had, Due, Artifact
<1>5. KeptInv(u)'
  BY <1>1, <1>2 DEF KeptInv
<1> QED BY <1>1, <1>2, <1>3, <1>4, <1>5 DEF TurnInv

(* Such a step keeps the invariant. *)
LEMMA JobStepKeeps ==
  ASSUME RecordsInv, NEW t \in Turns, JobStep(t), LiveStep(t), MirrorStep(t), AloneStep(t)
  PROVE  RecordsInv'
<1>1. \A u \in Turns : TurnInv(u)'
  BY OthersKept DEF JobStep
<1>2. scenario' \in Scenarios /\ mishaps' \in 0..scenario'.fails /\ mishaps <= mishaps' /\ mishaps \in Nat
  BY ScenarioTyped DEF RecordsInv, JobStep
<1>3. BucketInv'
  <2> SUFFICES ASSUME NEW o \in bucket', o[2] = "sidecar" PROVE <<o[1], "payload">> \in bucket'
    BY DEF BucketInv
  <2> QED BY DEF RecordsInv, JobStep, BucketInv
<1>4. LiveInv'
  BY DEF RecordsInv, JobStep, LiveStep, LiveInv
<1>5. MirrorInv'
  <2> SUFFICES ASSUME NEW c \in mirror'
               PROVE  c.of \in Turns /\ c.size \in Sizes /\ (job'[c.of].at = "over" => mishaps' > 0)
    BY DEF MirrorInv
  <2>1. CASE c \in mirror
    <3>1. c.of \in Turns /\ c.size \in Sizes /\ (job[c.of].at = "over" => mishaps > 0)
      BY <2>1 DEF RecordsInv, MirrorInv
    <3>2. CASE c.of = t
      BY <1>2, <3>1, <3>2 DEF MirrorStep
    <3>3. CASE c.of # t
      BY <1>2, <3>1, <3>3 DEF JobStep
    <3> QED BY <3>1, <3>2, <3>3
  <2>2. CASE c \notin mirror
    BY <2>2 DEF MirrorStep
  <2> QED BY <2>1, <2>2
<1>6. AloneInv'
  <2>1. \A u \in Turns : u \in Finished => u \in Finished'
    BY DEF Finished, JobStep
  <2>2. t \notin Finished /\ t \in Started'
    BY DEF Finished, Started, JobStep
  <2> SUFFICES ASSUME NEW v \in Turns, job'[v].alone
               PROVE  /\ \A u \in Turns : u < v => u \in Finished'
                      /\ job'[v].at \in Streaming /\ (\A u \in Turns : u > v => u \notin Started') => live' = v
    BY DEF AloneInv
  <2>3. CASE v = t
    <3>1. job[t].alone => /\ \A u \in Turns : u < t => u \in Finished
                          /\ job[t].at \in Streaming /\ (\A u \in Turns : u > t => u \notin Started) => live = t
      BY DEF RecordsInv, AloneInv
    <3>2. \A u \in Turns : u < t => u \in Finished
      BY <2>3, <3>1 DEF AloneStep
    <3>3. \A u \in Turns : u > t /\ u \notin Started' => u \notin Started
      BY DEF Started, JobStep
    <3> QED BY <2>1, <2>3, <3>1, <3>2, <3>3 DEF AloneStep
  <2>4. CASE v # t
    <3>1. job[v].alone /\ \A u \in Turns : u < v => u \in Finished
      BY <2>4 DEF RecordsInv, AloneInv, JobStep
    <3>2. t > v
      BY <2>2, <2>4, <3>1 DEF Turns
    <3> QED BY <2>1, <2>2, <3>1, <3>2
  <2> QED BY <2>3, <2>4
<1>7. HearingInv'
  BY DEF RecordsInv, HearingInv, JobStep
<1> QED BY <1>1, <1>2, <1>3, <1>4, <1>5, <1>6, <1>7 DEF RecordsInv, JobStep

(* Turn t's job goes on as k. *)
LEMMA GoesOnAs ==
  ASSUME DOMAIN job = Turns, NEW t \in Turns, NEW k, job' = [job EXCEPT ![t] = k]
  PROVE  DOMAIN job' = Turns /\ job'[t] = k /\ \A u \in Turns \ {t} : job'[u] = job[u]
OBVIOUS

(* ... and the registry is cleared when it begins to forget. *)
LEMMA IntoIs ==
  ASSUME DOMAIN job = Turns, NEW t \in Turns, NEW k, Into(t, k)
  PROVE  /\ DOMAIN job' = Turns /\ job'[t] = k /\ \A u \in Turns \ {t} : job'[u] = job[u]
         /\ live' = IF k.at \in {"forgetting", "clearing"} /\ k.at # job[t].at THEN 0 ELSE live
BY DEF Into

(* The registry after Into: nothing worse, unless the turn's own is of a job
   that now is at a stage where it should not be. *)
LEMMA IntoLive ==
  ASSUME RecordsInv, NEW t \in Turns, NEW k, Into(t, k),
         k.at \in {"none", "begun", "over"} => job[t].at \in {"none", "begun", "forgetting", "clearing", "over"},
         k.at \in {"forgetting", "clearing"} => job[t].at # k.at
  PROVE  LiveStep(t)
<1>1. job'[t] = k /\ live' = IF k.at \in {"forgetting", "clearing"} /\ k.at # job[t].at THEN 0 ELSE live
  BY IntoIs DEF RecordsInv
<1> QED BY <1>1 DEF LiveStep, RecordsInv, LiveInv, Turns

(* A call that may fail, and counts it if it does. *)
Mishaps == mishaps' = mishaps \/ (mishaps < scenario.fails /\ mishaps' = mishaps + 1)

(* A mirror set to a copy of the turn's context, or left. *)
LEMMA SetMirrorIs ==
  ASSUME mishaps \in Nat, NEW copy, SetMirror(copy)
  PROVE  Mishaps /\ mirror' \in {mirror, copy} /\ (mishaps' = mishaps => mirror' = copy)
BY DEF SetMirror, Mishap, Mishaps

(* Before the finally block has got to the tools' results no row of theirs is
   there: of a job that stays there only exports and scripts are to be shown. *)
LEMMA EarlyKept ==
  ASSUME NEW t \in Turns, job'[t] \in Jobs, rows'[t] \in Rows, job'[t].at \in Early,
         rows'[t].tools = <<>>, job'[t].kept = 0, ~job'[t].quits
  PROVE  KeptInv(t)'
<1>1. job'[t].noted \in Seq(Results)
  BY DEF Jobs
<1>2. IsPrefix(<<>>, job'[t].noted)
  BY <1>1 DEF IsPrefix
<1>3. Len(job'[t].noted) \in Nat
  BY <1>1
<1> QED BY <1>2, <1>3 DEF KeptInv, Early

(* The exports of a job that is not at one. *)
LEMMA QuietExports ==
  ASSUME NEW t \in Turns, Had(job[t].noted), Had(job[t].results), bucket \subseteq bucket',
         job'[t].noted = job[t].noted, job'[t].doing = 0,
         job'[t].results = job[t].results \/ job'[t].results = <<>>
  PROVE  ExportsInv(t)'
BY DEF Had, ExportsInv

(* AfterAnswer changes where a job stands. *)
LEMMA AfterAnswerIs ==
  ASSUME NEW k \in Jobs, NEW f, f = AfterAnswer(k)
  PROVE  /\ f \in Jobs /\ f.at = IF k.noted # <<>> THEN "tools" ELSE "clearing"
         /\ f.doing = k.doing /\ f.results = k.results /\ f.noted = k.noted /\ f.kept = k.kept
         /\ f.quits = k.quits /\ f.taken = k.taken /\ f.alone = k.alone
<1>1. PICK at \in Stages : at = (IF k.noted # <<>> THEN "tools" ELSE "clearing")
  BY DEF Stages
<1>2. f = [k EXCEPT !.at = at]
  BY <1>1 DEF AfterAnswer
<1> QED BY <1>1, <1>2 DEF Jobs

(* Finally drops what the job does, too. *)
LEMMA FinallyIs ==
  ASSUME NEW k \in Jobs, NEW f, f = Finally(k)
  PROVE  /\ f \in Jobs
         /\ f.at = IF k.size # "none" THEN "answer" ELSE IF k.noted # <<>> THEN "tools" ELSE "clearing"
         /\ f.doing = 0 /\ f.results = <<>> /\ f.noted = k.noted /\ f.kept = k.kept
         /\ f.quits = k.quits /\ f.taken = k.taken /\ f.alone = k.alone
<1>1. PICK at \in Stages :
        at = (IF k.size # "none" THEN "answer" ELSE IF k.noted # <<>> THEN "tools" ELSE "clearing")
  BY DEF Stages, Early
<1>2. PICK left : left = [k EXCEPT !.doing = 0, !.results = <<>>]
  OBVIOUS
<1>3. <<>> \in Seq(Results) /\ 0 \in 0..2
  OBVIOUS
<1>4. left \in Jobs
  BY <1>2, <1>3 DEF Jobs
<1>5. f = [left EXCEPT !.at = at]
  BY <1>1, <1>2, <1>4 DEF Finally, AfterAnswer, Jobs
<1> QED BY <1>1, <1>2, <1>4, <1>5 DEF Jobs

(* A job that is done with its graph, or with its partial answer. *)
LEMMA FinallyKept ==
  ASSUME RecordsInv, NEW t \in Turns, NEW k \in Jobs,
         k.at \in Early, k.noted = job[t].noted, k.kept = 0, ~k.quits, k.taken = job[t].taken,
         job[t].at \in Early \ {"none"},
         job'[t] = Finally(k) \/ (job'[t] = AfterAnswer(k) /\ k.doing = 0),
         k.results = job[t].results \/ k.results = <<>>,
         rows'[t] \in Rows, rows'[t].tools = <<>>, bucket \subseteq bucket', scenario' = scenario
  PROVE  TurnInv(t)'
<1>1. /\ job'[t] \in Jobs /\ job'[t].at \in {"answer", "tools", "clearing"}
      /\ job'[t].at = "tools" => k.noted # <<>>
      /\ job'[t].at = "clearing" => k.noted = <<>>
      /\ job'[t].doing = 0 /\ (job'[t].results = <<>> \/ job'[t].results = job[t].results)
      /\ job'[t].noted = k.noted
      /\ job'[t].kept = 0 /\ ~job'[t].quits /\ job'[t].taken = k.taken
  <2>1. CASE job'[t] = Finally(k)
    BY <2>1, FinallyIs
  <2>2. CASE job'[t] = AfterAnswer(k) /\ k.doing = 0
    BY <2>2, AfterAnswerIs
  <2> QED BY <2>1, <2>2
<1>2. ScriptInv(t)'
  BY <1>1 DEF ScriptInv, RecordsInv, TurnInv
<1>3. ExportsInv(t)'
  <2>1. Had(job[t].noted) /\ Had(job[t].results)
    BY DEF RecordsInv, TurnInv, ExportsInv
  <2> QED BY <1>1, <2>1, QuietExports
<1>4. KeptInv(t)'
  <2>1. k.noted \in Seq(Results)
    BY DEF Jobs
  <2>2. IsPrefix(<<>>, k.noted) /\ (k.noted # <<>> => Len(k.noted) > 0)
    BY <2>1 DEF IsPrefix
  <2> QED BY <1>1, <2>1, <2>2 DEF KeptInv, Early
<1> QED BY <1>1, <1>2, <1>3, <1>4 DEF TurnInv

(* What the invariant says of one turn. *)
LEMMA TurnFacts ==
  ASSUME RecordsInv, NEW t \in Turns
  PROVE  /\ job[t] \in Jobs /\ rows[t] \in Rows /\ ScriptInv(t) /\ ExportsInv(t) /\ KeptInv(t)
         /\ scenario \in Scenarios /\ mishaps \in Nat /\ DOMAIN job = Turns /\ DOMAIN rows = Turns
         /\ job[t].at \in Early => rows[t].tools = <<>> /\ job[t].kept = 0 /\ ~job[t].quits
BY ScenarioTyped DEF RecordsInv, TurnInv, KeptInv

(* Only a job at its graph exports. *)
LEMMA NotExporting ==
  ASSUME RecordsInv, NEW t \in Turns, job[t].at # "graph"
  PROVE  job[t].doing = 0
<1>1. job[t].doing \in 0..2
  BY TurnFacts DEF Jobs
<1>2. ~(job[t].doing > 0)
  BY TurnFacts DEF ExportsInv
<1> QED BY <1>1, <1>2

(* A job that goes on as k before the finally block has got to the tools'
   results, and keeps nothing, exports nothing and mirrors at most itself. *)
LEMMA EarlyKeeps ==
  ASSUME RecordsInv, NEW t \in Turns, NEW k \in Jobs,
         DOMAIN job' = Turns, job'[t] = k, \A u \in Turns \ {t} : job'[u] = job[u],
         UNCHANGED <<scenario, cancelled, hearing, told, rows>>, Mishaps,
         job[t].at \in Early, k.at \in Early \ {"none"}, k.kept = 0, ~k.quits,
         bucket \subseteq bucket',
         \A o \in bucket' : o \in bucket \/ (o[2] = "sidecar" => <<o[1], "payload">> \in bucket),
         ScriptInv(t)', ExportsInv(t)', LiveStep(t), MirrorStep(t), AloneStep(t)
  PROVE  RecordsInv'
<1>1. rows[t] \in Rows /\ rows[t].tools = <<>> /\ DOMAIN rows = Turns
  BY TurnFacts
<1>2. KeptInv(t)'
  BY <1>1, EarlyKept
<1>3. TurnInv(t)'
  BY <1>1, <1>2 DEF TurnInv
<1>4. JobStep(t)
  BY <1>1, <1>3 DEF JobStep, Mishaps, Early
<1> QED BY <1>4, JobStepKeeps

(* A turn that starts is alone if those before it have ended. *)
LEMMA StartKeeps ==
  ASSUME RecordsInv, NEW t \in Turns, StartJob(t)
  PROVE  RecordsInv'
<1>1. PICK k : k = [NoJob EXCEPT !.at = "begun", !.alone = \A u \in Turns : u < t => u \in Finished]
  OBVIOUS
<1>2. /\ job[t].at = "none" /\ t <= Len(scenario.script) /\ Into(t, k)
      /\ UNCHANGED <<scenario, mirror, rows, bucket, cancelled, hearing, told, mishaps>>
  BY <1>1 DEF StartJob, storeVars, cancelVars
<1>3. <<>> \in Seq(Results) /\ 0 \in 0..2 /\ (\A u \in Turns : u < t => u \in Finished) \in BOOLEAN
  OBVIOUS
<1>4. /\ k \in Jobs /\ k.at = "begun" /\ k.taken = 0 /\ k.doing = 0 /\ k.results = <<>> /\ k.noted = <<>>
      /\ k.kept = 0 /\ ~k.quits /\ (k.alone => \A u \in Turns : u < t => u \in Finished)
  BY <1>1, <1>3 DEF Jobs, NoJob, Stages, Early, Sizes
<1>5. DOMAIN job' = Turns /\ job'[t] = k /\ \A u \in Turns \ {t} : job'[u] = job[u]
  BY <1>2, IntoIs, TurnFacts
<1>6. ScriptInv(t)'
  <2>1. scenario.script[t] \in Seq(Yields)
    BY <1>2, TurnFacts, ScenarioTyped DEF Turns
  <2> QED BY <1>2, <1>4, <1>5, <2>1 DEF ScriptInv
<1>7. ExportsInv(t)'
  BY <1>4, <1>5 DEF ExportsInv, Had
<1>8. LiveStep(t)
  BY <1>2, <1>4, IntoLive
<1>9. MirrorStep(t) /\ AloneStep(t)
  BY <1>2, <1>4, <1>5 DEF MirrorStep, AloneStep, Streaming
<1> QED BY <1>2, <1>4, <1>5, <1>6, <1>7, <1>8, <1>9, EarlyKeeps DEF Early, Mishaps

(* The job begins: the registry has its context. *)
LEMMA BeginKeeps ==
  ASSUME RecordsInv, NEW t \in Turns, BeginJob(t)
  PROVE  RecordsInv'
<1>1. PICK size \in Sizes : size = IF t \in scenario.prompts THEN "prompt" ELSE "none"
  BY DEF Sizes
<1>2. PICK k : k = [job[t] EXCEPT !.at = "seeded", !.size = size]
  OBVIOUS
<1>3. /\ job[t].at = "begun" /\ live' = t /\ job' = [job EXCEPT ![t] = k]
      /\ UNCHANGED <<scenario, mirror, rows, bucket, cancelled, hearing, told, mishaps>>
  BY <1>1, <1>2, TurnFacts DEF BeginJob, storeVars, cancelVars
<1>4. /\ k \in Jobs /\ k.at = "seeded" /\ k.taken = job[t].taken /\ k.doing = job[t].doing
      /\ k.results = job[t].results /\ k.noted = job[t].noted
      /\ k.kept = job[t].kept /\ k.quits = job[t].quits /\ k.alone = job[t].alone
  BY <1>1, <1>2, TurnFacts DEF Jobs, Stages, Early
<1>5. DOMAIN job' = Turns /\ job'[t] = k /\ \A u \in Turns \ {t} : job'[u] = job[u]
  BY <1>3, TurnFacts, GoesOnAs
<1>6. ScriptInv(t)'
  BY <1>3, <1>4, <1>5, TurnFacts DEF ScriptInv
<1>7. ExportsInv(t)'
  <2>1. job[t].doing = 0
    BY <1>3, NotExporting
  <2> QED BY <1>3, <1>4, <1>5, <2>1, TurnFacts, QuietExports DEF ExportsInv
<1>8. LiveStep(t) /\ MirrorStep(t) /\ AloneStep(t)
  BY <1>3, <1>4, <1>5 DEF LiveStep, MirrorStep, AloneStep
<1> QED BY <1>3, <1>4, <1>5, <1>6, <1>7, <1>8, TurnFacts, EarlyKeeps DEF Early, Mishaps

(* A job's context is mirrored while it streams, or when it is cancelled. *)
LEMMA SaveKeeps ==
  ASSUME RecordsInv, NEW t \in Turns, SaveSeed(t) \/ NotePartial(t)
  PROVE  RecordsInv'
<1>1. PICK at \in {"graph", "partial"} : /\ Into(t, [job[t] EXCEPT !.at = at])
                                         /\ job[t].at = IF at = "graph" THEN "seeded" ELSE "noting"
  BY DEF SaveSeed, NotePartial
<1>2. PICK k : k = [job[t] EXCEPT !.at = at]
  OBVIOUS
<1>3. /\ Into(t, k) /\ SetMirror({Context(t, job[t])})
      /\ UNCHANGED <<scenario, rows, bucket, cancelled, hearing, told>>
  BY <1>1, <1>2 DEF SaveSeed, NotePartial, storeVars, cancelVars
<1>4. /\ k \in Jobs /\ k.at = at /\ k.taken = job[t].taken /\ k.doing = job[t].doing
      /\ k.results = job[t].results /\ k.noted = job[t].noted
      /\ k.kept = job[t].kept /\ k.quits = job[t].quits /\ k.alone = job[t].alone
  BY <1>1, <1>2, TurnFacts DEF Jobs, Stages, Early
<1>5. /\ DOMAIN job' = Turns /\ job'[t] = k /\ \A u \in Turns \ {t} : job'[u] = job[u]
      /\ live' = live
  BY <1>1, <1>3, <1>4, IntoIs, TurnFacts
<1>6. ScriptInv(t)'
  BY <1>1, <1>3, <1>4, <1>5, TurnFacts DEF ScriptInv
<1>7. ExportsInv(t)'
  <2>1. job[t].doing = 0
    BY <1>1, NotExporting
  <2> QED BY <1>3, <1>4, <1>5, <2>1, TurnFacts, QuietExports DEF ExportsInv
<1>8. Mishaps /\ mirror' \in {mirror, {Context(t, job[t])}}
  BY <1>3, TurnFacts, SetMirrorIs
<1>9. MirrorStep(t)
  <2>1. Context(t, job[t]).of = t /\ Context(t, job[t]).size \in Sizes
    BY TurnFacts DEF Context, Jobs
  <2> QED BY <1>4, <1>5, <1>8, <2>1 DEF MirrorStep
<1>10. LiveStep(t) /\ AloneStep(t)
  <2>1. LiveStep(t)
    BY <1>4, <1>5 DEF LiveStep
  <2>2. AloneStep(t)
    BY <1>1, <1>4, <1>5 DEF AloneStep, Streaming
  <2> QED BY <2>1, <2>2
<1> QED BY <1>1, <1>3, <1>4, <1>5, <1>6, <1>7, <1>8, <1>9, <1>10, TurnFacts, EarlyKeeps DEF Early

(* The artifact under way is of the due chunk's next format. *)
LEMMA ArtifactTyped ==
  ASSUME RecordsInv, NEW t \in Turns, job[t].at = "graph", More(t),
         Len(job[t].results) < Len(Due(t).exports)
  PROVE  Artifact(t) \in Artifacts
<1>1. t <= Len(scenario.script) /\ job[t].taken < Len(scenario.script[t])
  BY TurnFacts DEF ScriptInv, More
<1>2. Due(t).exports \in Seq({"fast", "slow"})
  BY <1>1, TurnFacts, DueTyped
<1>3. job[t].results \in Seq(Results) /\ job[t].noted \in Seq(Results)
  BY TurnFacts DEF Jobs
<1>4. Len(job[t].results) + 1 \in 1..Len(Due(t).exports)
  BY <1>2, <1>3
<1>5. Due(t).exports[Len(job[t].results) + 1] \in {"fast", "slow"}
  BY <1>2, <1>4
<1>6. Len(job[t].noted) + Len(job[t].results) + 1 \in Nat
  <2>1. PICK m, n \in Nat : m = Len(job[t].noted) /\ n = Len(job[t].results)
    BY <1>3
  <2>2. m + n + 1 \in Nat
    OBVIOUS
  <2> QED BY <2>1, <2>2
<1> QED BY <1>5, <1>6 DEF Artifact, Artifacts

(* The next call of the batch: its first upload. *)
LEMMA StartExportKeeps ==
  ASSUME RecordsInv, NEW t \in Turns, StartExport(t)
  PROVE  RecordsInv'
<1>1. PICK k : k = [job[t] EXCEPT !.doing = 1]
  OBVIOUS
<1>2. /\ job[t].at = "graph" /\ More(t) /\ Len(job[t].results) < Len(Due(t).exports) /\ Into(t, k)
      /\ UNCHANGED <<scenario, mirror, rows, bucket, cancelled, hearing, told, mishaps>>
  BY <1>1 DEF StartExport, storeVars, cancelVars
<1>3. /\ k \in Jobs /\ k.at = "graph" /\ k.taken = job[t].taken /\ k.doing = 1
      /\ k.results = job[t].results /\ k.noted = job[t].noted
      /\ k.kept = job[t].kept /\ k.quits = job[t].quits /\ k.alone = job[t].alone
  <2>1. 1 \in 0..2
    OBVIOUS
  <2> QED BY <1>1, <1>2, <2>1, TurnFacts DEF Jobs
<1>4. /\ DOMAIN job' = Turns /\ job'[t] = k /\ \A u \in Turns \ {t} : job'[u] = job[u]
      /\ live' = live
  BY <1>2, <1>3, IntoIs, TurnFacts
<1>5. ScriptInv(t)'
  BY <1>2, <1>3, <1>4, TurnFacts DEF ScriptInv
<1>6. ExportsInv(t)'
  <2>1. Had(job[t].noted) /\ Had(job[t].results)
    BY TurnFacts DEF ExportsInv
  <2>2. Due(t)' = Due(t)
    BY <1>2, <1>3, <1>4 DEF Due
  <2> QED BY <1>2, <1>3, <1>4, <2>1, <2>2 DEF ExportsInv, Had, More
<1>7. LiveStep(t) /\ MirrorStep(t) /\ AloneStep(t)
  BY <1>2, <1>3, <1>4 DEF LiveStep, MirrorStep, AloneStep, Streaming
<1> QED BY <1>2, <1>3, <1>4, <1>5, <1>6, <1>7, TurnFacts, EarlyKeeps DEF Early, Mishaps

(* What an upload adds: a sidecar only where its payload is. *)
LEMMA UploadingIs ==
  ASSUME RecordsInv, NEW t \in Turns, job[t].doing > 0
  PROVE  /\ bucket \subseteq Uploading(t)
         /\ \A o \in Uploading(t) : o \in bucket \/ (o[2] = "sidecar" => <<o[1], "payload">> \in bucket)
         /\ job[t].doing = 1 => <<Artifact(t), "payload">> \in Uploading(t)
         /\ job[t].doing = 2 => /\ <<Artifact(t), "payload">> \in bucket
                                /\ <<Artifact(t), "sidecar">> \in Uploading(t)
<1>1. job[t].doing \in {1, 2}
  BY TurnFacts DEF Jobs
<1>2. job[t].doing = 2 => <<Artifact(t), "payload">> \in bucket
  BY TurnFacts DEF ExportsInv
<1>3. PICK a : a = Artifact(t)
  OBVIOUS
<1>4. CASE job[t].doing = 1
  <2>1. Uploading(t) = bucket \cup {<<a, "payload">>}
    BY <1>3, <1>4, UploadOrderIs DEF Uploading
  <2> QED BY <1>3, <1>4, <2>1
<1>5. CASE job[t].doing = 2
  <2>1. Uploading(t) = bucket \cup {<<a, "sidecar">>}
    BY <1>3, <1>5, UploadOrderIs DEF Uploading
  <2> QED BY <1>2, <1>3, <1>5, <2>1
<1> QED BY <1>1, <1>4, <1>5

(* ... and so does an upload that perhaps has been done. *)
LEMMA PerhapsUploadedIs ==
  ASSUME RecordsInv, NEW t \in Turns, PerhapsUploaded(t)
  PROVE  /\ bucket \subseteq bucket'
         /\ \A o \in bucket' : o \in bucket \/ (o[2] = "sidecar" => <<o[1], "payload">> \in bucket)
<1>1. bucket' = bucket \/ (job[t].doing > 0 /\ bucket' = Uploading(t))
  BY DEF PerhapsUploaded
<1> QED BY <1>1, UploadingIs

(* An object is stored; after the sidecar the artifact is a result. *)
LEMMA UploadKeeps ==
  ASSUME RecordsInv, NEW t \in Turns, Upload(t)
  PROVE  RecordsInv'
<1>1. /\ job[t].at = "graph" /\ job[t].doing > 0 /\ bucket' = Uploading(t)
      /\ UNCHANGED <<scenario, mirror, rows, cancelled, hearing, told, mishaps>>
  BY DEF Upload, cancelVars
<1>2. /\ bucket \subseteq bucket'
      /\ \A o \in bucket' : o \in bucket \/ (o[2] = "sidecar" => <<o[1], "payload">> \in bucket)
  BY <1>1, UploadingIs
<1>3. job[t].doing \in {1, 2} /\ More(t) /\ Len(job[t].results) < Len(Due(t).exports)
  <2>1. job[t].doing \in 0..2
    BY TurnFacts DEF Jobs
  <2>2. job[t].taken < Len(scenario.script[t]) /\ Len(job[t].results) < Len(Due(t).exports)
    BY <1>1, TurnFacts DEF ExportsInv
  <2> QED BY <1>1, <2>1, <2>2 DEF More
<1>4. PICK a : a = Artifact(t)
  OBVIOUS
<1>5. a \in Artifacts
  BY <1>1, <1>3, <1>4, ArtifactTyped
<1>6. ASSUME NEW k \in Jobs, Into(t, k), k.at = "graph", k.taken = job[t].taken, k.noted = job[t].noted,
             k.kept = job[t].kept, k.quits = job[t].quits, k.alone = job[t].alone, ExportsInv(t)'
      PROVE  RecordsInv'
  <2>1. /\ DOMAIN job' = Turns /\ job'[t] = k /\ \A u \in Turns \ {t} : job'[u] = job[u]
        /\ live' = live
    BY <1>6, IntoIs, TurnFacts
  <2>2. ScriptInv(t)'
    BY <1>1, <1>6, <2>1, TurnFacts DEF ScriptInv
  <2>3. LiveStep(t) /\ MirrorStep(t) /\ AloneStep(t)
    BY <1>1, <1>6, <2>1 DEF LiveStep, MirrorStep, AloneStep, Streaming
  <2> QED BY <1>1, <1>2, <1>6, <2>1, <2>2, <2>3, TurnFacts, EarlyKeeps DEF Early, Mishaps
<1>7. CASE job[t].doing = 1
  <2>1. PICK k : k = [job[t] EXCEPT !.doing = 2]
    OBVIOUS
  <2>2. Into(t, k)
    BY <1>7, <2>1, UploadOrderIs DEF Upload
  <2>3. /\ k \in Jobs /\ k.at = "graph" /\ k.taken = job[t].taken /\ k.doing = 2
        /\ k.results = job[t].results /\ k.noted = job[t].noted
        /\ k.kept = job[t].kept /\ k.quits = job[t].quits /\ k.alone = job[t].alone
    <3>1. 2 \in 0..2
      OBVIOUS
    <3> QED BY <1>1, <2>1, <3>1, TurnFacts DEF Jobs
  <2>4. job'[t] = k
    BY <2>2, IntoIs, TurnFacts
  <2>5. <<Artifact(t), "payload">> \in bucket'
    BY <1>1, <1>7, UploadingIs
  <2>6. ExportsInv(t)'
    BY <1>1, <1>2, <1>3, <2>3, <2>4, <2>5, TurnFacts DEF ExportsInv, Had, Due, Artifact, More
  <2> QED BY <1>6, <2>2, <2>3, <2>6
<1>8. CASE job[t].doing = 2
  <2>1. PICK r : r = Append(job[t].results, {a})
    OBVIOUS
  <2>2. r \in Seq(Results)
    BY <1>5, <2>1, TurnFacts DEF Jobs, Results
  <2>3. PICK k : k = [job[t] EXCEPT !.doing = 0, !.results = r]
    OBVIOUS
  <2>4. Into(t, k)
    BY <1>4, <1>8, <2>1, <2>3, UploadOrderIs, TurnFacts DEF Upload, Jobs
  <2>5. /\ k \in Jobs /\ k.at = "graph" /\ k.taken = job[t].taken /\ k.doing = 0
        /\ k.results = r /\ k.noted = job[t].noted
        /\ k.kept = job[t].kept /\ k.quits = job[t].quits /\ k.alone = job[t].alone
    <3>1. 0 \in 0..2
      OBVIOUS
    <3> QED BY <1>1, <2>2, <2>3, <3>1, TurnFacts DEF Jobs
  <2>6. job'[t] = k
    BY <2>4, IntoIs, TurnFacts
  <2>7. <<a, "payload">> \in bucket' /\ <<a, "sidecar">> \in bucket'
    BY <1>1, <1>2, <1>4, <1>8, UploadingIs
  <2>8. Had(job[t].results) /\ Had(job[t].noted) /\ job[t].results \in Seq(Results)
    BY TurnFacts DEF ExportsInv, Jobs
  <2>9. ASSUME NEW i \in DOMAIN r, NEW b \in r[i] PROVE <<b, "payload">> \in bucket' /\ <<b, "sidecar">> \in bucket'
    <3>1. CASE i \in DOMAIN job[t].results
      <4>1. r[i] = job[t].results[i]
        BY <2>1, <2>8, <3>1
      <4> QED BY <1>2, <2>8, <2>9, <3>1, <4>1 DEF Had
    <3>2. CASE i \notin DOMAIN job[t].results
      <4>1. r[i] = {a}
        BY <2>1, <2>8, <2>9, <3>2
      <4> QED BY <2>7, <2>9, <4>1
    <3> QED BY <3>1, <3>2
  <2>10. ExportsInv(t)'
    BY <1>2, <2>5, <2>6, <2>8, <2>9 DEF ExportsInv, Had
  <2> QED BY <1>6, <2>4, <2>5, <2>10
<1> QED BY <1>3, <1>7, <1>8

(* An export fails: its result is an error, which has no artifact. *)
LEMMA UploadFailsKeeps ==
  ASSUME RecordsInv, NEW t \in Turns, UploadFails(t)
  PROVE  RecordsInv'
<1>1. PICK r : r = Append(job[t].results, {})
  OBVIOUS
<1>2. PICK k : k = [job[t] EXCEPT !.doing = 0, !.results = r]
  OBVIOUS
<1>3. /\ job[t].at = "graph" /\ PerhapsUploaded(t) /\ Mishap /\ Into(t, k)
      /\ UNCHANGED <<scenario, mirror, rows, cancelled, hearing, told>>
  BY <1>1, <1>2, TurnFacts DEF UploadFails, cancelVars, Jobs
<1>4. job[t].results \in Seq(Results) /\ {} \in Results /\ 0 \in 0..2
  BY TurnFacts DEF Jobs, Results
<1>5. r \in Seq(Results)
  BY <1>1, <1>4
<1>6. /\ k \in Jobs /\ k.at = "graph" /\ k.taken = job[t].taken /\ k.doing = 0
      /\ k.results = r /\ k.noted = job[t].noted
      /\ k.kept = job[t].kept /\ k.quits = job[t].quits /\ k.alone = job[t].alone
  BY <1>2, <1>3, <1>4, <1>5, TurnFacts DEF Jobs
<1>7. /\ DOMAIN job' = Turns /\ job'[t] = k /\ \A u \in Turns \ {t} : job'[u] = job[u]
      /\ live' = live
  BY <1>3, <1>6, IntoIs, TurnFacts
<1>8. /\ bucket \subseteq bucket'
      /\ \A o \in bucket' : o \in bucket \/ (o[2] = "sidecar" => <<o[1], "payload">> \in bucket)
  BY <1>3, PerhapsUploadedIs
<1>9. ScriptInv(t)'
  BY <1>3, <1>6, <1>7, TurnFacts DEF ScriptInv
<1>10. ExportsInv(t)'
  <2>1. Had(job[t].results) /\ Had(job[t].noted)
    BY TurnFacts DEF ExportsInv
  <2>2. ASSUME NEW i \in DOMAIN r, NEW b \in r[i] PROVE <<b, "payload">> \in bucket' /\ <<b, "sidecar">> \in bucket'
    <3>1. i \in DOMAIN job[t].results /\ r[i] = job[t].results[i]
      BY <1>1, <1>4, <2>2
    <3> QED BY <1>8, <2>1, <2>2, <3>1 DEF Had
  <2> QED BY <1>6, <1>7, <1>8, <2>1, <2>2 DEF ExportsInv, Had
<1>11. LiveStep(t) /\ MirrorStep(t) /\ AloneStep(t)
  BY <1>3, <1>6, <1>7 DEF LiveStep, MirrorStep, AloneStep, Streaming
<1> QED BY <1>3, <1>6, <1>7, <1>8, <1>9, <1>10, <1>11, TurnFacts, EarlyKeeps DEF Early, Mishaps, Mishap

(* A chunk is taken, and the registry has the turn's context anew. *)
LEMMA TakeKeeps ==
  ASSUME RecordsInv, NEW t \in Turns, TakeChunk(t)
  PROVE  RecordsInv'
<1>1. /\ job[t].at = "graph" /\ More(t) /\ job[t].doing = 0 /\ live' = t
      /\ job' = [job EXCEPT ![t] = [Updates(job[t], Due(t)) EXCEPT !.at = "mirroring"]]
      /\ UNCHANGED <<scenario, mirror, rows, bucket, cancelled, hearing, told, mishaps>>
  BY DEF TakeChunk, storeVars, cancelVars
<1>2. PICK size : size = IF Due(t).text THEN "chunk" ELSE job[t].size
  OBVIOUS
<1>3. size \in Sizes /\ job[t].taken + 1 \in Nat
  BY <1>2, TurnFacts DEF Jobs, Sizes
<1>4. PICK k : k = [job[t] EXCEPT !.taken = job[t].taken + 1, !.size = size, !.at = "mirroring"]
  OBVIOUS
<1>5. [Updates(job[t], Due(t)) EXCEPT !.at = "mirroring"] = k
  BY <1>2, <1>4, TurnFacts DEF Updates, Jobs
<1>6. job' = [job EXCEPT ![t] = k]
  BY <1>1, <1>5
<1>7. /\ k \in Jobs /\ k.at = "mirroring" /\ k.taken = job[t].taken + 1 /\ k.doing = job[t].doing
      /\ k.results = job[t].results /\ k.noted = job[t].noted
      /\ k.kept = job[t].kept /\ k.quits = job[t].quits /\ k.alone = job[t].alone
  BY <1>3, <1>4, TurnFacts DEF Jobs, Stages, Early
<1>8. DOMAIN job' = Turns /\ job'[t] = k /\ \A u \in Turns \ {t} : job'[u] = job[u]
  BY <1>6, TurnFacts, GoesOnAs
<1>9. ScriptInv(t)'
  <2>1. t <= Len(scenario.script) /\ job[t].taken < Len(scenario.script[t]) /\ job[t].taken \in Nat
    BY <1>1, TurnFacts DEF ScriptInv, More, Jobs
  <2>2. scenario.script[t] \in Seq(Yields)
    BY <2>1, TurnFacts, ScenarioTyped DEF Turns
  <2>3. PICK m \in Nat : m = Len(scenario.script[t])
    BY <2>2
  <2>4. job[t].taken + 1 <= m
    BY <2>1, <2>3
  <2> QED BY <1>1, <1>7, <1>8, <2>1, <2>3, <2>4 DEF ScriptInv
<1>10. ExportsInv(t)'
  BY <1>1, <1>7, <1>8, TurnFacts, QuietExports DEF ExportsInv
<1>11. LiveStep(t) /\ MirrorStep(t) /\ AloneStep(t)
  BY <1>1, <1>7, <1>8 DEF LiveStep, MirrorStep, AloneStep, Streaming
<1> QED BY <1>1, <1>7, <1>8, <1>9, <1>10, <1>11, TurnFacts, EarlyKeeps DEF Early, Mishaps

(* An element of two sequences joined is one of theirs. *)
LEMMA JoinedFrom ==
  ASSUME NEW S, NEW p \in Seq(S), NEW q \in Seq(S), NEW i \in DOMAIN (p \o q)
  PROVE  \/ i \in DOMAIN p /\ (p \o q)[i] = p[i]
         \/ \E j \in DOMAIN q : (p \o q)[i] = q[j]
<1>1. i \in 1..(Len(p) + Len(q))
  OBVIOUS
<1>2. CASE i <= Len(p)
  BY <1>1, <1>2
<1>3. CASE i > Len(p)
  <2>1. i - Len(p) \in 1..Len(q) /\ (p \o q)[i] = q[i - Len(p)]
    BY <1>1, <1>3
  <2> QED BY <2>1
<1> QED BY <1>1, <1>2, <1>3

(* It is queued: its results are announced. *)
LEMMA QueueKeeps ==
  ASSUME RecordsInv, NEW t \in Turns, QueueChunk(t)
  PROVE  RecordsInv'
<1>1. PICK n : n = job[t].noted \o job[t].results
  OBVIOUS
<1>2. PICK k : k = [job[t] EXCEPT !.at = "graph", !.noted = n, !.results = <<>>]
  OBVIOUS
<1>3. /\ job[t].at = "mirroring" /\ SetMirror({Context(t, job[t])}) /\ Into(t, k)
      /\ UNCHANGED <<scenario, rows, bucket, cancelled, hearing, told>>
  BY <1>1, <1>2, TurnFacts DEF QueueChunk, cancelVars, storeVars, Jobs
<1>4. job[t].results \in Seq(Results) /\ job[t].noted \in Seq(Results) /\ <<>> \in Seq(Results)
  BY TurnFacts DEF Jobs
<1>5. n \in Seq(Results)
  BY <1>1, <1>4
<1>6. /\ k \in Jobs /\ k.at = "graph" /\ k.taken = job[t].taken /\ k.doing = job[t].doing
      /\ k.results = <<>> /\ k.noted = n
      /\ k.kept = job[t].kept /\ k.quits = job[t].quits /\ k.alone = job[t].alone
  BY <1>2, <1>4, <1>5, TurnFacts DEF Jobs, Stages, Early
<1>7. /\ DOMAIN job' = Turns /\ job'[t] = k /\ \A u \in Turns \ {t} : job'[u] = job[u]
      /\ live' = live
  BY <1>3, <1>6, IntoIs, TurnFacts
<1>8. job[t].doing = 0
  BY <1>3, NotExporting
<1>9. ScriptInv(t)'
  BY <1>3, <1>6, <1>7, TurnFacts DEF ScriptInv
<1>10. ExportsInv(t)'
  <2>1. Had(job[t].results) /\ Had(job[t].noted)
    BY TurnFacts DEF ExportsInv
  <2>2. ASSUME NEW i \in DOMAIN n, NEW b \in n[i] PROVE <<b, "payload">> \in bucket /\ <<b, "sidecar">> \in bucket
    <3>1. CASE i \in DOMAIN job[t].noted /\ n[i] = job[t].noted[i]
      BY <2>1, <2>2, <3>1 DEF Had
    <3>2. ASSUME NEW j \in DOMAIN job[t].results, n[i] = job[t].results[j]
          PROVE  <<b, "payload">> \in bucket /\ <<b, "sidecar">> \in bucket
      BY <2>1, <2>2, <3>2 DEF Had
    <3>3. \/ i \in DOMAIN job[t].noted /\ n[i] = job[t].noted[i]
          \/ \E j \in DOMAIN job[t].results : n[i] = job[t].results[j]
      <4>1. PICK p \in Seq(Results), q \in Seq(Results) : p = job[t].noted /\ q = job[t].results
        BY <1>4
      <4>2. n = p \o q
        BY <1>1, <4>1
      <4>3. \/ i \in DOMAIN p /\ (p \o q)[i] = p[i]
            \/ \E j \in DOMAIN q : (p \o q)[i] = q[j]
        BY <4>2, JoinedFrom
      <4> QED BY <4>1, <4>2, <4>3
    <3> QED BY <3>1, <3>2, <3>3
  <2> QED BY <1>3, <1>6, <1>7, <1>8, <2>2 DEF ExportsInv, Had
<1>11. Mishaps /\ mirror' \in {mirror, {Context(t, job[t])}}
  BY <1>3, TurnFacts, SetMirrorIs
<1>12. MirrorStep(t)
  <2>1. Context(t, job[t]).of = t /\ Context(t, job[t]).size \in Sizes
    BY TurnFacts DEF Context, Jobs
  <2> QED BY <1>6, <1>7, <1>11, <2>1 DEF MirrorStep
<1>13. LiveStep(t) /\ AloneStep(t)
  BY <1>3, <1>6, <1>7 DEF LiveStep, AloneStep, Streaming
<1> QED BY <1>3, <1>6, <1>7, <1>9, <1>10, <1>11, <1>12, <1>13, TurnFacts, EarlyKeeps DEF Early

-----------------------------------------------------------------------------
(* The end of a job.                                                       *)

(* A job that ends as k, some of whose rows may be new: of the finally block's
   stages only its exports and rows are to be shown. *)
LEMMA EndKeeps ==
  ASSUME RecordsInv, NEW t \in Turns, NEW k, Into(t, k),
         UNCHANGED <<scenario, cancelled, hearing, told>>, Mishaps,
         DOMAIN rows' = Turns, \A u \in Turns \ {t} : rows'[u] = rows[u],
         job[t].at \notin {"none", "begun", "over", "aborted"}, k.at \notin {"none", "begun", "over"} \cup Streaming,
         k.at \in {"forgetting", "clearing"} => job[t].at # k.at,
         k.alone = job[t].alone,
         bucket \subseteq bucket',
         \A o \in bucket' : o \in bucket \/ (o[2] = "sidecar" => <<o[1], "payload">> \in bucket),
         \A c \in mirror' : c \in mirror \/ (c.of = t /\ c.size \in Sizes),
         TurnInv(t)'
  PROVE  RecordsInv'
<1>1. DOMAIN job' = Turns /\ job'[t] = k /\ \A u \in Turns \ {t} : job'[u] = job[u]
  BY IntoIs, TurnFacts
<1>2. JobStep(t)
  BY <1>1 DEF JobStep, Mishaps
<1>3. LiveStep(t)
  BY IntoLive
<1>4. MirrorStep(t) /\ AloneStep(t)
  BY <1>1 DEF MirrorStep, AloneStep
<1> QED BY <1>2, <1>3, <1>4, JobStepKeeps

(* The graph is exhausted, or fails: the finally block begins. *)
LEMMA JobEndsKeeps ==
  ASSUME RecordsInv, NEW t \in Turns, JobEnds(t) \/ JobFails(t)
  PROVE  RecordsInv'
<1>1. PICK k : k = Finally(job[t])
  OBVIOUS
<1>2. /\ job[t].at = "graph" /\ Into(t, k)
      /\ UNCHANGED <<scenario, mirror, rows, bucket, cancelled, hearing, told, mishaps>>
  BY <1>1 DEF JobEnds, JobFails, storeVars, cancelVars
<1>3. /\ k.at \in {"answer", "tools", "clearing"} /\ k.alone = job[t].alone
  BY <1>1, TurnFacts, FinallyIs
<1>4. job'[t] = k
  BY <1>2, IntoIs, TurnFacts
<1>5. rows'[t] \in Rows /\ rows'[t].tools = <<>> /\ job[t].kept = 0 /\ ~job[t].quits
  BY <1>2, TurnFacts DEF Early
<1>6. TurnInv(t)'
  BY <1>1, <1>2, <1>4, <1>5, TurnFacts, FinallyKept DEF Early
<1> QED BY <1>2, <1>3, <1>6, TurnFacts, EndKeeps DEF Streaming, Mishaps

(* The job is cancelled: its prompt is taken for the partial answer. *)
LEMMA JobCancelledKeeps ==
  ASSUME RecordsInv, NEW t \in Turns, JobCancelled(t)
  PROVE  RecordsInv'
<1>1. PICK j : j = [job[t] EXCEPT !.doing = 0, !.results = <<>>]
  OBVIOUS
<1>2. /\ job[t].at = "graph" /\ PerhapsUploaded(t)
      /\ UNCHANGED <<scenario, mirror, rows, cancelled, hearing, told, mishaps>>
  BY DEF JobCancelled, cancelVars
<1>3. <<>> \in Seq(Results) /\ 0 \in 0..2
  OBVIOUS
<1>4. /\ j \in Jobs /\ j.at = "graph" /\ j.taken = job[t].taken /\ j.doing = 0
      /\ j.results = <<>> /\ j.noted = job[t].noted
      /\ j.kept = job[t].kept /\ j.quits = job[t].quits /\ j.alone = job[t].alone
  BY <1>1, <1>2, <1>3, TurnFacts DEF Jobs
<1>5. /\ bucket \subseteq bucket'
      /\ \A o \in bucket' : o \in bucket \/ (o[2] = "sidecar" => <<o[1], "payload">> \in bucket)
  BY <1>2, PerhapsUploadedIs
<1>6. CASE t \in scenario.prompts
  <2>1. PICK k : k = [j EXCEPT !.at = "noting", !.size = "prompt"]
    OBVIOUS
  <2>2. job' = [job EXCEPT ![t] = k] /\ live' = t
    BY <1>1, <1>6, <2>1 DEF JobCancelled
  <2>3. /\ k \in Jobs /\ k.at = "noting" /\ k.taken = job[t].taken /\ k.doing = 0
        /\ k.results = <<>> /\ k.noted = job[t].noted
        /\ k.kept = job[t].kept /\ k.quits = job[t].quits /\ k.alone = job[t].alone
    BY <1>4, <2>1 DEF Jobs, Stages, Early, Sizes
  <2>4. DOMAIN job' = Turns /\ job'[t] = k /\ \A u \in Turns \ {t} : job'[u] = job[u]
    BY <2>2, TurnFacts, GoesOnAs
  <2>5. ScriptInv(t)'
    BY <1>2, <2>3, <2>4, TurnFacts DEF ScriptInv
  <2>6. ExportsInv(t)'
    BY <1>5, <2>3, <2>4, TurnFacts, QuietExports DEF ExportsInv
  <2>7. LiveStep(t) /\ MirrorStep(t) /\ AloneStep(t)
    BY <1>2, <2>2, <2>3, <2>4 DEF LiveStep, MirrorStep, AloneStep, Streaming
  <2> QED BY <1>2, <1>5, <2>3, <2>4, <2>5, <2>6, <2>7, TurnFacts, EarlyKeeps DEF Early, Mishaps
<1>7. CASE t \notin scenario.prompts
  <2>1. PICK k : k = Finally(j)
    OBVIOUS
  <2>2. Into(t, k)
    BY <1>1, <1>7, <2>1 DEF JobCancelled
  <2>3. /\ k.at \in {"answer", "tools", "clearing"} /\ k.alone = job[t].alone
    BY <1>4, <2>1, FinallyIs
  <2>4. job'[t] = k
    BY <2>2, IntoIs, TurnFacts
  <2>5. rows'[t] \in Rows /\ rows'[t].tools = <<>> /\ job[t].kept = 0 /\ ~job[t].quits
    BY <1>2, TurnFacts DEF Early
  <2>6. TurnInv(t)'
    BY <1>2, <1>4, <1>5, <2>1, <2>4, <2>5, TurnFacts, FinallyKept DEF Early
  <2> QED BY <1>2, <1>5, <2>2, <2>3, <2>6, TurnFacts, EndKeeps DEF Streaming, Mishaps
<1> QED BY <1>6, <1>7

(* A row that may be written, and whether it is. *)
LEMMA InsertIs ==
  ASSUME RecordsInv, NEW t \in Turns, NEW kind \in {"answers", "tools"}, NEW row, NEW ok \in BOOLEAN,
         Insert(t, kind, row, ok)
  PROVE  /\ Mishaps /\ (scenario.pool /\ mishaps' = mishaps => ok)
         /\ IF ok THEN rows' = [rows EXCEPT ![t][kind] = Append(@, row)]
            ELSE rows' \in {rows, [rows EXCEPT ![t][kind] = Append(@, row)]}
         /\ ok => scenario.pool /\ mishaps' = mishaps
BY TurnFacts DEF Insert, Mishaps, Mishap

(* An answer is kept: the partial one, or the one at the end. *)
LEMMA KeepAnswerKeeps ==
  ASSUME RecordsInv, NEW t \in Turns, KeepAnswer(t)
  PROVE  RecordsInv'
<1>1. PICK k : k = IF job[t].at = "partial" THEN Finally(job[t]) ELSE AfterAnswer(job[t])
  OBVIOUS
<1>2. /\ job[t].at \in {"partial", "answer"} /\ Into(t, k)
      /\ UNCHANGED <<scenario, mirror, bucket, cancelled, hearing, told>>
  BY <1>1 DEF KeepAnswer, cancelVars
<1>3. PICK ok \in BOOLEAN : Insert(t, "answers", job[t].at, ok)
  BY DEF KeepAnswer
<1>4. PICK with : with = Append(rows[t].answers, job[t].at)
  OBVIOUS
<1>5. with \in Seq(Stages)
  BY <1>2, <1>4, TurnFacts DEF Rows, Jobs
<1>6. Mishaps /\ (rows' = rows \/ rows' = [rows EXCEPT ![t].answers = with])
  BY <1>3, <1>4, InsertIs, TurnFacts
<1>7. /\ DOMAIN rows' = Turns /\ \A u \in Turns \ {t} : rows'[u] = rows[u]
      /\ rows'[t] \in Rows /\ rows'[t].tools = rows[t].tools
  BY <1>5, <1>6, TurnFacts DEF Rows
<1>8. /\ k.at \in {"answer", "tools", "clearing"} /\ k.alone = job[t].alone
  BY <1>1, TurnFacts, FinallyIs, AfterAnswerIs
<1>9. job'[t] = k
  BY <1>2, IntoIs, TurnFacts
<1>10. /\ rows'[t].tools = <<>> /\ job[t].kept = 0 /\ ~job[t].quits /\ job[t].doing = 0
  BY <1>2, <1>7, TurnFacts, NotExporting DEF Early
<1>11. TurnInv(t)'
  BY <1>1, <1>2, <1>7, <1>9, <1>10, TurnFacts, FinallyKept DEF Early
<1> QED BY <1>2, <1>6, <1>7, <1>8, <1>11, EndKeeps DEF Streaming

(* One more of a prefix's sequence is a prefix, too. *)
LEMMA PrefixGrows ==
  ASSUME NEW S, NEW p \in Seq(S), NEW q \in Seq(S), IsPrefix(p, q), Len(p) < Len(q)
  PROVE  /\ IsPrefix(Append(p, q[Len(p) + 1]), q) /\ Append(p, q[Len(p) + 1]) \in Seq(S)
         /\ Len(Append(p, q[Len(p) + 1])) = Len(p) + 1
<1>1. PICK r : r = Append(p, q[Len(p) + 1])
  OBVIOUS
<1>2. r \in Seq(S) /\ Len(r) = Len(p) + 1
  BY <1>1
<1>3. \A i \in 1..Len(p) : p[i] = q[i]
  <2> TAKE i \in 1..Len(p)
  <2>1. SubSeq(p, 1, Len(p)) = SubSeq(q, 1, Len(p))
    BY DEF IsPrefix
  <2>2. SubSeq(p, 1, Len(p))[i] = p[i] /\ SubSeq(q, 1, Len(p))[i] = q[i]
    OBVIOUS
  <2> QED BY <2>1, <2>2
<1>4. \A i \in 1..Len(r) : r[i] = q[i]
  BY <1>1, <1>2, <1>3
<1>5. SubSeq(r, 1, Len(r)) = SubSeq(q, 1, Len(r))
  BY <1>2, <1>4
<1> QED BY <1>1, <1>2, <1>5 DEF IsPrefix

(* A prefix of the same length is the sequence. *)
LEMMA PrefixWhole ==
  ASSUME NEW S, NEW p \in Seq(S), NEW q \in Seq(S), IsPrefix(p, q), Len(p) = Len(q)
  PROVE  p = q
<1>1. SubSeq(p, 1, Len(p)) = p /\ SubSeq(q, 1, Len(q)) = q
  OBVIOUS
<1> QED BY <1>1 DEF IsPrefix

(* A tool's result is kept, in its place; or it is not, and that is the end. *)
LEMMA KeepToolKeeps ==
  ASSUME RecordsInv, NEW t \in Turns, KeepTool(t)
  PROVE  RecordsInv'
<1>1. PICK ok \in BOOLEAN :
        /\ Insert(t, "tools", job[t].noted[job[t].kept + 1], ok)
        /\ Into(t, [job[t] EXCEPT !.kept = IF ok THEN @ + 1 ELSE @,
                                  !.at = IF ok /\ job[t].kept + 1 < Len(job[t].noted) THEN @ ELSE "forgetting"])
  BY DEF KeepTool
<1>2. /\ job[t].at = "tools"
      /\ UNCHANGED <<scenario, mirror, bucket, cancelled, hearing, told>>
  BY DEF KeepTool, cancelVars
<1>3. /\ job[t].noted \in Seq(Results) /\ rows[t].tools \in Seq(Results) /\ job[t].kept \in Nat
      /\ Len(job[t].noted) \in Nat /\ ~job[t].quits
      /\ IsPrefix(rows[t].tools, job[t].noted) /\ Len(rows[t].tools) = job[t].kept
      /\ job[t].kept < Len(job[t].noted)
  BY <1>2, TurnFacts DEF Jobs, Rows, KeptInv
<1>4. PICK kept \in Nat : kept = IF ok THEN job[t].kept + 1 ELSE job[t].kept
  BY <1>3
<1>5. PICK at \in {"tools", "forgetting"} :
        at = IF ok /\ job[t].kept + 1 < Len(job[t].noted) THEN "tools" ELSE "forgetting"
  OBVIOUS
<1>6. PICK k : k = [job[t] EXCEPT !.kept = kept, !.at = at]
  OBVIOUS
<1>7. Into(t, k)
  <2>1. [job[t] EXCEPT !.kept = IF ok THEN @ + 1 ELSE @,
                       !.at = IF ok /\ job[t].kept + 1 < Len(job[t].noted) THEN @ ELSE "forgetting"] = k
    BY <1>2, <1>4, <1>5, <1>6, TurnFacts DEF Jobs
  <2> QED BY <1>1, <2>1
<1>8. /\ k \in Jobs /\ k.at = at /\ k.kept = kept /\ k.taken = job[t].taken /\ k.doing = job[t].doing
      /\ k.results = job[t].results /\ k.noted = job[t].noted /\ k.quits = job[t].quits /\ k.alone = job[t].alone
  BY <1>6, TurnFacts DEF Jobs, Stages
<1>9. job'[t] = k
  BY <1>7, IntoIs, TurnFacts
<1>10. PICK with : with = Append(rows[t].tools, job[t].noted[job[t].kept + 1])
  OBVIOUS
<1>11. with \in Seq(Results) /\ IsPrefix(with, job[t].noted) /\ Len(with) = job[t].kept + 1
  <2>1. with = Append(rows[t].tools, job[t].noted[Len(rows[t].tools) + 1])
    BY <1>3, <1>10
  <2> QED BY <1>3, <2>1, PrefixGrows
<1>12. /\ Mishaps /\ (scenario.pool /\ mishaps' = mishaps => ok)
       /\ IF ok THEN rows' = [rows EXCEPT ![t].tools = with]
          ELSE rows' \in {rows, [rows EXCEPT ![t].tools = with]}
  BY <1>1, <1>10, InsertIs, TurnFacts
<1>13. /\ DOMAIN rows' = Turns /\ \A u \in Turns \ {t} : rows'[u] = rows[u]
       /\ rows'[t] \in Rows
       /\ IF ok THEN rows'[t].tools = with ELSE rows'[t].tools \in {rows[t].tools, with}
  BY <1>11, <1>12, TurnFacts DEF Rows
<1>14. job[t].doing = 0
  BY <1>2, NotExporting
<1>15. ScriptInv(t)'
  BY <1>2, <1>5, <1>8, <1>9, TurnFacts DEF ScriptInv
<1>16. ExportsInv(t)'
  BY <1>2, <1>8, <1>9, <1>14, TurnFacts, QuietExports DEF ExportsInv
<1>17. KeptInv(t)'
  <2>1. kept <= Len(k.noted) /\ IsPrefix(rows'[t].tools, k.noted)
    BY <1>3, <1>4, <1>8, <1>11, <1>13
  <2>2. at = "tools" => Len(rows'[t].tools) = kept /\ kept < Len(k.noted)
    BY <1>3, <1>4, <1>5, <1>8, <1>11, <1>13
  <2>3. at = "forgetting" /\ scenario.pool /\ mishaps' = 0 => rows'[t].tools = k.noted
    <3> SUFFICES ASSUME at = "forgetting", scenario.pool, mishaps' = 0 PROVE rows'[t].tools = k.noted
      OBVIOUS
    <3>1. mishaps' = mishaps
      BY <1>12, TurnFacts DEF Mishaps
    <3>2. ok /\ job[t].kept + 1 = Len(job[t].noted)
      BY <1>3, <1>5, <1>12, <3>1
    <3> QED BY <1>3, <1>8, <1>11, <1>13, <3>2, PrefixWhole
  <2> QED BY <1>2, <1>3, <1>5, <1>8, <1>9, <2>1, <2>2, <2>3 DEF KeptInv, Early
<1>18. TurnInv(t)'
  BY <1>8, <1>9, <1>13, <1>15, <1>16, <1>17 DEF TurnInv
<1> QED BY <1>2, <1>5, <1>7, <1>8, <1>12, <1>13, <1>18, EndKeeps DEF Streaming

(* The mirror is deleted, and what the run left says where it goes on. *)
LEMMA ForgettingKeeps ==
  ASSUME RecordsInv, NEW t \in Turns, DeleteMirror(t)
  PROVE  RecordsInv'
<1>1. PICK at \in {"over", "aborted", "clearing"} :
        at = IF job[t].at = "clearing" THEN "over" ELSE IF job[t].quits THEN "aborted" ELSE "clearing"
  OBVIOUS
<1>2. PICK k : k = [job[t] EXCEPT !.at = at]
  OBVIOUS
<1>3. /\ job[t].at \in {"forgetting", "clearing"} /\ SetMirror({}) /\ Into(t, k)
      /\ UNCHANGED <<scenario, rows, bucket, cancelled, hearing, told>>
  BY <1>1, <1>2, TurnFacts DEF DeleteMirror, storeVars, cancelVars, Jobs
<1>4. /\ k \in Jobs /\ k.at = at /\ k.taken = job[t].taken /\ k.doing = job[t].doing /\ k.kept = job[t].kept
      /\ k.results = job[t].results /\ k.noted = job[t].noted /\ k.quits = job[t].quits /\ k.alone = job[t].alone
  BY <1>1, <1>2, TurnFacts DEF Jobs, Stages
<1>5. /\ DOMAIN job' = Turns /\ job'[t] = k /\ \A u \in Turns \ {t} : job'[u] = job[u]
      /\ live' = IF at = "clearing" THEN 0 ELSE live
  BY <1>1, <1>3, <1>4, IntoIs, TurnFacts
<1>6. Mishaps /\ mirror' \in {mirror, {}} /\ (mishaps' = mishaps => mirror' = {})
  BY <1>3, TurnFacts, SetMirrorIs
<1>7. job[t].doing = 0
  BY <1>3, NotExporting
<1>8. ScriptInv(t)'
  BY <1>3, <1>4, <1>5, TurnFacts DEF ScriptInv
<1>9. ExportsInv(t)'
  BY <1>3, <1>4, <1>5, <1>7, TurnFacts, QuietExports DEF ExportsInv
<1>10. KeptInv(t)'
  <2>1. mishaps' = 0 => mishaps = 0
    BY <1>6, TurnFacts DEF Mishaps
  <2>2. KeptInv(t)
    BY TurnFacts
  <2> QED BY <1>1, <1>3, <1>4, <1>5, <2>1, <2>2 DEF KeptInv, Early
<1>11. TurnInv(t)'
  BY <1>3, <1>4, <1>5, <1>8, <1>9, <1>10, TurnFacts DEF TurnInv
<1>12. JobStep(t)
  BY <1>1, <1>3, <1>4, <1>5, <1>6, <1>11, TurnFacts DEF JobStep, Mishaps
<1>13. LiveStep(t)
  BY <1>1, <1>3, <1>4, IntoLive
<1>14. MirrorStep(t)
  BY <1>4, <1>5, <1>6, TurnFacts DEF MirrorStep, Mishaps
<1>15. AloneStep(t)
  BY <1>1, <1>4, <1>5 DEF AloneStep, Streaming
<1> QED BY <1>12, <1>13, <1>14, <1>15, JobStepKeeps

(* The abort strikes a job in its graph or at its answer: what the graph left
   is still kept. *)
LEMMA AbortBeforeKept ==
  ASSUME RecordsInv, NEW t \in Turns, AbortJob(t), job[t].at \in {"graph", "mirroring", "noting", "partial"}
  PROVE  RecordsInv'
<1>1. PICK j : j = [job[t] EXCEPT !.struck = TRUE]
  OBVIOUS
<1>2. PICK k : k = Finally(j)
  OBVIOUS
<1>3. /\ j \in Jobs /\ j.at = job[t].at /\ j.taken = job[t].taken /\ j.doing = job[t].doing /\ j.kept = job[t].kept
      /\ j.size = job[t].size /\ j.results = job[t].results /\ j.noted = job[t].noted
      /\ j.quits = job[t].quits /\ j.alone = job[t].alone
  BY <1>1, TurnFacts DEF Jobs
<1>4. Into(t, k) /\ UNCHANGED <<scenario, cancelled, hearing, told, mishaps>>
  BY <1>1, <1>2, <1>3 DEF AbortJob, cancelVars
<1>5. PICK with : with = Append(rows[t].answers, job[t].at)
  OBVIOUS
<1>6. /\ rows' = rows \/ rows' = [rows EXCEPT ![t].answers = with]
      /\ bucket' = bucket \/ PerhapsUploaded(t)
      /\ mirror' \in {mirror, {Context(t, j)}}
  <2>1. CASE job[t].at = "graph"
    BY <2>1 DEF AbortJob, storeVars
  <2>2. CASE job[t].at \in {"mirroring", "noting"}
    BY <1>1, <1>3, <2>2 DEF AbortJob, storeVars
  <2>3. CASE job[t].at = "partial"
    BY <1>1, <1>3, <1>5, <2>3 DEF AbortJob, storeVars
  <2> QED BY <2>1, <2>2, <2>3
<1>7. with \in Seq(Stages)
  BY <1>5, TurnFacts DEF Rows, Jobs
<1>8. /\ DOMAIN rows' = Turns /\ \A u \in Turns \ {t} : rows'[u] = rows[u]
      /\ rows'[t] \in Rows /\ rows'[t].tools = rows[t].tools
  BY <1>6, <1>7, TurnFacts DEF Rows
<1>9. /\ bucket \subseteq bucket'
      /\ \A o \in bucket' : o \in bucket \/ (o[2] = "sidecar" => <<o[1], "payload">> \in bucket)
  BY <1>6, PerhapsUploadedIs
<1>10. \A c \in mirror' : c \in mirror \/ (c.of = t /\ c.size \in Sizes)
  <2>1. Context(t, j).of = t /\ Context(t, j).size \in Sizes
    BY <1>3 DEF Context, Jobs
  <2> QED BY <1>6, <2>1
<1>11. k.at \in {"answer", "tools", "clearing"} /\ k.alone = job[t].alone
  BY <1>2, <1>3, FinallyIs
<1>12. job'[t] = k
  BY <1>4, IntoIs, TurnFacts
<1>13. rows'[t].tools = <<>> /\ j.kept = 0 /\ ~j.quits
  BY <1>3, <1>8, TurnFacts DEF Early
<1>14. TurnInv(t)'
  BY <1>2, <1>3, <1>4, <1>8, <1>9, <1>12, <1>13, FinallyKept DEF Early
<1> QED BY <1>4, <1>8, <1>9, <1>10, <1>11, <1>14, EndKeeps DEF Streaming, Mishaps

(* ... or at the end: a result that was under way may be kept, and no more is. *)
LEMMA AbortAfterKept ==
  ASSUME RecordsInv, NEW t \in Turns, AbortJob(t), job[t].at \in {"answer", "tools", "forgetting", "clearing"}
  PROVE  RecordsInv'
<1>1. PICK at \in {"forgetting", "aborted"} : at = IF job[t].at = "tools" THEN "forgetting" ELSE "aborted"
  OBVIOUS
<1>2. PICK quits \in BOOLEAN : quits = IF job[t].at = "tools" THEN TRUE ELSE job[t].quits
  BY TurnFacts DEF Jobs
<1>3. PICK k : k = [job[t] EXCEPT !.struck = TRUE, !.at = at, !.quits = quits]
  OBVIOUS
<1>4. /\ k \in Jobs /\ k.at = at /\ k.taken = job[t].taken /\ k.doing = job[t].doing /\ k.kept = job[t].kept
      /\ k.results = job[t].results /\ k.noted = job[t].noted /\ (k.quits <=> quits) /\ k.alone = job[t].alone
  BY <1>1, <1>2, <1>3, TurnFacts DEF Jobs, Stages
<1>5. PICK j : j = [job[t] EXCEPT !.struck = TRUE]
  OBVIOUS
<1>6. /\ j.at = job[t].at /\ j.noted = job[t].noted /\ j.kept = job[t].kept
  BY <1>5, TurnFacts DEF Jobs
<1>7. Into(t, k) /\ UNCHANGED <<scenario, cancelled, hearing, told, mishaps>>
  <2>1. CASE job[t].at = "tools"
    <3>1. [j EXCEPT !.at = "forgetting", !.quits = TRUE] = k
      BY <1>1, <1>2, <1>3, <1>5, <2>1, TurnFacts DEF Jobs
    <3> QED BY <1>5, <1>6, <2>1, <3>1 DEF AbortJob, cancelVars
  <2>2. CASE job[t].at \in {"answer", "forgetting", "clearing"}
    <3>1. [j EXCEPT !.at = "aborted"] = k
      BY <1>1, <1>2, <1>3, <1>5, <2>2, TurnFacts DEF Jobs
    <3> QED BY <1>5, <1>6, <2>2, <3>1 DEF AbortJob, cancelVars
  <2> QED BY <2>1, <2>2
<1>8. job'[t] = k
  BY <1>7, IntoIs, TurnFacts
<1>9. PICK answer, result : /\ answer = Append(rows[t].answers, job[t].at)
                            /\ result = Append(rows[t].tools, job[t].noted[job[t].kept + 1])
  OBVIOUS
<1>10. /\ bucket' = bucket /\ mirror' \subseteq mirror
       /\ IF job[t].at = "tools" THEN rows' = rows \/ rows' = [rows EXCEPT ![t].tools = result]
          ELSE rows' = rows \/ rows' = [rows EXCEPT ![t].answers = answer]
  <2>1. CASE job[t].at = "tools"
    BY <1>5, <1>6, <1>9, <2>1 DEF AbortJob, storeVars
  <2>2. CASE job[t].at = "answer"
    BY <1>5, <1>6, <1>9, <2>2 DEF AbortJob, storeVars
  <2>3. CASE job[t].at \in {"forgetting", "clearing"}
    BY <1>5, <1>6, <2>3 DEF AbortJob, storeVars
  <2> QED BY <2>1, <2>2, <2>3
<1>11. answer \in Seq(Stages)
  BY <1>9, TurnFacts DEF Rows, Jobs
<1>12. job[t].at = "tools" => result \in Seq(Results) /\ IsPrefix(result, job[t].noted)
  <2> SUFFICES ASSUME job[t].at = "tools" PROVE result \in Seq(Results) /\ IsPrefix(result, job[t].noted)
    OBVIOUS
  <2>1. /\ job[t].noted \in Seq(Results) /\ rows[t].tools \in Seq(Results)
        /\ IsPrefix(rows[t].tools, job[t].noted) /\ Len(rows[t].tools) = job[t].kept
        /\ job[t].kept < Len(job[t].noted)
    BY TurnFacts DEF Jobs, Rows, KeptInv
  <2>2. result = Append(rows[t].tools, job[t].noted[Len(rows[t].tools) + 1])
    BY <1>9, <2>1
  <2> QED BY <2>1, <2>2, PrefixGrows
<1>13. /\ DOMAIN rows' = Turns /\ \A u \in Turns \ {t} : rows'[u] = rows[u]
       /\ rows'[t] \in Rows /\ IsPrefix(rows'[t].tools, job[t].noted)
  <2>1. IsPrefix(rows[t].tools, job[t].noted)
    BY TurnFacts DEF KeptInv
  <2> QED BY <1>10, <1>11, <1>12, <2>1, TurnFacts DEF Rows
<1>14. job[t].doing = 0
  BY NotExporting
<1>15. ScriptInv(t)'
  BY <1>7, <1>4, <1>8, TurnFacts DEF ScriptInv
<1>16. ExportsInv(t)'
  BY <1>10, <1>4, <1>8, <1>14, TurnFacts, QuietExports DEF ExportsInv
<1>17. KeptInv(t)'
  <2>1. job[t].kept <= Len(job[t].noted)
    BY TurnFacts DEF KeptInv
  <2> QED BY <1>1, <1>2, <1>4, <1>8, <1>13, <2>1 DEF KeptInv, Early
<1>18. TurnInv(t)'
  BY <1>4, <1>8, <1>13, <1>15, <1>16, <1>17 DEF TurnInv
<1> QED BY <1>1, <1>4, <1>7, <1>10, <1>13, <1>18, EndKeeps DEF Streaming, Mishaps

-----------------------------------------------------------------------------
(* The listener, and all steps.                                            *)

(* No run has begun, and nothing is kept. *)
LEMMA RecordsInitially == RecordsInit => RecordsInv
<1> SUFFICES ASSUME RecordsInit PROVE RecordsInv
  OBVIOUS
<1>1. /\ scenario \in Scenarios /\ job = [t \in Turns |-> NoJob]
      /\ rows = [t \in Turns |-> [answers |-> <<>>, tools |-> <<>>]]
      /\ live = 0 /\ mirror = {} /\ bucket = {} /\ cancelled = {} /\ mishaps = 0
      /\ hearing = [t \in Turns |-> "no"] /\ told = [t \in Turns |-> <<>>]
  BY DEF RecordsInit
<1>2. NoJob \in Jobs
  <2>1. <<>> \in Seq(Results) /\ 0 \in 0..2
    OBVIOUS
  <2> QED BY <2>1 DEF NoJob, Jobs, Stages, Early, Sizes
<1>3. ASSUME NEW t \in Turns PROVE TurnInv(t)
  <2>1. rows[t] \in Rows
    BY <1>1 DEF Rows
  <2>2. ScriptInv(t) /\ ExportsInv(t)
    BY <1>1 DEF ScriptInv, ExportsInv, Had, NoJob
  <2>3. KeptInv(t)
    BY <1>1 DEF KeptInv, NoJob, IsPrefix, Early
  <2> QED BY <1>1, <1>2, <2>1, <2>2, <2>3 DEF TurnInv
<1>4. BucketInv /\ LiveInv /\ MirrorInv
  BY <1>1 DEF BucketInv, LiveInv, MirrorInv
<1>5. AloneInv
  BY <1>1 DEF AloneInv, NoJob
<1>6. HearingInv
  BY <1>1 DEF HearingInv
<1>7. mishaps \in 0..scenario.fails
  BY <1>1, ScenarioTyped
<1> QED BY <1>1, <1>3, <1>4, <1>5, <1>6, <1>7 DEF RecordsInv

(* What leaves the jobs and what they wrote alone keeps the invariant. *)
LEMMA ListensKeeps ==
  ASSUME RecordsInv, UNCHANGED <<scenario, job, live, mirror, rows, bucket>>, Mishaps, HearingInv'
  PROVE  RecordsInv'
<1>1. mishaps' \in 0..scenario.fails /\ mishaps \in Nat /\ (mishaps' = 0 => mishaps = 0) /\ mishaps <= mishaps'
  BY ScenarioTyped DEF RecordsInv, Mishaps
<1>2. \A t \in Turns : TurnInv(t)'
  <2> SUFFICES ASSUME NEW t \in Turns PROVE TurnInv(t)'
    OBVIOUS
  <2>1. ScriptInv(t)' /\ ExportsInv(t)'
    BY TurnFacts DEF ScriptInv, ExportsInv, Had, Due, Artifact
  <2>2. KeptInv(t)'
    BY <1>1, TurnFacts DEF KeptInv
  <2> QED BY <2>1, <2>2, TurnFacts DEF TurnInv
<1>3. BucketInv' /\ LiveInv' /\ AloneInv'
  BY DEF RecordsInv, BucketInv, LiveInv, AloneInv, Finished, Started
<1>4. MirrorInv'
  BY <1>1 DEF RecordsInv, MirrorInv
<1> QED BY <1>1, <1>2, <1>3, <1>4 DEF RecordsInv

(* The listener hears, loads, tells or is cut off. *)
LEMMA HearingKeeps ==
  ASSUME RecordsInv, NEW t \in Turns, Hear(t) \/ LoadMirror(t) \/ CancelJob(t) \/ CutOff(t)
  PROVE  RecordsInv'
<1>1. UNCHANGED <<scenario, job, live, mirror, rows, bucket>> /\ Mishaps
  BY DEF Hear, LoadMirror, CancelJob, CutOff, Mishaps, Mishap, storeVars
<1>2. HearingInv
  BY DEF RecordsInv
<1>3. ASSUME NEW says, Records(t, says), cancelled' = cancelled PROVE HearingInv'
  BY <1>2, <1>3 DEF HearingInv, Records
<1>4. ASSUME NEW h \in {"loading", "done"}, hearing' = [hearing EXCEPT ![t] = h], told' = told,
             cancelled' \subseteq cancelled \cup {t}
      PROVE  HearingInv'
  BY <1>2, <1>4 DEF HearingInv
<1>5. HearingInv'
  BY <1>3, <1>4 DEF Hear, LoadMirror, CancelJob, CutOff
<1> QED BY <1>1, <1>5, ListensKeeps

(* Every step of a job or the listener keeps the invariant. *)
LEMMA RecordsStep == RecordsInv /\ [RecordsNext]_recordsVars => RecordsInv'
<1> SUFFICES ASSUME RecordsInv, [RecordsNext]_recordsVars PROVE RecordsInv'
  OBVIOUS
<1>1. ASSUME NEW t \in Turns,
             \/ StartJob(t) \/ BeginJob(t) \/ SaveSeed(t)
             \/ StartExport(t) \/ Upload(t) \/ UploadFails(t) \/ TakeChunk(t) \/ QueueChunk(t)
      PROVE  RecordsInv'
  BY <1>1, StartKeeps, BeginKeeps, SaveKeeps, StartExportKeeps, UploadKeeps, UploadFailsKeeps, TakeKeeps,
     QueueKeeps
<1>2. ASSUME NEW t \in Turns,
             \/ JobEnds(t) \/ JobFails(t) \/ JobCancelled(t) \/ NotePartial(t)
             \/ KeepAnswer(t) \/ KeepTool(t) \/ DeleteMirror(t)
      PROVE  RecordsInv'
  BY <1>2, JobEndsKeeps, JobCancelledKeeps, SaveKeeps, KeepAnswerKeeps, KeepToolKeeps, ForgettingKeeps
<1>3. ASSUME NEW t \in Turns, AbortJob(t) PROVE RecordsInv'
  <2>1. PICK at : at = job[t].at
    OBVIOUS
  <2>2. [job[t] EXCEPT !.struck = TRUE].at = job[t].at
    BY TurnFacts DEF Jobs
  <2>3. at \in {"graph", "mirroring", "noting", "partial", "answer", "tools", "forgetting", "clearing"}
    BY <1>3, <2>1, <2>2 DEF AbortJob
  <2> QED BY <1>3, <2>1, <2>3, AbortBeforeKept, AbortAfterKept
<1>4. ASSUME NEW t \in Turns, Hear(t) \/ LoadMirror(t) \/ CancelJob(t) \/ CutOff(t) PROVE RecordsInv'
  BY <1>4, HearingKeeps
<1>5. CASE UNCHANGED recordsVars
  <2>1. HearingInv'
    BY <1>5 DEF RecordsInv, HearingInv, recordsVars
  <2> QED BY <1>5, <2>1, ListensKeeps DEF recordsVars, Mishaps
<1> QED BY <1>1, <1>2, <1>3, <1>4, <1>5 DEF RecordsNext

-----------------------------------------------------------------------------
(* The theorems.                                                           *)

(* Whatever is cancelled or fails, what the runs write and where they stand
   keeps its types. *)
THEOREM RecordsTypeCorrect == RecordsSpec => []RecordsTypeOK
<1>1. RecordsInv => RecordsTypeOK
  <2> SUFFICES ASSUME RecordsInv PROVE RecordsTypeOK
    OBVIOUS
  <2>1. ASSUME NEW t \in Turns
        PROVE  /\ job[t].at \in Stages /\ job[t].kept \in 0..Len(job[t].noted) /\ job[t].doing \in 0..2
               /\ job[t].at # "none" => job[t].taken \in 0..Len(scenario.script[t])
    <3>1. /\ job[t].at \in Stages /\ job[t].kept \in Nat /\ job[t].doing \in 0..2 /\ job[t].taken \in Nat
          /\ job[t].noted \in Seq(Results) /\ job[t].kept <= Len(job[t].noted)
      BY TurnFacts DEF Jobs, KeptInv
    <3>2. job[t].at # "none" => t \in 1..Len(scenario.script) /\ job[t].taken <= Len(scenario.script[t])
      BY TurnFacts DEF ScriptInv, Turns
    <3>3. t \in 1..Len(scenario.script) => scenario.script[t] \in Seq(Yields)
      BY TurnFacts, ScenarioTyped
    <3> QED BY <3>1, <3>2, <3>3
  <2>2. live \in {0} \cup Turns /\ mishaps \in 0..scenario.fails
    BY DEF RecordsInv, LiveInv
  <2>3. \A c \in mirror : c.of \in Turns /\ c.size \in Sizes
    BY DEF RecordsInv, MirrorInv
  <2>4. HearingInv
    BY DEF RecordsInv
  <2> QED BY <2>1, <2>2, <2>3, <2>4, UploadOrderIs DEF RecordsTypeOK, HearingInv, Stages, Early, Sizes
<1> QED BY <1>1, RecordsInitially, RecordsStep, PTL DEF RecordsSpec

(* What a run announced it leaves behind: its tool results in their order and
   without a gap, all of them if it ends undisturbed, and every artifact that
   the stream announced can be had or is said to be made, for any number of
   turns, scripts, failures and cancels (service.py: _run_graph,
   _persist_tool_messages; tools/file_export.py). *)
THEOREM AnnouncementsKept == RecordsSpec => []AnnouncedIsKept
<1>1. RecordsInv => AnnouncedIsKept
  <2> SUFFICES ASSUME RecordsInv PROVE AnnouncedIsKept
    OBVIOUS
  <2>1. ASSUME NEW t \in Turns
        PROVE  /\ IsPrefix(rows[t].tools, job[t].noted)
               /\ job[t].at = "over" /\ scenario.pool /\ mishaps = 0 => rows[t].tools = job[t].noted
    BY TurnFacts DEF KeptInv
  <2>2. ASSUME NEW t \in Turns, NEW i \in DOMAIN job[t].noted, NEW a \in job[t].noted[i]
        PROVE  Button(a) = IF a.format = "fast" THEN "download" ELSE "retry"
    <3>1. <<a, "payload">> \in bucket /\ <<a, "sidecar">> \in bucket
      BY TurnFacts DEF ExportsInv, Had
    <3>2. a \in Artifacts
      BY TurnFacts DEF Jobs, Results
    <3>3. a.format \in {"fast", "slow"}
      BY <3>2 DEF Artifacts
    <3>4. GetArtifact(a) = IF a.format = "fast" THEN 200 ELSE 503
      BY <3>1, <3>3 DEF GetArtifact
    <3>5. CASE a.format = "fast"
      BY <3>4, <3>5 DEF Button
    <3>6. CASE a.format # "fast"
      BY <3>4, <3>6 DEF Button
    <3> QED BY <3>5, <3>6
  <2>3. BucketInv
    BY DEF RecordsInv
  <2> QED BY <2>1, <2>2, <2>3 DEF AnnouncedIsKept, BucketInv
<1> QED BY <1>1, RecordsInitially, RecordsStep, PTL DEF RecordsSpec

(* The forensic record of a cancel tells where the run was: as the message is
   heard, if it streams and was alone; and unless Redis failed it never shows a
   run that had come to its end (service.py: _listen_control_plane;
   runtime_context.py). *)
THEOREM RecordsTruthful == RecordsSpec => ForensicsTruthful
<1> DEFINE Truthful(t) ==
      /\ hearing[t] = "no" /\ job[t].alone /\ job[t].at \in {"seeded", "graph", "mirroring"} =>
           told'[t] = <<{Context(t, job[t])}>>
      /\ \A c \in told'[t][1] : job[c.of].at = "over" => mishaps > 0
<1>1. ASSUME RecordsInv, [RecordsNext]_recordsVars, NEW t \in Turns, told'[t] # told[t]
      PROVE  Truthful(t)
  <2>1. DOMAIN told = Turns
    BY <1>1 DEF RecordsInv, HearingInv
  <2>2. PICK u \in Turns : Hear(u) \/ LoadMirror(u)
    BY <1>1 DEF RecordsNext, recordsVars, cancelVars, StartJob, BeginJob, SaveSeed, StartExport, Upload,
       UploadFails, TakeChunk, QueueChunk, JobEnds, JobFails, JobCancelled, NotePartial, KeepAnswer,
       KeepTool, DeleteMirror, AbortJob, CancelJob, CutOff
  <2>3. u = t
    BY <1>1, <2>1, <2>2 DEF Hear, LoadMirror, Records
  <2>4. CASE Hear(t)
    <3>1. live # 0 /\ told'[t] = <<{Context(live, job[live])}>>
      BY <1>1, <2>1, <2>4 DEF Hear, Records
    <3>2. job[live].at # "over" /\ Context(live, job[live]).of = live
      BY <1>1, <3>1 DEF RecordsInv, LiveInv, Context
    <3>3. job[t].alone /\ job[t].at \in Streaming => live = t
      BY <1>1, <2>4 DEF RecordsInv, AloneInv, Hear, Turns
    <3> QED BY <3>1, <3>2, <3>3 DEF Streaming
  <2>5. CASE LoadMirror(t)
    <3>1. hearing[t] = "loading" /\ (told'[t] = <<mirror>> \/ told'[t] = <<{}>>)
      BY <2>1, <2>5 DEF LoadMirror, Records
    <3>2. \A c \in mirror : job[c.of].at = "over" => mishaps > 0
      BY <1>1 DEF RecordsInv, MirrorInv
    <3> QED BY <3>1, <3>2
  <2> QED BY <2>2, <2>3, <2>4, <2>5
<1>2. RecordsInv /\ [RecordsNext]_recordsVars =>
        [\A t \in Turns : told'[t] # told[t] =>
           /\ hearing[t] = "no" /\ job[t].alone /\ job[t].at \in {"seeded", "graph", "mirroring"} =>
                told'[t] = <<{Context(t, job[t])}>>
           /\ \A c \in told'[t][1] : job[c.of].at = "over" => mishaps > 0]_recordsVars
  BY <1>1
<1> QED BY <1>2, RecordsInitially, RecordsStep, PTL DEF RecordsSpec, ForensicsTruthful
=============================================================================
