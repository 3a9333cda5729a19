----------------------------- MODULE PartsProofs -----------------------------
(***************************************************************************)
(* The parts of MCServices together, for every value of their constants:   *)
(* whichever part moves, each part runs as its own specification says, so  *)
(* what is proved of a part holds of the whole; the types of all of them.  *)
(***************************************************************************)
EXTENDS MCServices, LlmCallProofs, ServiceProofs, AnswerProofs

ServicesVars ==
  <<part, routingVars, cacheVars, retrievalVars, lifecycleVars, indexingVars, screenVars, toolVars, recordsVars>>

(* In every behaviour of the whole the router, the breaker and the cost guard run as specified. *)
LEMMA RoutingRuns == ServicesSpec => RoutingSpec
<1>1. ServicesInit => RoutingInit
  BY DEF ServicesInit
<1>2. [ServicesNext]_ServicesVars => [RoutingNext]_routingVars
  <2>1. ServicesNext => [RoutingNext]_routingVars
    BY Zenon DEF ServicesNext
  <2>2. UNCHANGED ServicesVars => UNCHANGED routingVars
    BY Zenon DEF ServicesVars
  <2> QED BY <2>1, <2>2
<1> QED BY <1>1, <1>2, PTL DEF ServicesSpec, ServicesVars, RoutingSpec

(* In every behaviour of the whole the semantic cache run as specified. *)
LEMMA CacheRuns == ServicesSpec => CacheSpec
<1>1. ServicesInit => CacheInit
  BY DEF ServicesInit
<1>2. [ServicesNext]_ServicesVars => [CacheNext]_cacheVars
  <2>1. ServicesNext => [CacheNext]_cacheVars
    BY Zenon DEF ServicesNext
  <2>2. UNCHANGED ServicesVars => UNCHANGED cacheVars
    BY Zenon DEF ServicesVars
  <2> QED BY <2>1, <2>2
<1> QED BY <1>1, <1>2, PTL DEF ServicesSpec, ServicesVars, CacheSpec

(* In every behaviour of the whole the retrieval pipeline run as specified. *)
LEMMA RetrievalRuns == ServicesSpec => RetrievalSpec
<1>1. ServicesInit => RetrievalInit
  BY DEF ServicesInit
<1>2. [ServicesNext]_ServicesVars => [RetrievalNext]_retrievalVars
  <2>1. ServicesNext => [RetrievalNext]_retrievalVars
    BY Zenon DEF ServicesNext
  <2>2. UNCHANGED ServicesVars => UNCHANGED retrievalVars
    BY Zenon DEF ServicesVars
  <2> QED BY <2>1, <2>2
<1> QED BY <1>1, <1>2, PTL DEF ServicesSpec, ServicesVars, RetrievalSpec

(* In every behaviour of the whole the process run as specified. *)
LEMMA LifecycleRuns == ServicesSpec => LifecycleSpec
<1>1. ServicesInit => LifecycleInit
  BY DEF ServicesInit
<1>2. [ServicesNext]_ServicesVars => [LifecycleNext]_lifecycleVars
  <2>1. ServicesNext => [LifecycleNext]_lifecycleVars
    BY Zenon DEF ServicesNext
  <2>2. UNCHANGED ServicesVars => UNCHANGED lifecycleVars
    BY Zenon DEF ServicesVars
  <2> QED BY <2>1, <2>2
<1> QED BY <1>1, <1>2, PTL DEF ServicesSpec, ServicesVars, LifecycleSpec

(* In every behaviour of the whole the indexing of documents run as specified. *)
LEMMA IndexingRuns == ServicesSpec => IndexingSpec
<1>1. ServicesInit => IndexingInit
  BY DEF ServicesInit
<1>2. [ServicesNext]_ServicesVars => [IndexingNext]_indexingVars
  <2>1. ServicesNext => [IndexingNext]_indexingVars
    BY Zenon DEF ServicesNext
  <2>2. UNCHANGED ServicesVars => UNCHANGED indexingVars
    BY Zenon DEF ServicesVars
  <2> QED BY <2>1, <2>2
<1> QED BY <1>1, <1>2, PTL DEF ServicesSpec, ServicesVars, IndexingSpec

(* In every behaviour of the whole the screens of the chats run as specified. *)
LEMMA ScreenRuns == ServicesSpec => ScreenSpec
<1>1. ServicesInit => ScreenInit
  BY DEF ServicesInit
<1>2. [ServicesNext]_ServicesVars => [ScreenNext]_screenVars
  <2>1. ServicesNext => [ScreenNext]_screenVars
    BY Zenon DEF ServicesNext
  <2>2. UNCHANGED ServicesVars => UNCHANGED screenVars
    BY Zenon DEF ServicesVars
  <2> QED BY <2>1, <2>2
<1> QED BY <1>1, <1>2, PTL DEF ServicesSpec, ServicesVars, ScreenSpec

(* In every behaviour of the whole the tool calls of a model run as specified. *)
LEMMA ToolRuns == ServicesSpec => ToolSpec
<1>1. ServicesInit => ToolInit
  BY DEF ServicesInit
<1>2. [ServicesNext]_ServicesVars => [ToolNext]_toolVars
  <2>1. ServicesNext => [ToolNext]_toolVars
    BY Zenon DEF ServicesNext
  <2>2. UNCHANGED ServicesVars => UNCHANGED toolVars
    BY Zenon DEF ServicesVars
  <2> QED BY <2>1, <2>2
<1> QED BY <1>1, <1>2, PTL DEF ServicesSpec, ServicesVars, ToolSpec

(* In every behaviour of the whole the records of the chats run as specified. *)
LEMMA RecordsRuns == ServicesSpec => RecordsSpec
<1>1. ServicesInit => RecordsInit
  BY DEF ServicesInit
<1>2. [ServicesNext]_ServicesVars => [RecordsNext]_recordsVars
  <2>1. ServicesNext => [RecordsNext]_recordsVars
    BY Zenon DEF ServicesNext
  <2>2. UNCHANGED ServicesVars => UNCHANGED recordsVars
    BY Zenon DEF ServicesVars
  <2> QED BY <2>1, <2>2
<1> QED BY <1>1, <1>2, PTL DEF ServicesSpec, ServicesVars, RecordsSpec

(* The parts share no state: each behaves in the whole as it does alone. *)
THEOREM PartsRunAsSpecified ==
  ServicesSpec => /\ RoutingSpec /\ CacheSpec /\ RetrievalSpec /\ LifecycleSpec
                  /\ IndexingSpec /\ ScreenSpec /\ ToolSpec /\ RecordsSpec
BY RoutingRuns, CacheRuns, RetrievalRuns, LifecycleRuns, IndexingRuns, ScreenRuns, ToolRuns, RecordsRuns

(* Type correctness of every part, whichever of them moves. *)
THEOREM TypesHold == ServicesSpec => []TypeOK
<1>1. ServicesSpec => []ToolTypeOK
  BY ToolRuns, CallsHeard, PTL
<1>2. RoutingTypeOK /\ CacheTypeOK /\ RetrievalTypeOK /\ LifecycleTypeOK
      /\ IndexingTypeOK /\ ScreenTypeOK /\ ToolTypeOK /\ RecordsTypeOK => TypeOK
  BY DEF TypeOK
<1> QED BY <1>1, <1>2, PartsRunAsSpecified, RoutingTypeCorrect, CacheTypeCorrect, RetrievalTyped,
           LifecycleTyped, TablesConsistent, ScreenTypes, RecordsTypeCorrect, PTL
=============================================================================
