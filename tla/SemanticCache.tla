---------------------------- MODULE SemanticCache ----------------------------
(***************************************************************************)
(* The semantic answer cache: LLM calls that look an answer up and store   *)
(* theirs in the background, and the endpoints that delete or update a     *)
(* document and mark the answers that refer to it as stale first.  All of  *)
(* them meet in Redis, one command or one transaction at a time.           *)
(*                                                                         *)
(* A question stands for its embedding, and so for the key of its entry;   *)
(* Score gives the similarity of two.  A SCAN visits Redis' buckets in a   *)
(* fixed order; a bucket may hold no key that matches.                     *)
(***************************************************************************)
EXTENDS Integers, Sequences

CONSTANTS
  Questions, Docs,
  Readers,     \* LLM calls
  Markers,     \* requests that delete or update a document
  Buckets,     \* Buckets[i]: the questions whose keys the i-th SCAN may return
  Score,       \* Score[q, k]: cosine similarity in percent
  Threshold,   \* semantic_cache_similarity_threshold
  Leftovers,   \* sets of questions whose answers an earlier process left in Redis
  MaxEvictions \* bound: how many keys Redis drops (TTL, allkeys-lru)

(* An answer is known by the call that computed it. *)
Earlier == "earlier"

(* A SCAN from the start comes to every key that stays, as Redis guarantees. *)
ASSUME CacheAssumption ==
  /\ Leftovers \subseteq SUBSET Questions /\ Buckets \in Seq(SUBSET Questions) /\ Buckets # <<>>
  /\ \A q \in Questions : \E i \in DOMAIN Buckets : q \in Buckets[i]
  /\ Score \in [Questions \X Questions -> 0..100] /\ Threshold \in 1..100 /\ MaxEvictions \in Nat
  /\ Earlier \notin Readers

VARIABLES
  cacheOn,    \* semantic_cache_enabled; never changes
  embeddings, \* the questions that have a sem_cache:emb key
  answers,    \* the sem_cache:ans keys: set of entries, one per question at most
  documents,  \* the rows of the documents table
  reader, marker, evictions

cacheVars == <<cacheOn, embeddings, answers, documents, reader, marker, evictions>>

Entry(q, r, refs) == [q |-> q, by |-> r, refs |-> refs, stale |-> FALSE]
EntryOf(q) == {e \in answers : e.q = q}
Stored(entries) == {e \in answers : \A f \in entries : f.q # e.q} \cup entries

Asleep == [at |-> "idle", q |-> {}, refs |-> {}, page |-> 1, best |-> {}]
Over == [at |-> "done", q |-> {}, refs |-> {}, page |-> 1, best |-> {}]
Miss == [at |-> "calling", best |-> {}, page |-> 1]
Waiting == [at |-> "idle", doc |-> {}, page |-> 1, keys |-> {}, copy |-> {}, before |-> {}]

CacheInit ==
  /\ cacheOn \in BOOLEAN /\ documents = Docs
  /\ \E left \in Leftovers : /\ embeddings = left
                            /\ answers = {Entry(q, Earlier, Docs) : q \in left}
  /\ evictions = 0
  /\ reader = [r \in Readers |-> Asleep]
  /\ marker = [m \in Markers |-> Waiting]

With(rec, changes) == [f \in DOMAIN rec |-> IF f \in DOMAIN changes THEN changes[f] ELSE rec[f]]
Read(r, changes) == reader' = [reader EXCEPT ![r] = With(@, changes)]
Mark(m, changes) == marker' = [marker EXCEPT ![m] = With(@, changes)]

-----------------------------------------------------------------------------
(* CacheAwareLLMClient and, once tools are bound, CacheAwareBoundModel:    *)
(* ainvoke, which the planner calls.                                       *)

(* The documents whose chunks the tool messages of the call carry: without
   any, or without a cache, the model is just called. *)
Cacheable(refs) == cacheOn /\ refs # {}

Ask(r) ==
  /\ reader[r].at = "idle"
  /\ \E q \in Questions, refs \in SUBSET documents :
       Read(r, [q |-> {q}, refs |-> refs,
                at |-> IF Cacheable(refs) THEN "looking" ELSE "plain"])
  /\ UNCHANGED <<cacheOn, embeddings, answers, documents, marker, evictions>>

(* The best key so far after those of one page: a later one must be better. *)
Better(q, best, keys) ==
  LET scored == {k \in keys : Score[q, k] > 0 /\ \A b \in best : Score[q, k] > Score[q, b]} IN
  IF scored = {} THEN best ELSE {CHOOSE k \in scored : \A j \in scored : Score[q, k] >= Score[q, j]}

(* SemanticAnswerCache.get: one SCAN with its MGET.  The bytes under a key
   never change, so what happens between the two makes no difference. *)
LookupPage(r) ==
  /\ reader[r].at = "looking"
  /\ LET s == reader[r]
         q == CHOOSE x \in s.q : TRUE
         best == Better(q, s.best, Buckets[s.page] \cap embeddings)
         close == best # {} /\ \A b \in best : Score[q, b] >= Threshold
     IN  Read(r, CASE s.page < Len(Buckets) -> [best |-> best, page |-> s.page + 1]
                   [] close -> [best |-> best, page |-> 1, at |-> "fetching"]
                   [] OTHER -> Miss)
  /\ UNCHANGED <<cacheOn, embeddings, answers, documents, marker, evictions>>

(* The answer of the best key: evicted or stale ones are misses. *)
FetchAnswer(r) ==
  /\ reader[r].at = "fetching"
  /\ LET found == {e \in answers : e.q \in reader[r].best /\ ~e.stale} IN
     Read(r, IF found = {} THEN Miss ELSE [at |-> "hit"])
  /\ UNCHANGED <<cacheOn, embeddings, answers, documents, marker, evictions>>

(* The model answers: the put is left to a background task.  A call that
   fails or is cancelled stores nothing. *)
CallModel(r) ==
  /\ reader[r].at \in {"calling", "plain"}
  /\ \E ok \in BOOLEAN :
       Read(r, IF ok /\ reader[r].at = "calling" THEN [at |-> "storing"] ELSE Over)
  /\ UNCHANGED <<cacheOn, embeddings, answers, documents, marker, evictions>>

(* put: both keys in one transaction; a failure stays in the task. *)
Put(r) ==
  /\ reader[r].at = "storing"
  /\ embeddings' = embeddings \cup reader[r].q
  /\ answers' = Stored({Entry(q, r, reader[r].refs) : q \in reader[r].q})
  /\ Read(r, Over)
  /\ UNCHANGED <<cacheOn, documents, marker, evictions>>

PutFails(r) ==
  /\ reader[r].at = "storing" /\ Read(r, Over)
  /\ UNCHANGED <<cacheOn, embeddings, answers, documents, marker, evictions>>

-----------------------------------------------------------------------------
(* delete_document and update_document: the row must exist, the cache is    *)
(* invalidated, then the row changes.                                      *)

(* invalidate_doc: without a cache there is nothing to mark. *)
Invalidation(d) ==
  [at |-> IF cacheOn THEN "scanning" ELSE "changing", doc |-> {d},
   before |-> {e.by : e \in {f \in answers : d \in f.refs}}]

RequestChange(m) ==
  /\ marker[m].at = "idle"
  /\ \E d \in Docs :
       Mark(m, IF d \in documents THEN Invalidation(d) ELSE [at |-> "not found"])
  /\ UNCHANGED <<cacheOn, embeddings, answers, documents, reader, evictions>>

NextPage(m) == IF marker[m].page < Len(Buckets) THEN "scanning" ELSE "changing"

(* Variant: an empty page ends the scan. *)
ScanStopsWhenEmpty(m) ==
  /\ marker[m].at = "scanning"
  /\ LET keys == {e.q : e \in answers} \cap Buckets[marker[m].page] IN
     Mark(m, IF keys = {} THEN [at |-> "changing"] ELSE [at |-> "reading", keys |-> keys])
  /\ UNCHANGED <<cacheOn, embeddings, answers, documents, reader, evictions>>

(* mark_stale: a page of keys; an empty one only moves the cursor. *)
ScanPage(m) ==
  /\ marker[m].at = "scanning"
  /\ LET keys == {e.q : e \in answers} \cap Buckets[marker[m].page] IN
     Mark(m, IF keys = {} THEN [at |-> NextPage(m), page |-> marker[m].page + 1]
             ELSE [at |-> "reading", keys |-> keys])
  /\ UNCHANGED <<cacheOn, embeddings, answers, documents, reader, evictions>>

(* MGET: the whole entries that refer to the document, marked in memory. *)
ReadPage(m) ==
  /\ marker[m].at = "reading"
  /\ LET found == {e \in answers : e.q \in marker[m].keys /\ marker[m].doc \subseteq e.refs} IN
     Mark(m, [at |-> "writing", copy |-> {[e EXCEPT !.stale = TRUE] : e \in found}])
  /\ UNCHANGED <<cacheOn, embeddings, answers, documents, reader, evictions>>

(* The transaction writes them back over whatever is there by now. *)
WritePage(m) ==
  /\ marker[m].at = "writing"
  /\ answers' = Stored(marker[m].copy)
  /\ Mark(m, [at |-> NextPage(m), page |-> marker[m].page + 1, keys |-> {}, copy |-> {}])
  /\ UNCHANGED <<cacheOn, embeddings, documents, reader, evictions>>

(* The row is deleted, or rewritten under the same id; the statement may fail. *)
ChangeDocument(m) ==
  /\ marker[m].at = "changing"
  /\ \/ documents' = documents \ marker[m].doc
     \/ UNCHANGED documents
  /\ Mark(m, [at |-> "done"])
  /\ UNCHANGED <<cacheOn, embeddings, answers, reader, evictions>>

(* Redis drops a key of its own accord. *)
EvictKey ==
  /\ evictions < MaxEvictions /\ evictions' = evictions + 1
  /\ \E q \in Questions :
       \/ q \in embeddings /\ embeddings' = embeddings \ {q} /\ UNCHANGED answers
       \/ EntryOf(q) # {} /\ answers' = answers \ EntryOf(q) /\ UNCHANGED embeddings
  /\ UNCHANGED <<cacheOn, documents, reader, marker>>

CacheNext ==
  \/ \E r \in Readers : Ask(r) \/ LookupPage(r) \/ FetchAnswer(r) \/ CallModel(r) \/ Put(r) \/ PutFails(r)
  \/ \E m \in Markers : RequestChange(m) \/ ScanPage(m) \/ ReadPage(m) \/ WritePage(m) \/ ChangeDocument(m)
  \/ EvictKey

CacheSpec == CacheInit /\ [][CacheNext]_cacheVars

-----------------------------------------------------------------------------
(* Type correctness of the cache's state, with at most one entry a question. *)
CacheTypeOK ==
  /\ embeddings \subseteq Questions /\ documents \subseteq Docs /\ evictions \in 0..MaxEvictions
  /\ answers \subseteq [q : Questions, by : Readers \cup {Earlier}, refs : SUBSET Docs, stale : BOOLEAN]
  /\ \A e, f \in answers : e.q = f.q => e = f
  /\ \A r \in Readers : reader[r].at \in {"idle", "plain", "looking", "fetching", "calling", "storing", "hit", "done"}
  /\ \A m \in Markers : marker[m].at \in {"idle", "not found", "scanning", "reading", "writing", "changing", "done"}

(* When mark_stale has gone through, no answer that was stored before it began
   and refers to the document is fresh: whichever pages were empty, whatever
   puts, evictions and other markings happened meanwhile.  (With the cache off
   nothing is marked, and what Redis still holds stays fresh.) *)
MarkReachesAll ==
  cacheOn => \A m \in Markers : marker[m].at \in {"changing", "done"} =>
    \A e \in answers : e.by \in marker[m].before => e.stale
=============================================================================
