------------------------------ MODULE Indexing ------------------------------
(***************************************************************************)
(* The documents' endpoints of the agent service and what stands behind    *)
(* them: the documents table of BM25IndexBuilder, the vector store's       *)
(* chunks, and the facts that FactsExtractor keeps of a document.  Nothing *)
(* spans the three: every await is a step, other requests come in between, *)
(* and any of them may fail, before or after it took effect.               *)
(*                                                                         *)
(* A content is the sequence of its pieces and is its own hash.            *)
(***************************************************************************)
EXTENDS Naturals, FiniteSets, SequencesExt

CONSTANTS
  Requests,
  Users,
  Contents,   \* what requests carry
  Loads,      \* the lists of chunks given to index_chunks
  MaxFacts,
  Installs    \* see IndexingTypeOK

ASSUME IndexingAssumption ==
  /\ MaxFacts \in Nat
  /\ \A l \in Loads : \A c \in l : c.doc \in Nat /\ c.index \in Nat
  /\ \A i \in Installs : /\ i.extractor \in {"off", "ready", "raises"}
                         /\ {i.pool, i.vector, i.columns} \subseteq BOOLEAN

VARIABLES
  install,    \* which parts the service has; never changes
  users,
  docs,       \* the documents table: unique ids, unique contents
  chunks,     \* the vector store, by chunk id
  facts,      \* documents_facts: every row's document is in docs
  lastDoc,    \* the ids that uuid4 has given out are 1..lastDoc
  request

indexingVars == <<install, users, docs, chunks, facts, lastDoc, request>>

stores == <<users, docs, chunks, facts>>

Row(id) == {d \in docs : d.id = id}

NoRequest == [at |-> "idle", op |-> "none", doc |-> 0, content |-> <<>>, user |-> CHOOSE u \in Users : TRUE,
         bm25 |-> "off", vector |-> "off", did |-> {}, code |-> 0, status |-> "none"]

IndexingInit ==
  /\ install \in Installs
  /\ users = {} /\ docs = {} /\ chunks = {} /\ facts = {} /\ lastDoc = 0
  /\ request = [r \in Requests |-> NoRequest]

Goes(r, at) == request' = [request EXCEPT ![r].at = at]
Answered(req, code, status) == [req EXCEPT !.at = "done", !.code = code, !.status = status]
Ends(r, code, status) == request' = [request EXCEPT ![r] = Answered(@, code, status)]

-----------------------------------------------------------------------------
(* The tables.                                                             *)

(* Variant: the row takes the new document's id. *)
UpsertTakesId(table, new) ==
  IF \E d \in table : d.content = new.content
  THEN {d \in table : d.content # new.content} \cup {new}
  ELSE table \cup {new}

(* INSERT ... ON CONFLICT (content_hash) DO UPDATE: the row that has this
   content keeps its id and its user; where it came from is not modelled. *)
Upsert(table, new) ==
  IF \E d \in table : d.content = new.content THEN table ELSE table \cup {new}

(* The insert is refused if the id is taken by another content. *)
Insertable(table, new) ==
  \/ \E d \in table : d.content = new.content
  \/ \A d \in table : d.id # new.id

Document(id, user, content) == [id |-> id, user |-> user, content |-> content]

(* The writer of get_vector_writer: chunks are replaced by their ids. *)
WithChunks(doc, content) ==
  {c \in chunks : ~(c.doc = doc /\ c.n \in DOMAIN content)}
    \cup {[doc |-> doc, n |-> i, text |-> content[i]] : i \in DOMAIN content}

(* A row's facts go with it. *)
DeleteRow(id) ==
  /\ docs' = docs \ Row(id)
  /\ facts' = {f \in facts : f.doc # id}

-----------------------------------------------------------------------------
(* POST /documents.                                                        *)

IngestArrives(r) ==
  /\ request[r].at = "idle"
  /\ \E user \in Users, content \in Contents :
       LET req == [request[r] EXCEPT !.op = "ingest", !.content = content, !.user = user] IN
       IF ~install.pool
       THEN /\ request' = [request EXCEPT ![r] = Answered(req, 503, "none")]
            /\ UNCHANGED <<users, lastDoc>>
       ELSE \/ /\ users' = users \cup {user}
               /\ lastDoc' = lastDoc + 1
               /\ request' = [request EXCEPT ![r] =
                    IF install.extractor = "raises" THEN Answered(req, 500, "none")
                    ELSE [req EXCEPT !.at = "legs", !.doc = lastDoc', !.bm25 = "asked",
                                     !.vector = IF install.vector THEN "asked" ELSE "off"]]
            \/ /\ request' = [request EXCEPT ![r] = Answered(req, 500, "none")]
               /\ UNCHANGED <<users, lastDoc>>
  /\ UNCHANGED <<install, docs, chunks, facts>>

(* BM25IndexBuilder.index_document; the answer to a write may be lost. *)
Bm25Leg(r) ==
  /\ request[r].at = "legs" /\ request[r].bm25 = "asked"
  /\ LET req == request[r]
         new == Document(req.doc, req.user, req.content)
     IN  \/ /\ Insertable(docs, new)
            /\ docs' = Upsert(docs, new)
            /\ \E how \in {"ok", "failed"} :
                 request' = [request EXCEPT ![r].bm25 = how, ![r].did = @ \cup {"row"}]
         \/ request' = [request EXCEPT ![r].bm25 = "failed"] /\ UNCHANGED docs
  /\ UNCHANGED <<install, users, chunks, facts, lastDoc>>

VectorLeg(r) ==
  /\ request[r].at = "legs" /\ request[r].vector = "asked"
  /\ \/ /\ chunks' = WithChunks(request[r].doc, request[r].content)
        /\ \E how \in {"ok", "failed"} :
             request' = [request EXCEPT ![r].vector = how, ![r].did = @ \cup {"chunks"}]
     \/ request' = [request EXCEPT ![r].vector = "failed"] /\ UNCHANGED chunks
  /\ UNCHANGED <<install, users, docs, facts, lastDoc>>

(* asyncio.gather is through; FactsExtractor looks for facts of this id.  It
   goes on to the model unless there are some or there is no content. *)
GatherLegs(r) ==
  /\ request[r].at = "legs" /\ "asked" \notin {request[r].bm25, request[r].vector}
  /\ \/ /\ install.extractor = "ready" /\ request[r].content # <<>>
        /\ \A f \in facts : f.doc # request[r].doc
        /\ Goes(r, "extracting")
     \/ Goes(r, "extracted")
  /\ UNCHANGED <<install, stores, lastDoc>>

(* The model's facts are embedded and committed: at most MaxFacts of them, and
   for a row only that is there.  Everything that fails on the way is logged. *)
ExtractFacts(r) ==
  /\ request[r].at = "extracting"
  /\ \/ /\ Row(request[r].doc) # {}
        /\ \E n \in 0..MaxFacts :
             facts' = facts \cup {[doc |-> request[r].doc, of |-> request[r].content, n |-> i] : i \in 1..n}
     \/ UNCHANGED facts
  /\ Goes(r, "extracted")
  /\ UNCHANGED <<install, users, docs, chunks, lastDoc>>

(* Variant: one failed leg is enough to raise. *)
OneLegRaises(req) == req.bm25 = "failed" \/ req.vector = "failed"

(* index_document_with_hybrid raises what the BM25 leg did. *)
AllLegsFailed(req) == req.bm25 = "failed" /\ req.vector # "ok"

AnswerIngest(r) ==
  /\ request[r].at = "extracted"
  /\ IF AllLegsFailed(request[r]) THEN Ends(r, 500, "none")
     ELSE Ends(r, 201, IF request[r].vector = "failed" THEN "partial" ELSE "indexed")
  /\ UNCHANGED <<install, stores, lastDoc>>

-----------------------------------------------------------------------------
(* DELETE and PUT /documents/{id}.                                         *)

(* The row is looked up, unless the database fails. *)
ChangeArrives(r, op) ==
  /\ request[r].at = "idle"
  /\ \E id \in 0..lastDoc, content \in Contents, up \in BOOLEAN :
       LET req == [request[r] EXCEPT !.op = op, !.doc = id,
                                     !.content = IF op = "update" THEN content ELSE <<>>] IN
       request' = [request EXCEPT ![r] =
         IF ~install.pool THEN Answered(req, 503, "none")
         ELSE IF ~up \/ (op = "update" /\ install.extractor = "raises") THEN Answered(req, 500, "none")
         ELSE IF Row(id) = {} THEN Answered(req, 404, "none")
         ELSE [req EXCEPT !.at = "found"]]
  /\ UNCHANGED <<install, stores, lastDoc>>

(* invalidate_doc of the cache comes before the change. *)
InvalidateDoc(r) ==
  /\ request[r].at = "found"
  /\ \/ request' = [request EXCEPT ![r].at = "invalidated", ![r].did = {"invalidated"}]
     \/ Ends(r, 500, "none")
  /\ UNCHANGED <<install, stores, lastDoc>>

DeleteDocument(r) ==
  /\ request[r].at = "invalidated" /\ request[r].op = "delete"
  /\ \/ DeleteRow(request[r].doc) /\ Ends(r, 200, "deleted")
     \/ UNCHANGED <<docs, facts>> /\ Ends(r, 500, "none")
  /\ UNCHANGED <<install, users, chunks, lastDoc>>

DeleteFacts(r) ==
  /\ request[r].at = "invalidated" /\ request[r].op = "update"
  /\ \/ facts' = {f \in facts : f.doc # request[r].doc} /\ Goes(r, "cleared")
     \/ UNCHANGED facts /\ Ends(r, 500, "none")
  /\ UNCHANGED <<install, users, docs, chunks, lastDoc>>

(* UPDATE documents SET ... indexed_at, meta: refused by a table without these
   columns, and where the content is already another row's. *)
UpdateRow(r) ==
  /\ request[r].at = "cleared"
  /\ LET req == request[r] IN
     \/ /\ install.columns
        /\ \A d \in docs : d.content = req.content => d.id = req.doc
        /\ docs' = {IF d.id = req.doc THEN [d EXCEPT !.content = req.content] ELSE d : d \in docs}
        /\ Goes(r, "updated")
     \/ UNCHANGED docs /\ Ends(r, 500, "none")
  /\ UNCHANGED <<install, users, chunks, facts, lastDoc>>

(* The new chunks replace those of the same numbers: the writer has no _store
   to clean up in.  The facts are not extracted anew, a pool is no session.
   Neither failure shows in the answer. *)
Reindex(r) ==
  /\ request[r].at = "updated"
  /\ \/ install.vector /\ chunks' = WithChunks(request[r].doc, request[r].content)
     \/ UNCHANGED chunks
  /\ Ends(r, 200, "updated")
  /\ UNCHANGED <<install, users, docs, facts, lastDoc>>

-----------------------------------------------------------------------------
(* BM25IndexBuilder.index_chunks: the chunks of a document, joined in their
   order, are its content; one transaction takes all the documents.        *)

Joined(load, id) ==
  LET own == {c \in load : c.doc = id}
      ordered == SetToSortSeq(own, LAMBDA a, b : a.index < b.index)
  IN  [i \in DOMAIN ordered |-> ordered[i].text]

(* Documents in the order of their ids, each upserted: a content that is in
   the table or came before has its row, an id that is taken refuses them all. *)
IndexChunks ==
  /\ install.pool /\ users # {}
  /\ \E load \in Loads, user \in users :
       LET ids == {c.doc : c \in load}
           fresh == {id \in ids : /\ \A d \in docs : d.content # Joined(load, id)
                                 /\ \A other \in ids : Joined(load, other) = Joined(load, id) => id <= other}
       IN  /\ \A id \in fresh : Row(id) = {}
           /\ docs' = docs \cup {Document(id, user, Joined(load, id)) : id \in fresh}
  /\ UNCHANGED <<install, users, chunks, facts, lastDoc, request>>

IndexingNext ==
  \/ \E r \in Requests :
       \/ IngestArrives(r) \/ Bm25Leg(r) \/ VectorLeg(r) \/ GatherLegs(r) \/ ExtractFacts(r) \/ AnswerIngest(r)
       \/ ChangeArrives(r, "delete") \/ ChangeArrives(r, "update") \/ InvalidateDoc(r)
       \/ DeleteDocument(r) \/ DeleteFacts(r) \/ UpdateRow(r) \/ Reindex(r)
  \/ IndexChunks

IndexingSpec == IndexingInit /\ [][IndexingNext]_indexingVars

-----------------------------------------------------------------------------
(* Type correctness of the stores and requests; ids and contents are unique
   and facts have their document, as the tables' constraints demand. *)
IndexingTypeOK ==
  /\ install.extractor \in {"off", "ready", "raises"} /\ {install.pool, install.vector, install.columns} \subseteq BOOLEAN
  /\ \A d, e \in docs : (d.id = e.id \/ d.content = e.content) => d = e
  /\ {d.user : d \in docs} \subseteq users /\ users \subseteq Users
  /\ {f.doc : f \in facts} \subseteq {d.id : d \in docs}
  /\ \A c, e \in chunks : (c.doc = e.doc /\ c.n = e.n) => c = e
  /\ \A r \in Requests : request[r].code \in {0, 200, 201, 404, 500, 503}

(* What an ingest claims it has done it did: a leg that is reported as indexed
   was written, and an ingest that answers that indexing failed is not one
   that either leg has confirmed.  Under interleaved requests, failed legs and
   writes whose answer was lost. *)
IngestTellsTruth ==
  \A r \in Requests : LET req == request[r] IN
    (req.op = "ingest" /\ req.at = "done") =>
      /\ req.bm25 = "ok" => "row" \in req.did
      /\ req.vector = "ok" => "chunks" \in req.did
      /\ req.code = 201 => "ok" \in {req.bm25, req.vector}
      /\ req.code = 500 => "ok" \notin {req.bm25, req.vector}
      /\ (req.status = "indexed" /\ install.vector) => "chunks" \in req.did

(* No document loses its row or its content unless a request under way has
   told the semantic cache so before: re-ingesting or loading a content again
   never takes a row away. *)
ContentChangesAnnounced ==
  [][\A d \in docs : (\A e \in docs' : <<e.id, e.content>> # <<d.id, d.content>>) =>
       \E r \in Requests : /\ request[r].at # "done" /\ request[r].doc = d.id
                           /\ "invalidated" \in request[r].did]_indexingVars
=============================================================================
