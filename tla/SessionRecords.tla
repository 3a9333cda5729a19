---------------------------- MODULE SessionRecords ----------------------------
(***************************************************************************)
(* What the runs of one session leave behind: the runtime context that a   *)
(* cancel's forensic record is made of, in the process and mirrored in     *)
(* Redis; the answers and tool results kept in the messages table; and the *)
(* files that file_export puts into S3.  All of them are written while the *)
(* run may be cancelled, and two runs of a session write the same context. *)
(*                                                                         *)
(* A runtime context is one object that the run keeps changing, so the     *)
(* registry is the turn it belongs to; the mirror is a copy.  Sessions'    *)
(* rows are never removed, so ensure_chat_parents and the insert after it  *)
(* are one step.  The user's own message is kept by a task of its own,     *)
(* which meets none of this and is left out.                               *)
(***************************************************************************)
EXTENDS Naturals, SequencesExt, TLC

CONSTANTS
  LastTurn,    \* bound: the chats of the session, in the order they are started
  Scenarios    \* see Scenario

ASSUME RecordsAssumption == LastTurn \in Nat \ {0}

Turns == 1..LastTurn

(* What a chat's graph yields: its nodes' chunks, with the formats of the files
   that its tool calls export.  `missing` is what GET answers for a key that
   the storage does not have: 404 from the local one, 500 from S3. *)
Yields == [node : {"planner", "tool_executor", "rag_retriever", "final_answer"}, text : BOOLEAN,
           exports : Seq({"fast", "slow"})]
Scenario == [pool : BOOLEAN, missing : {404, 500}, fails : Nat, prompts : SUBSET Turns,
             script : Seq(Seq(Yields))]

ASSUME ScenariosAssumption == \A s \in Scenarios : s \in Scenario /\ Len(s.script) <= LastTurn

VARIABLES
  scenario,    \* prompts, what the graph will yield, and the services at hand; never changes
  job,         \* _run_graph of each turn
  live,        \* runtime_registry: the turn whose context it has, or 0
  mirror,      \* the session's key in Redis: {} or a copy of a context
  rows,        \* the messages table, by turn
  bucket,      \* S3: what is stored of which artifact
  cancelled,   \* turns whose token is cancelled
  hearing,     \* where the listener of each turn stands with a cancel
  told,        \* history: the forensic record made of that cancel, if any
  mishaps      \* calls of Redis, S3 and PostgreSQL that failed; bound: scenario.fails

recordsVars ==
  <<scenario, job, live, mirror, rows, bucket, cancelled, hearing, told, mishaps>>

storeVars == <<rows, bucket>>
cancelVars == <<cancelled, hearing, told>>

-----------------------------------------------------------------------------
(* The runtime context.                                                    *)

NoJob == [at |-> "none", taken |-> 0, size |-> "none", doing |-> 0, results |-> <<>>,
          noted |-> <<>>, kept |-> 0, quits |-> FALSE, struck |-> FALSE, alone |-> FALSE]
Started == {t \in Turns : job[t].at # "none"}
Finished == {t \in Turns : job[t].at \in {"over", "aborted"}}

Context(t, j) == [of |-> t, taken |-> j.taken, size |-> j.size]

(* Into(t, j): turn t's job goes on as j; on entering the stages that forget
   the context the registry is cleared first, whoever's context it has. *)
Into(t, j) ==
  /\ job' = [job EXCEPT ![t] = j]
  /\ live' = IF j.at \in {"forgetting", "clearing"} /\ j.at # job[t].at THEN 0 ELSE live

Mishap == mishaps < scenario.fails /\ mishaps' = mishaps + 1

(* save_runtime_context and delete_runtime_context: a failure is ignored, and
   what failed may have been done. *)
SetMirror(copy) ==
  \/ mirror' = copy /\ UNCHANGED mishaps
  \/ mirror' \in {mirror, copy} /\ Mishap

(* _update_runtime_from_chunk: the size is of the last text that there was. *)
Updates(j, chunk) ==
  [j EXCEPT !.taken = @ + 1, !.size = IF chunk.text THEN "chunk" ELSE @]

-----------------------------------------------------------------------------
(* The finally block.                                                      *)

AfterAnswer(j) == [j EXCEPT !.at = IF j.noted # <<>> THEN "tools" ELSE "clearing"]

Finally(j) ==
  LET left == [j EXCEPT !.doing = 0, !.results = <<>>] IN
  IF j.size # "none" THEN [left EXCEPT !.at = "answer"] ELSE AfterAnswer(left)

(* insert_message behind ensure_chat_parents, which raises without a pool. *)
Insert(t, kind, row, ok) ==
  LET with == [rows EXCEPT ![t][kind] = Append(@, row)] IN
  /\ ok => scenario.pool
  /\ IF ok THEN rows' = with /\ UNCHANGED mishaps
     ELSE IF scenario.pool THEN rows' \in {rows, with} /\ Mishap
     ELSE UNCHANGED <<rows, mishaps>>

(* _persist_assistant_final_answer: of the partial answer (the prompt, in fact),
   then of the size that the context has. *)
KeepAnswer(t) ==
  /\ job[t].at \in {"partial", "answer"}
  /\ \E ok \in BOOLEAN : Insert(t, "answers", job[t].at, ok)
  /\ Into(t, IF job[t].at = "partial" THEN Finally(job[t]) ELSE AfterAnswer(job[t]))
  /\ UNCHANGED <<scenario, mirror, bucket, cancelVars>>

(* _persist_tool_messages: one result; a failure ends it.  Its own finally
   forgets the context. *)
KeepTool(t) ==
  LET j == job[t] IN
  /\ j.at = "tools"
  /\ \E ok \in BOOLEAN :
       /\ Insert(t, "tools", j.noted[j.kept + 1], ok)
       /\ Into(t, [j EXCEPT !.kept = IF ok THEN @ + 1 ELSE @,
                            !.at = IF ok /\ j.kept + 1 < Len(j.noted) THEN @ ELSE "forgetting"])
  /\ UNCHANGED <<scenario, mirror, bucket, cancelVars>>

(* Variant: only _persist_tool_messages deletes the mirror. *)
DeleteMirrorOnce(t) ==
  /\ job[t].at \in {"forgetting", "clearing"}
  /\ IF job[t].at = "forgetting" THEN SetMirror({}) ELSE UNCHANGED <<mirror, mishaps>>
  /\ Into(t, [job[t] EXCEPT !.at = IF @ = "clearing" THEN "over"
                                   ELSE IF job[t].quits THEN "aborted" ELSE "clearing"])
  /\ UNCHANGED <<scenario, storeVars, cancelVars>>

(* The mirror is deleted: by _persist_tool_messages, then by _run_graph. *)
DeleteMirror(t) ==
  /\ job[t].at \in {"forgetting", "clearing"}
  /\ SetMirror({})
  /\ Into(t, [job[t] EXCEPT !.at = IF @ = "clearing" THEN "over"
                                   ELSE IF job[t].quits THEN "aborted" ELSE "clearing"])
  /\ UNCHANGED <<scenario, storeVars, cancelVars>>

-----------------------------------------------------------------------------
(* file_export, which an answer of the planner asks for.                    *)

(* Variant: the sidecar goes first. *)
SidecarFirst == <<"sidecar", "payload">>

UploadOrder == <<"payload", "sidecar">>

(* The chunk that its graph yields next. *)
Due(t) == scenario.script[t][job[t].taken + 1]
More(t) == job[t].taken < Len(scenario.script[t])

(* The artifact under way: known by its turn and its place among the results. *)
Artifact(t) ==
  [turn |-> t, n |-> Len(job[t].noted) + Len(job[t].results) + 1,
   format |-> Due(t).exports[Len(job[t].results) + 1]]

Uploading(t) == bucket \cup {<<Artifact(t), UploadOrder[job[t].doing]>>}
PerhapsUploaded(t) == bucket' \in {bucket} \cup (IF job[t].doing > 0 THEN {Uploading(t)} ELSE {})

(* The next call of the batch: its token check, then the first upload (after two
   seconds for a slow format). *)
StartExport(t) ==
  /\ job[t].at = "graph" /\ More(t) /\ job[t].doing = 0 /\ t \notin cancelled
  /\ Len(job[t].results) < Len(Due(t).exports)
  /\ Into(t, [job[t] EXCEPT !.doing = 1])
  /\ UNCHANGED <<scenario, mirror, storeVars, cancelVars, mishaps>>

(* One object is stored; after the last the tool returns the artifact. *)
Upload(t) ==
  /\ job[t].at = "graph" /\ job[t].doing > 0
  /\ bucket' = Uploading(t)
  /\ Into(t, IF job[t].doing < Len(UploadOrder) THEN [job[t] EXCEPT !.doing = @ + 1]
             ELSE [job[t] EXCEPT !.doing = 0, !.results = Append(@, {Artifact(t)})])
  /\ UNCHANGED <<scenario, mirror, rows, cancelVars, mishaps>>

(* The retries run out, or the call times out: the result is an error. *)
UploadFails(t) ==
  /\ job[t].at = "graph" /\ job[t].doing > 0 /\ Mishap
  /\ PerhapsUploaded(t)
  /\ Into(t, [job[t] EXCEPT !.doing = 0, !.results = Append(@, {})])
  /\ UNCHANGED <<scenario, mirror, rows, cancelVars>>

(* GET /artifacts/{id}. *)
GetArtifact(a) ==
  IF <<a, "sidecar">> \notin bucket THEN scenario.missing
  ELSE IF a.format = "slow" THEN 503
  ELSE IF <<a, "payload">> \notin bucket THEN scenario.missing ELSE 200

(* The artifact's button on the page. *)
Button(a) ==
  LET status == GetArtifact(a) IN
  CASE status = 404 -> "not found" [] status = 200 -> "download" [] OTHER -> "retry"

-----------------------------------------------------------------------------
(* _run_graph.                                                             *)

(* POST chat: the turn's token is registered and its job launched. *)
StartJob(t) ==
  /\ job[t].at = "none" /\ t <= Len(scenario.script) /\ \A u \in Turns : u < t => u \in Started
  /\ Into(t, [NoJob EXCEPT !.at = "begun", !.alone = \A u \in Turns : u < t => u \in Finished])
  /\ UNCHANGED <<scenario, mirror, storeVars, cancelVars, mishaps>>

(* _seed_runtime_from_state: the size is the prompt's. *)
BeginJob(t) ==
  /\ job[t].at = "begun"
  /\ job' = [job EXCEPT ![t].at = "seeded",
                        ![t].size = IF t \in scenario.prompts THEN "prompt" ELSE "none"]
  /\ live' = t
  /\ UNCHANGED <<scenario, mirror, storeVars, cancelVars, mishaps>>

(* The seed is mirrored; the callback is registered and the graph begins. *)
SaveSeed(t) ==
  /\ job[t].at = "seeded"
  /\ SetMirror({Context(t, job[t])})
  /\ Into(t, [job[t] EXCEPT !.at = "graph"])
  /\ UNCHANGED <<scenario, storeVars, cancelVars>>

(* A node is done: its chunk changes the context, which is set anew. *)
TakeChunk(t) ==
  LET j == job[t] IN
  /\ j.at = "graph" /\ More(t) /\ j.doing = 0
  /\ Len(j.results) = Len(Due(t).exports)
  /\ job' = [job EXCEPT ![t] = [Updates(j, Due(t)) EXCEPT !.at = "mirroring"]]
  /\ live' = t
  /\ UNCHANGED <<scenario, mirror, storeVars, cancelVars, mishaps>>

(* It is mirrored and queued, so that the stream announces its artifacts, and
   its tool results are kept for the end. *)
QueueChunk(t) ==
  LET j == job[t] IN
  /\ j.at = "mirroring"
  /\ SetMirror({Context(t, j)})
  /\ Into(t, [j EXCEPT !.at = "graph", !.noted = @ \o j.results, !.results = <<>>])
  /\ UNCHANGED <<scenario, storeVars, cancelVars>>

(* astream is exhausted: nothing is left, or the route after the planner saw
   the token. *)
JobEnds(t) ==
  LET j == job[t] IN
  /\ j.at = "graph" /\ j.doing = 0 /\ j.results = <<>>
  /\ \/ ~More(t)
     \/ t \in cancelled /\ j.taken > 0 /\ scenario.script[t][j.taken].node = "planner"
  /\ Into(t, Finally(j))
  /\ UNCHANGED <<scenario, mirror, storeVars, cancelVars, mishaps>>

(* The LLM or the retrieval raises or times out; a tool's failure is a result. *)
JobFails(t) ==
  /\ job[t].at = "graph" /\ More(t) /\ Due(t).node \in {"planner", "rag_retriever"}
  /\ Into(t, Finally(job[t]))
  /\ UNCHANGED <<scenario, mirror, storeVars, cancelVars, mishaps>>

(* GraphCancelled: a call loses its race with the token, or does not begin.
   The prompt is taken for the partial answer. *)
JobCancelled(t) ==
  LET j == [job[t] EXCEPT !.doing = 0, !.results = <<>>] IN
  /\ job[t].at = "graph" /\ More(t) /\ Due(t).node # "final_answer" /\ t \in cancelled
  /\ PerhapsUploaded(t)
  /\ IF t \in scenario.prompts
     THEN /\ job' = [job EXCEPT ![t] = [j EXCEPT !.at = "noting", !.size = "prompt"]]
          /\ live' = t
     ELSE Into(t, Finally(j))
  /\ UNCHANGED <<scenario, mirror, rows, cancelVars, mishaps>>

NotePartial(t) ==
  /\ job[t].at = "noting"
  /\ SetMirror({Context(t, job[t])})
  /\ Into(t, [job[t] EXCEPT !.at = "partial"])
  /\ UNCHANGED <<scenario, storeVars, cancelVars>>

(* _abort_graph_task: CancelledError, which no `except Exception` catches, at
   the await where the job stands; the call under way may have been done. *)
AbortJob(t) ==
  LET j == [job[t] EXCEPT !.struck = TRUE]
      with == IF j.at = "tools" THEN [rows EXCEPT ![t].tools = Append(@, j.noted[j.kept + 1])]
              ELSE [rows EXCEPT ![t].answers = Append(@, j.at)]
  IN
  /\ t \in cancelled /\ ~job[t].struck
  /\ \/ j.at = "graph" /\ PerhapsUploaded(t) /\ UNCHANGED <<mirror, rows>>
     \/ /\ j.at \in {"mirroring", "noting"}
        /\ mirror' \in {mirror, {Context(t, j)}} /\ UNCHANGED storeVars
     \/ /\ j.at \in {"partial", "answer", "tools"}
        /\ rows' = rows \/ (scenario.pool /\ rows' = with)
        /\ UNCHANGED <<mirror, bucket>>
     \/ j.at \in {"forgetting", "clearing"} /\ mirror' \in {mirror, {}} /\ UNCHANGED storeVars
  /\ Into(t, CASE j.at \in {"graph", "mirroring", "noting", "partial"} -> Finally(j)
               [] j.at = "tools" -> [j EXCEPT !.at = "forgetting", !.quits = TRUE]
               [] OTHER -> [j EXCEPT !.at = "aborted"])
  /\ UNCHANGED <<scenario, cancelVars, mishaps>>

-----------------------------------------------------------------------------
(* The listener of the session, as far as the record goes.                  *)

Busy == \E t \in Turns : hearing[t] \in {"loading", "telling"}

Records(t, says) ==
  /\ told' = [told EXCEPT ![t] = <<says>>]
  /\ hearing' = [hearing EXCEPT ![t] = "telling"]

(* A cancel meets the token of the latest turn: the record is made of what the
   registry has for the session, else of the mirror. *)
Hear(t) ==
  /\ t \in Started /\ \A u \in Started : u <= t
  /\ hearing[t] = "no" /\ ~Busy
  /\ IF live # 0 THEN Records(t, {Context(live, job[live])})
     ELSE hearing' = [hearing EXCEPT ![t] = "loading"] /\ UNCHANGED told
  /\ UNCHANGED <<scenario, job, live, mirror, storeVars, cancelled, mishaps>>

(* load_runtime_context: a failure is as if there were none. *)
LoadMirror(t) ==
  /\ hearing[t] = "loading"
  /\ \/ Records(t, mirror) /\ UNCHANGED mishaps
     \/ Records(t, {}) /\ Mishap
  /\ UNCHANGED <<scenario, job, live, mirror, storeVars, cancelled>>

(* The record is handed over: the token is cancelled. *)
CancelJob(t) ==
  /\ hearing[t] = "telling"
  /\ cancelled' = cancelled \cup {t}
  /\ hearing' = [hearing EXCEPT ![t] = "done"]
  /\ UNCHANGED <<scenario, job, live, mirror, storeVars, told, mishaps>>

(* unsubscribe, at the end of a stream, cuts the listener off. *)
CutOff(t) ==
  /\ hearing[t] \in {"loading", "telling"}
  /\ hearing' = [hearing EXCEPT ![t] = "done"]
  /\ UNCHANGED <<scenario, job, live, mirror, storeVars, cancelled, told, mishaps>>

-----------------------------------------------------------------------------
RecordsInit ==
  /\ scenario \in Scenarios
  /\ job = [t \in Turns |-> NoJob]
  /\ live = 0 /\ mirror = {} /\ bucket = {} /\ cancelled = {} /\ mishaps = 0
  /\ rows = [t \in Turns |-> [answers |-> <<>>, tools |-> <<>>]]
  /\ hearing = [t \in Turns |-> "no"] /\ told = [t \in Turns |-> <<>>]

RecordsNext ==
  \E t \in Turns :
    \/ StartJob(t) \/ BeginJob(t) \/ SaveSeed(t)
    \/ StartExport(t) \/ Upload(t) \/ UploadFails(t) \/ TakeChunk(t) \/ QueueChunk(t)
    \/ JobEnds(t) \/ JobFails(t) \/ JobCancelled(t) \/ NotePartial(t)
    \/ KeepAnswer(t) \/ KeepTool(t) \/ DeleteMirror(t) \/ AbortJob(t)
    \/ Hear(t) \/ LoadMirror(t) \/ CancelJob(t) \/ CutOff(t)

RecordsSpec == RecordsInit /\ [][RecordsNext]_recordsVars

-----------------------------------------------------------------------------
(* Type correctness of what the runs write and of where they stand. *)
RecordsTypeOK ==
  /\ live \in {0} \cup Turns /\ cancelled \subseteq Turns /\ mishaps \in 0..scenario.fails
  /\ \A c \in mirror : c.of \in Turns /\ c.size \in {"none", "prompt", "chunk"}
  /\ \A t \in Turns :
       /\ job[t].at \in {"none", "begun", "seeded", "graph", "mirroring", "noting", "partial", "answer",
                         "tools", "forgetting", "clearing", "over", "aborted"}
       /\ job[t].at # "none" => job[t].taken \in 0..Len(scenario.script[t])
       /\ job[t].kept \in 0..Len(job[t].noted)
       /\ job[t].doing \in 0..Len(UploadOrder)
       /\ hearing[t] \in {"no", "loading", "telling", "done"} /\ Len(told[t]) <= 1

(* What a run announced it leaves behind: its tool results are kept in their
   order and without a gap, all of them when it ends undisturbed; and each
   artifact that the stream announced can be had, or is still said to be made,
   whatever was cancelled or failed: no button ever says it is not there. *)
AnnouncedIsKept ==
  /\ \A t \in Turns :
       /\ IsPrefix(rows[t].tools, job[t].noted)
       /\ job[t].at = "over" /\ scenario.pool /\ mishaps = 0 => rows[t].tools = job[t].noted
       /\ \A i \in DOMAIN job[t].noted : \A a \in job[t].noted[i] :
            Button(a) = IF a.format = "fast" THEN "download" ELSE "retry"
  /\ \A object \in bucket : object[2] = "sidecar" => <<object[1], "payload">> \in bucket

(* The forensic record of a cancel tells where the run was: as the message is
   heard, if the run streams and every earlier run of the session was gone when
   it began; and unless Redis failed it never shows a run that had come to its
   end before. *)
ForensicsTruthful ==
  [][\A t \in Turns : told'[t] # told[t] =>
       /\ hearing[t] = "no" /\ job[t].alone /\ job[t].at \in {"seeded", "graph", "mirroring"} =>
            told'[t] = <<{Context(t, job[t])}>>
       /\ \A c \in told'[t][1] : job[c.of].at = "over" => mishaps > 0]_recordsVars
=============================================================================
