---------------------------- MODULE ChatSession ----------------------------
(***************************************************************************)
(* One chat session of the agent service: POST chat starts a graph task,   *)
(* GET stream forwards what it queues, POST cancel publishes to the        *)
(* session's Redis channel, and a listener of that channel cancels the     *)
(* token the registry holds for the session.  All of these are tasks of    *)
(* one event loop; each step ends at an await.                             *)
(*                                                                         *)
(* The registry, the sessions table, the subscriber and SessionState are   *)
(* keyed by session, so a later chat shares them with an earlier one.      *)
(* Chats are numbered as they start, and a listener by the chat whose      *)
(* start_chat made it.                                                     *)
(***************************************************************************)
EXTENDS AgentRun, FiniteSets

CONSTANTS
  Cancels,          \* bound: the cancel requests made
  MaxFaults,        \* bound: failing Redis calls and failing preparations
  MaxDisconnects    \* bound: clients that go away

ASSUME SessionAssumption ==
  /\ Chats = 1..Cardinality(Chats)
  /\ MaxFaults \in Nat /\ MaxDisconnects \in Nat

VARIABLES
  start,      \* where each chat's start_chat stands
  registry,   \* the chat whose token the registry holds, 0 for none
  sess,       \* the chat _sessions holds, 0 for none
  entry,      \* the listener CancelSubscriber._tasks holds, 0 for none
  lst,        \* the state of each listener
  inbox,      \* listeners with a cancel message to read
  held,       \* the token a listener has resolved and will cancel
  active, marked,   \* SessionState: the session is active, is marked cancelled
  req,        \* where each cancel request stands
  target,     \* history: the chat that was the session's when it was checked
  strm,       \* the stream of each chat
  term,       \* the terminal event it sent
  gone,       \* chats whose client went away before that
  faults

startVars  == <<start, registry, sess>>
subVars    == <<entry, lst, inbox, held>>
stateVars  == <<active, marked>>
reqVars    == <<req, target>>
streamVars == <<strm, term, gone>>
vars == <<runVars, startVars, subVars, stateVars, reqVars, streamVars, faults>>

Fault == faults < MaxFaults /\ faults' = faults + 1

-----------------------------------------------------------------------------
(* POST /sessions/{id}/chat.                                               *)

Activate == active' = TRUE /\ marked' = FALSE

StartUnchanged == UNCHANGED <<runVars, sess, reqVars, streamVars>>

(* Variant: the session is activated before its channel is subscribed. *)
ActivateThenSubscribe(c) ==
  /\ start[c] = "none" /\ \A d \in Chats : d < c => start[d] # "none"
  /\ registry' = c
  /\ start' = [start EXCEPT ![c] = IF entry = 0 THEN "subscribing" ELSE "preparing"]
  /\ Activate
  /\ UNCHANGED <<subVars, faults>>
  /\ StartUnchanged

(* The token is registered, over an earlier chat's; subscribe returns at once
   if the session has a listener, ended or not. *)
Register(c) ==
  /\ start[c] = "none" /\ \A d \in Chats : d < c => start[d] # "none"
  /\ registry' = c
  /\ IF entry = 0
     THEN start' = [start EXCEPT ![c] = "subscribing"] /\ UNCHANGED stateVars
     ELSE start' = [start EXCEPT ![c] = "preparing"] /\ Activate
  /\ UNCHANGED <<subVars, faults>>
  /\ StartUnchanged

(* Redis confirms the subscription: the listener task is created and the
   session activated. *)
Subscribed(c) ==
  /\ start[c] = "subscribing"
  /\ start' = [start EXCEPT ![c] = "preparing"]
  /\ entry' = c
  /\ lst' = [lst EXCEPT ![c] = "listening"]
  /\ Activate
  /\ UNCHANGED <<registry, inbox, held, faults>>
  /\ StartUnchanged

(* The subscription, the router, the pipeline or the LLM's factory raises: the
   request fails and what is registered stays. *)
StartFails(c) ==
  /\ start[c] \in {"subscribing", "preparing"} /\ Fault
  /\ start' = [start EXCEPT ![c] = "failed"]
  /\ UNCHANGED <<registry, subVars, stateVars>>
  /\ StartUnchanged

(* The graph task is created and the session's entry replaced. *)
Launch(c) ==
  /\ start[c] = "preparing"
  /\ start' = [start EXCEPT ![c] = "launched"]
  /\ Goto(c, "starting", queue[c])
  /\ sess' = c
  /\ UNCHANGED <<tokenVars, graphVars, outcome, registry, subVars, stateVars, reqVars,
                 streamVars, faults>>

(* DELETE context: the entry goes, the task runs on. *)
ClearContext ==
  /\ sess # 0 /\ sess' = 0
  /\ UNCHANGED <<runVars, start, registry, subVars, stateVars, reqVars, streamVars, faults>>

-----------------------------------------------------------------------------
(* The listener of the session's channel.                                  *)

SubUnchanged == UNCHANGED <<stage, graphVars, queue, outcome, startVars, stateVars,
                            reqVars, streamVars, faults>>

(* Variant: the token is the one of the chat that subscribed. *)
HearsOwnToken(l) ==
  /\ lst[l] = "listening" /\ l \in inbox
  /\ inbox' = inbox \ {l}
  /\ held' = [held EXCEPT ![l] = l]
  /\ lst' = [lst EXCEPT ![l] = IF l \in cancelled THEN "ended" ELSE "handling"]
  /\ UNCHANGED <<tokenVars, entry>>
  /\ SubUnchanged

(* A message: the registry's token is resolved.  If it is cancelled already
   there is nothing to do, else the event is logged first. *)
ListenerHears(l) ==
  /\ lst[l] = "listening" /\ l \in inbox
  /\ inbox' = inbox \ {l}
  /\ held' = [held EXCEPT ![l] = registry]
  /\ lst' = [lst EXCEPT ![l] = IF registry \in cancelled THEN "ended" ELSE "handling"]
  /\ UNCHANGED <<tokenVars, entry>>
  /\ SubUnchanged

(* The event is logged, or could not be: the token is cancelled, and the
   listener ends. *)
ListenerCancels(l) ==
  /\ lst[l] = "handling"
  /\ CancelToken(held[l])
  /\ lst' = [lst EXCEPT ![l] = "ended"]
  /\ UNCHANGED <<entry, inbox, held>>
  /\ SubUnchanged

-----------------------------------------------------------------------------
(* POST /sessions/{id}/cancel.                                             *)

ReqUnchanged == UNCHANGED <<runVars, startVars, entry, lst, held, streamVars>>

(* 404, 409, or on to Redis. *)
Check(k) ==
  /\ req[k] = "none"
  /\ req' = [req EXCEPT ![k] = IF active /\ ~marked THEN "publishing" ELSE "refused"]
  /\ target' = [target EXCEPT ![k] = registry]
  /\ UNCHANGED <<inbox, stateVars, faults>>
  /\ ReqUnchanged

Delivered == inbox' = inbox \cup {l \in Chats : lst[l] = "listening"}

(* PUBLISH: every listener of the channel gets the message. *)
Publish(k) ==
  /\ req[k] = "publishing"
  /\ req' = [req EXCEPT ![k] = "published"]
  /\ Delivered
  /\ UNCHANGED <<target, stateVars, faults>>
  /\ ReqUnchanged

(* An attempt raises, delivered or not: it is retried, or was the last. *)
PublishFails(k) ==
  /\ req[k] = "publishing" /\ Fault
  /\ Delivered \/ UNCHANGED inbox
  /\ \E r \in {"publishing", "failed"} : req' = [req EXCEPT ![k] = r]
  /\ UNCHANGED <<target, stateVars>>
  /\ ReqUnchanged

(* The session is marked cancelled, whichever chat it has by now; 202. *)
Mark(k) ==
  /\ req[k] = "published"
  /\ req' = [req EXCEPT ![k] = "accepted"]
  /\ marked' = TRUE
  /\ UNCHANGED <<target, active, inbox, faults>>
  /\ ReqUnchanged

-----------------------------------------------------------------------------
(* GET /sessions/{id}/stream, once for each chat.                          *)

StreamUnchanged == UNCHANGED <<tokenVars, stage, graphVars, outcome, startVars, stateVars,
                               reqVars, faults>>

OpenStream(c) ==
  /\ sess = c /\ strm[c] = "none"
  /\ strm' = [strm EXCEPT ![c] = "open"]
  /\ UNCHANGED <<queue, subVars, term, gone>>
  /\ StreamUnchanged

(* The first thing that can end the stream ends it. *)
SendTerminal(c) ==
  /\ strm[c] = "open" /\ queue[c] # <<>>
  /\ strm' = [strm EXCEPT ![c] = "closing"]
  /\ term' = [term EXCEPT ![c] = CASE Head(queue[c]) # "end" -> Head(queue[c])
                                   [] c \in cancelled -> "cancelled"
                                   [] OTHER -> "done"]
  /\ queue' = [queue EXCEPT ![c] = Tail(@)]
  /\ UNCHANGED <<subVars, gone>>
  /\ StreamUnchanged

(* The client goes away, and with it the generator. *)
Disconnect(c) ==
  /\ strm[c] = "open" /\ Cardinality(gone) < MaxDisconnects
  /\ strm' = [strm EXCEPT ![c] = "closing"]
  /\ gone' = gone \cup {c}
  /\ UNCHANGED <<queue, subVars, term>>
  /\ StreamUnchanged

(* The generator's finally: whatever listener the session has is cancelled,
   even between hearing a message and cancelling the token. *)
Unsubscribe(c) ==
  /\ strm[c] = "closing"
  /\ strm' = [strm EXCEPT ![c] = "closed"]
  /\ entry' = 0
  /\ lst' = [l \in Chats |-> IF l = entry THEN "ended" ELSE lst[l]]
  /\ inbox' = inbox \ {entry}
  /\ UNCHANGED <<queue, held, term, gone>>
  /\ StreamUnchanged

-----------------------------------------------------------------------------
Init ==
  /\ RunInit
  /\ start = [c \in Chats |-> "none"] /\ registry = 0 /\ sess = 0
  /\ entry = 0 /\ lst = [c \in Chats |-> "none"]
  /\ inbox = {} /\ held = [c \in Chats |-> 0]
  /\ active = FALSE /\ marked = FALSE
  /\ req = [k \in Cancels |-> "none"] /\ target = [k \in Cancels |-> 0]
  /\ strm = [c \in Chats |-> "none"] /\ term = [c \in Chats |-> "none"]
  /\ gone = {} /\ faults = 0

sessionVars == <<startVars, subVars, stateVars, reqVars, streamVars, faults>>

Next ==
  \/ \E c \in Chats : (RunStep(c) \/ Abort(c)) /\ UNCHANGED sessionVars
  \/ \E c \in Chats :
       \/ Register(c) \/ Subscribed(c) \/ StartFails(c) \/ Launch(c)
       \/ ListenerHears(c) \/ ListenerCancels(c)
       \/ OpenStream(c) \/ SendTerminal(c) \/ Disconnect(c) \/ Unsubscribe(c)
  \/ \E k \in Cancels : Check(k) \/ Publish(k) \/ PublishFails(k) \/ Mark(k)
  \/ ClearContext

(* The event loop runs every task that is ready, Redis and PostgreSQL answer,
   and a call of the LLM, a tool or the retrieval ends, by its timeout if by
   nothing else.  No client has to do anything. *)
Fairness ==
  \A c \in Chats :
    /\ WF_vars(RunStep(c) /\ UNCHANGED sessionVars)
    /\ WF_vars(Abort(c) /\ UNCHANGED sessionVars)
    /\ WF_vars(Subscribed(c) \/ Launch(c))
    /\ WF_vars(ListenerHears(c)) /\ WF_vars(ListenerCancels(c))
    /\ WF_vars(SendTerminal(c)) /\ WF_vars(Unsubscribe(c))

Spec == Init /\ [][Next]_vars /\ Fairness

-----------------------------------------------------------------------------
(* Properties.                                                             *)

(* Every variable keeps its type, and a listener or a stream belongs to a chat
   that was started. *)
TypeOK ==
  /\ cancelled \subseteq Chats /\ hooked \subseteq Chats \ cancelled
  /\ aborts \subseteq cancelled
  /\ stage \in [Chats -> Stages]
  /\ node \in [Chats -> {"planner", "tools", "rag", "final", "end"}]
  /\ iter \in [Chats -> 0..MaxIterations] /\ left \in [Chats -> 0..MaxTools]
  /\ tooled \subseteq Chats
  /\ \A c \in Chats : queue[c] \in Seq({"error", "cancelled", "end"}) /\ Len(queue[c]) <= 4
  /\ outcome \in [Chats -> {"none", "completed", "cancelled", "error", "aborted"}]
  /\ start \in [Chats -> {"none", "subscribing", "preparing", "launched", "failed"}]
  /\ registry \in Chats \cup {0} /\ sess \in Chats \cup {0} /\ entry \in Chats \cup {0}
  /\ lst \in [Chats -> {"none", "listening", "handling", "ended"}]
  /\ inbox \subseteq {l \in Chats : lst[l] = "listening"}
  /\ held \in [Chats -> Chats \cup {0}]
  /\ active \in BOOLEAN /\ marked \in BOOLEAN
  /\ req \in [Cancels -> {"none", "publishing", "published", "accepted", "refused", "failed"}]
  /\ target \in [Cancels -> Chats \cup {0}]
  /\ strm \in [Chats -> {"none", "open", "closing", "closed"}]
  /\ term \in [Chats -> {"none", "error", "cancelled", "done"}]
  /\ gone \subseteq Chats /\ faults \in Nat

(* A stream ends with "done" only if the graph ran to its end uncancelled, and
   with "cancelled" only if the token is cancelled: no abort or exception that
   reaches the task, in its finally block or before, is told as a success. *)
TerminalTruthful ==
  \A c \in Chats :
    /\ term[c] = "done" => outcome[c] = "completed"
    /\ term[c] = "cancelled" => c \in cancelled

(* After the token is cancelled the graph begins no further call of the LLM, a
   tool or the retrieval, not even the rest of a batch of tool calls. *)
NoCallAfterCancel ==
  [][ \A c \in Chats :
        stage'[c] = "call" /\ (stage[c] # "call" \/ left'[c] # left[c])
        => c \notin cancelled ]_vars

Over(c) == stage[c] \in {"answer", "tools", "unmirror", "clear", "done"}

(* A cancel that was accepted (202) for the chat has cancelled its token or is
   in the hands of a listener that will, unless the run is over. *)
CancelHeard(c) ==
  \/ c \in cancelled \/ Over(c)
  \/ \E l \in Chats : \/ lst[l] = "listening" /\ l \in inbox
                      \/ lst[l] = "handling" /\ held[l] = c

(* For the session's only chat, and while its client stays, an accepted cancel
   is not lost: not when it comes while the chat is being prepared or before the
   callback is registered, nor when requests race. *)
NoCancelLost ==
  \A k \in Cancels, c \in Chats :
    req[k] = "accepted" /\ target[k] = c /\ c \notin gone
    /\ (\A d \in Chats \ {c} : start[d] = "none")
    => CancelHeard(c)

(* A cancel never reaches a run older than the one the session had when the
   request was checked, however late it is published and through whichever
   listener it comes. *)
CancelsNoOlder ==
  \A c \in Chats :
    c \in cancelled \/ (\E l \in Chats : lst[l] = "handling" /\ held[l] = c)
    => \E k \in Cancels : target[k] \in 1..c /\ req[k] # "refused"

(* Every run ends, whatever the LLM keeps asking for and wherever a cancel or a
   failure meets it. *)
EveryRunEnds == \A c \in Chats : stage[c] # "none" ~> stage[c] = "done"

(* "auto-cancel LLM sessions on tab close": the stream's client goes away, its
   cancel is accepted, and it reaches the run. *)
TabCloseCancels ==
  \A k \in Cancels, c \in Chats :
    req[k] = "accepted" /\ target[k] = c /\ start[c] = "launched" => CancelHeard(c)

(* "then exactly one terminal event": a stream its client keeps open is ended by
   one. *)
StreamTerminates ==
  \A c \in Chats : strm[c] = "open" ~> strm[c] # "open"
=============================================================================
