----------------------------- MODULE LlmRouting -----------------------------
(***************************************************************************)
(* Which LLM a chat gets, and what its calls feed back: start_chat asks    *)
(* LLMRouter (or the provider factory directly) for a client, the router   *)
(* asks the circuit breaker and the budget, TokenUsageTracker reports the  *)
(* end of each call to the metrics, the budget and the breaker, and a      *)
(* collector turns the metrics into the error rate the breaker reads.      *)
(*                                                                         *)
(* `LLMRouter._lock` and `CircuitBreaker._lock` are left out: no block     *)
(* that holds one of them awaits anything that can suspend, so each block  *)
(* is one step.  Money is counted in units, time as "the cooldown is over".*)
(* Nothing under src/ attaches TokenUsageTracker to a client yet: the model *)
(* is of the feedback as the tracker's callbacks give it once attached.    *)
(***************************************************************************)
EXTENDS Integers, Sequences, Functions

CONSTANTS
  Chats,
  Costs,       \* the cost table, in the order of the YAML file
  Confs,       \* the settings to try, see Settings
  Trials,      \* TRIAL_SUCCESS_THRESHOLD
  ErrorPct,    \* llm_circuit_breaker_error_threshold, in percent
  GuardAt      \* the spend that reaches llm_router_cost_guard_threshold of the budget

(* Settings spells providers in capitals, the router and the tables do not. *)
Providers == {"OPENAI", "CUSTOM-OPENAI", "ZAI", "ANTHROPIC", "OLLAMA"}
RouterProviders == {"openai", "custom-openai", "zai", "anthropic", "ollama"}
Policies == {"cost_priority", "latency_priority", "quality_priority", "privacy_priority"}

(* Settings that validate, with the policies asked for, a bound on the calls, and
   whether the metrics' parser keeps "_total". *)
Settings ==
  [provider : Providers, model : STRING, traffic : 0..100, shadow : BOOLEAN, proxy : BOOLEAN,
   keepsTotal : BOOLEAN, policies : SUBSET Policies, calls : Nat]

ASSUME RoutingAssumption ==
  /\ Trials \in Nat \ {0} /\ ErrorPct \in 1..100 /\ GuardAt \in Nat \ {0}
  /\ Confs \subseteq Settings

VARIABLES
  conf,      \* the settings, the policies asked for and a bound on the calls; never changes
  breaker,   \* CircuitBreaker._states; a provider not yet checked is closed
  errorHigh, \* whether llm_error_rate_5m is at the threshold
  reports,   \* llm_call_total by provider: calls that succeeded and failed
  spent,     \* LLMRouter._spent_usd
  chat,      \* the LLM of each chat and what it does
  alarms,    \* history: spends since the reset that triggered the guard
  goodRun    \* history: successes reported in a row since the breaker half-opened

routingVars == <<conf, breaker, errorHigh, reports, spent, chat, alarms, goodRun>>

-----------------------------------------------------------------------------
(* The cost table.                                                         *)

Price(provider, model, prompt, completion) ==
  [provider |-> provider, model |-> model, prompt |-> prompt, completion |-> completion]

DefaultCosts == <<
  Price("openai", "gpt-4o-mini", 15, 60), Price("openai", "gpt-4o", 250, 1000),
  Price("openai", "gpt-4-turbo", 1000, 3000),
  Price("anthropic", "claude-3-5-sonnet", 300, 1500),
  Price("anthropic", "claude-3-haiku", 25, 125),
  Price("custom-openai", "default", 0, 0), Price("ollama", "llama3.1-8b", 0, 0),
  Price("zai", "glm-4.5", 10, 40), Price("zai", "glm-4-flash", 10, 40),
  Price("zai", "glm-4.5-flash", 10, 40) >>

Lower(p) ==
  CASE p = "OPENAI" -> "openai" [] p = "CUSTOM-OPENAI" -> "custom-openai" [] p = "ZAI" -> "zai"
    [] p = "ANTHROPIC" -> "anthropic" [] p = "OLLAMA" -> "ollama" [] OTHER -> p

Priced(p, m) == {i \in DOMAIN Costs : Costs[i].provider = Lower(p) /\ Costs[i].model = m}

(* min() returns the first of the cheapest. *)
CheapestModel ==
  LET avg(i) == Costs[i].prompt + Costs[i].completion
      cheapest == {i \in DOMAIN Costs : \A j \in DOMAIN Costs : avg(i) <= avg(j)}
  IN  CHOOSE i \in cheapest : \A j \in cheapest : i <= j

To(p, m) == [provider |-> p, model |-> m]
Cheapest == IF Costs = <<>> THEN To("openai", "gpt-4o-mini")
            ELSE To(Costs[CheapestModel].provider, Costs[CheapestModel].model)

(* What one call may cost: an unknown model costs nothing. *)
CallCost(p, m) ==
  IF \E i \in Priced(p, m) : Costs[i].prompt + Costs[i].completion > 0 THEN {0, 1} ELSE {0}

-----------------------------------------------------------------------------
(* The clients a factory call builds, or the exception it raises: at whose *)
(* endpoint, with whose key, and for whom it is said to be.                *)

Client(endpoint, key) == [endpoint |-> endpoint, key |-> key]
Raises(e) == [endpoint |-> e, key |-> e]

Factory(p, key, proxied) ==
  LET q == CASE p = "OPENAI" -> "openai" [] p = "ANTHROPIC" -> "anthropic"
             [] p = "OLLAMA" -> "ollama" [] OTHER -> p IN
  CASE q = "openai" -> Client("openai", key)
    [] q = "CUSTOM-OPENAI" -> Client("custom-openai", key)
    [] q = "ZAI" -> IF proxied THEN Client("orya", "orya") ELSE Client("zai", key)
    [] q = "anthropic" -> Client("anthropic", key)
    [] q = "ollama" -> Raises("NotImplementedError")
    [] OTHER -> Raises("ValueError")

(* Variant: the router's spelling goes to the factory as it is. *)
CreateLlmAsSpelled(d) ==
  Factory(d.provider, IF d.provider = "custom-openai" THEN "custom-openai" ELSE d.provider, FALSE)

(* LLMRouter.create_llm with _get_api_key. *)
CreateLlm(d) ==
  IF d.provider = "custom-openai" THEN Factory("CUSTOM-OPENAI", "custom-openai", FALSE)
  ELSE Factory(d.provider,
               CASE d.provider \in {"openai", "zai"} -> "openai"
                 [] d.provider = "anthropic" -> "anthropic" [] OTHER -> "none", FALSE)

(* start_chat without the router: the key by provider, a placeholder for a
   provider that is not implemented. *)
DirectKey(p) == IF p = "OLLAMA" THEN "openai" ELSE Lower(p)
DirectLlm(p) ==
  LET made == Factory(p, DirectKey(p), p = "ZAI" /\ conf.proxy) IN
  IF made.endpoint = "NotImplementedError" THEN Client("placeholder", "none") ELSE made

-----------------------------------------------------------------------------
(* The circuit breaker.                                                    *)

Status(state, trials) == [state |-> state, trials |-> trials, cooled |-> FALSE]

(* Variant: a trial is over at the next check. *)
CheckedUntried(p) ==
  LET b == breaker[p] IN
  CASE b.state = "closed" /\ errorHigh[p] -> Status("open", b.trials)
    [] b.state = "open" /\ b.cooled -> Status("half_open", b.trials)
    [] b.state = "half_open" -> Status("closed", 0)
    [] OTHER -> b

(* check(): the only place where a provider opens, half-opens or closes. *)
Checked(p) ==
  LET b == breaker[p] IN
  CASE b.state = "closed" /\ errorHigh[p] -> Status("open", b.trials)
    [] b.state = "open" /\ b.cooled -> Status("half_open", b.trials)
    [] b.state = "half_open" /\ b.trials >= Trials -> Status("closed", 0)
    [] OTHER -> b

Check(p) ==
  /\ breaker' = [breaker EXCEPT ![p] = Checked(p)]
  /\ goodRun' = [goodRun EXCEPT ![p] =
       IF breaker[p].state = "open" /\ Checked(p).state = "half_open" THEN 0 ELSE @]

RecordSuccess(p) ==
  /\ breaker' = [breaker EXCEPT ![p].trials = IF breaker[p].state = "half_open" THEN @ + 1 ELSE @]
  /\ goodRun' = [goodRun EXCEPT ![p] = IF @ < Trials THEN @ + 1 ELSE @]

RecordFailure(p) ==
  /\ breaker' = [breaker EXCEPT ![p] =
       IF @.state = "half_open" THEN Status("open", 0) ELSE [@ EXCEPT !.trials = 0]]
  /\ goodRun' = [goodRun EXCEPT ![p] = 0]

-----------------------------------------------------------------------------
(* LLMRouter.route.                                                        *)

Primary(policy) ==
  CASE policy = "cost_priority" -> Cheapest
    [] policy = "latency_priority" -> To("openai", "gpt-4o-mini")
    [] policy = "quality_priority" -> To("openai", "gpt-4o")
    [] policy = "privacy_priority" -> To("custom-openai", "default")

(* The fallback's own breaker is not asked, and a provider without one stays. *)
Fallback(to) ==
  CASE to.provider = "openai" -> To("anthropic", "claude-3-haiku")
    [] to.provider \in {"anthropic", "custom-openai"} -> To("openai", "gpt-4o-mini")
    [] OTHER -> to

(* Variant: the guard switches above its threshold only. *)
OverGuardLate == spent > GuardAt
OverGuard == spent >= GuardAt

(* The decision for a policy.  No caller asks for privacy_required. *)
Decision(policy) ==
  LET to == Primary(policy) IN
  IF OverGuard THEN Cheapest
  ELSE IF Checked(to.provider).state = "open" THEN Fallback(to) ELSE to

(* route() consults the breaker below the budget's threshold only. *)
Route(policy) ==
  IF OverGuard THEN UNCHANGED <<breaker, goodRun>> ELSE Check(Primary(policy).provider)

-----------------------------------------------------------------------------
(* A chat: start_chat decides, logs the decision (an await), creates the   *)
(* client and, in shadow mode, routes once more for the log; the client is *)
(* then called as often as the agent asks.                                 *)

Idle == [at |-> "idle", to |-> To("none", "none"), llm |-> Raises("none"),
         policed |-> FALSE, cost |-> 0, late |-> FALSE]

NoCalls == [ok |-> 0, bad |-> 0]

RoutingInit ==
  /\ conf \in Confs
  /\ breaker = [p \in RouterProviders \cup Providers |-> Status("closed", 0)]
  /\ errorHigh = [p \in DOMAIN breaker |-> FALSE]
  /\ reports = [p \in DOMAIN breaker |-> NoCalls]
  /\ spent = 0 /\ alarms = 0
  /\ goodRun = [p \in DOMAIN breaker |-> 0]
  /\ chat = [c \in Chats |-> Idle]

(* should_route_via_router, then route. *)
StartRouted(c, policy) ==
  /\ conf.traffic > 0 /\ chat[c].at = "idle"
  /\ Route(policy)
  /\ chat' = [chat EXCEPT ![c] = [Idle EXCEPT !.at = "decided", !.to = Decision(policy),
                                              !.policed = TRUE, !.late = spent >= GuardAt]]
  /\ UNCHANGED <<conf, errorHigh, reports, spent, alarms>>

(* An exception of create_llm leaves start_chat as an error. *)
CreateRouted(c) ==
  /\ chat[c].at = "decided"
  /\ chat' = [chat EXCEPT ![c].llm = CreateLlm(chat[c].to),
                          ![c].at = IF conf.shadow THEN "shadow" ELSE "ready"]
  /\ UNCHANGED <<conf, breaker, errorHigh, reports, spent, alarms, goodRun>>

(* route_shadow routes by cost and uses nothing of the decision. *)
RouteShadow(c) ==
  /\ chat[c].at = "shadow"
  /\ Route("cost_priority")
  /\ chat' = [chat EXCEPT ![c].at = "ready"]
  /\ UNCHANGED <<conf, errorHigh, reports, spent, alarms>>

StartDirect(c) ==
  /\ conf.traffic < 100 /\ chat[c].at = "idle"
  /\ chat' = [chat EXCEPT ![c] = [Idle EXCEPT !.at = "ready", !.llm = DirectLlm(conf.provider),
                                              !.to = To(conf.provider, conf.model)]]
  /\ UNCHANGED <<conf, breaker, errorHigh, reports, spent, alarms, goodRun>>

(* How many calls have ended, all providers together. *)
Reported == FoldFunction(+, 0, [p \in DOMAIN reports |-> reports[p].ok + reports[p].bad])

(* TokenUsageTracker.on_llm_end counts the call, then awaits the operational
   writer (whatever that raises is swallowed) ... *)
CallEnds(c) ==
  /\ chat[c].at = "ready" /\ Reported < conf.calls
  /\ reports' = [reports EXCEPT ![chat[c].to.provider].ok = @ + 1]
  /\ \E cost \in CallCost(chat[c].to.provider, chat[c].to.model) :
       chat' = [chat EXCEPT ![c].at = "writing", ![c].cost = cost]
  /\ UNCHANGED <<conf, breaker, errorHigh, spent, alarms, goodRun>>

(* Variant: the alarm is raised by every spend above the threshold. *)
TriggersAlways(cost) == spent + cost >= GuardAt

(* CostGuard.record_spend: the spend that crosses the threshold is reported. *)
Triggers(cost) == spent + cost >= GuardAt /\ spent < GuardAt

(* ... and then charges the budget and tells the breaker. *)
Charge(c) ==
  /\ chat[c].at = "writing"
  /\ spent' = spent + chat[c].cost
  /\ alarms' = IF Triggers(chat[c].cost) THEN alarms + 1 ELSE alarms
  /\ RecordSuccess(chat[c].to.provider)
  /\ chat' = [chat EXCEPT ![c].at = "ready", ![c].cost = 0]
  /\ UNCHANGED <<conf, errorHigh, reports>>

(* on_llm_error. *)
CallFails(c) ==
  /\ chat[c].at = "ready" /\ Reported < conf.calls
  /\ reports' = [reports EXCEPT ![chat[c].to.provider].bad = @ + 1]
  /\ RecordFailure(chat[c].to.provider)
  /\ UNCHANGED <<conf, errorHigh, spent, chat, alarms>>

EndChat(c) ==
  /\ chat[c].at = "ready"
  /\ chat' = [chat EXCEPT ![c] = Idle]
  /\ UNCHANGED <<conf, breaker, errorHigh, reports, spent, alarms, goodRun>>

-----------------------------------------------------------------------------
(* The environment: the collector's round, the clock, the administrator.   *)

(* The gauge, from all calls since the start, not those of five minutes. *)
ErrorRateHigh(p) == 100 * reports[p].bad >= ErrorPct * (reports[p].ok + reports[p].bad)

(* collect_error_rates finds no calls at all if the metrics parser strips
   "_total" from the counter's family name. *)
CollectErrorRates ==
  /\ errorHigh' = [p \in DOMAIN errorHigh |->
       IF conf.keepsTotal /\ reports[p] # NoCalls THEN ErrorRateHigh(p) ELSE errorHigh[p]]
  /\ UNCHANGED <<conf, breaker, reports, spent, chat, alarms, goodRun>>

(* More than COOLDOWN_SECONDS have passed since the provider opened. *)
CooldownOver(p) ==
  /\ breaker[p].state = "open" /\ ~breaker[p].cooled
  /\ breaker' = [breaker EXCEPT ![p].cooled = TRUE]
  /\ UNCHANGED <<conf, errorHigh, reports, spent, chat, alarms, goodRun>>

(* POST /admin/cost-guard/reset. *)
ResetMonthly ==
  /\ spent > 0
  /\ spent' = 0 /\ alarms' = 0
  /\ UNCHANGED <<conf, breaker, errorHigh, reports, chat, goodRun>>

RoutingNext ==
  \/ \E c \in Chats :
       \/ \E policy \in conf.policies : StartRouted(c, policy)
       \/ CreateRouted(c) \/ RouteShadow(c) \/ StartDirect(c)
       \/ CallEnds(c) \/ Charge(c) \/ CallFails(c) \/ EndChat(c)
  \/ CollectErrorRates \/ ResetMonthly
  \/ \E p \in DOMAIN breaker : CooldownOver(p)

RoutingSpec == RoutingInit /\ [][RoutingNext]_routingVars

-----------------------------------------------------------------------------
(* Type correctness of the router's state. *)
RoutingTypeOK ==
  /\ conf \in Settings
  /\ breaker \in [RouterProviders \cup Providers ->
       [state : {"closed", "open", "half_open"}, trials : Nat, cooled : BOOLEAN]]
  /\ errorHigh \in [RouterProviders \cup Providers -> BOOLEAN]
  /\ reports \in [RouterProviders \cup Providers -> [ok : Nat, bad : Nat]]
  /\ spent \in Nat /\ alarms \in Nat
  /\ goodRun \in [RouterProviders \cup Providers -> 0..Trials]
  /\ \A c \in Chats : /\ chat[c].at \in {"idle", "decided", "shadow", "ready", "writing"}
                      /\ chat[c].cost \in {0, 1}

(* The breaker is a TrustSwitch to the router: whatever the collector, the
   clock, the checks of several chats and the outcomes of calls that began
   before it tripped do in between, a provider is trusted again only after
   TRIAL_SUCCESS_THRESHOLD calls in a row succeeded since it half-opened, and a
   failure on trial shuts it off at once
   (circuit_breaker.py: check, record_success, record_failure). *)
Switch == INSTANCE TrustSwitch WITH
  Units <- RouterProviders \cup Providers, Needed <- Trials,
  trust <- [p \in RouterProviders \cup Providers |-> breaker[p].state], streak <- goodRun
ImplementsTrustSwitch == Switch!Spec

(* Whatever the budget and the breakers make the router decide, the factory
   knows the provider in that spelling, the key handed over is the key of the
   endpoint it is sent to, and the model has a price, so that its use counts.
   The direct path always yields a client too. *)
DecisionServable ==
  \A c \in Chats :
    /\ chat[c].at \in {"shadow", "ready", "writing"} =>
         /\ chat[c].llm.endpoint \in {"openai", "custom-openai", "zai", "anthropic", "orya", "placeholder"}
         /\ chat[c].llm.endpoint # "placeholder" => chat[c].llm.key = chat[c].llm.endpoint
    /\ chat[c].policed => Priced(chat[c].to.provider, chat[c].to.model) # {}

(* Once the spend has reached the guard's threshold, only chats whose model
   was chosen before, or past the router, can make it grow. *)
GuardStopsSpending ==
  [][spent >= GuardAt /\ spent' > spent =>
       \E c \in Chats : chat[c].at = "writing" /\ chat'[c].at = "ready" /\ ~chat[c].late]_routingVars

(* The guard reports the crossing of its threshold exactly once between two
   resets, whichever chats the spends come from. *)
AlarmOnce == alarms = IF spent >= GuardAt THEN 1 ELSE 0
=============================================================================
