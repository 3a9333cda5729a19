--------------------------- MODULE LlmCallProofs ----------------------------
(***************************************************************************)
(* The two guards of an LLM call. LlmRouting, for every set of chats, list *)
(* of settings, number of trials and thresholds: its types, the budget's   *)
(* alarm, raised exactly once, and the breaker, which implements           *)
(* TrustSwitch, for every table of costs; that decisions can be served,    *)
(* and that the guard stops the spending, for the tables that allow it     *)
(* (lemma DefaultTable: the shipped one does). SemanticCache, for any      *)
(* questions, documents, calls, requests, layout of Redis' buckets and     *)
(* number of evictions: its types, and that the marking of a document's    *)
(* answers as stale passes none by.                                        *)
(***************************************************************************)
EXTENDS LlmRouting, SemanticCache, TLAPS

AllProviders == RouterProviders \cup Providers
ChatFields == {"at", "to", "llm", "policed", "cost", "late"}

-----------------------------------------------------------------------------
(* The budget.                                                             *)

(* Every chat owes the budget at most the cost of the call it is reporting. *)
Owing ==
  /\ DOMAIN chat = Chats
  /\ chat = [c \in Chats |-> chat[c]]
  /\ \A c \in Chats : DOMAIN chat[c] = ChatFields /\ chat[c].cost \in {0, 1}

BudgetInv == spent \in Nat /\ Owing /\ AlarmOnce

(* A call costs a unit or nothing, whatever the table says (compute_call_cost). *)
LEMMA CostBound == \A p, m : CallCost(p, m) \subseteq {0, 1}
BY DEF CallCost

(* The invariant of the budget holds at the start. *)
LEMMA BudgetInit == RoutingInit => BudgetInv
<1> SUFFICES ASSUME RoutingInit PROVE BudgetInv
  OBVIOUS
<1>1. Owing
  BY DEF RoutingInit, Owing, Idle, Raises, To, ChatFields
<1>2. spent \in Nat /\ AlarmOnce
  BY RoutingAssumption DEF RoutingInit, AlarmOnce
<1> QED BY <1>1, <1>2 DEF BudgetInv

(* ... and every step of the router, a chat or the environment keeps it. *)
LEMMA BudgetStep == BudgetInv /\ [RoutingNext]_routingVars => BudgetInv'
<1> SUFFICES ASSUME BudgetInv, [RoutingNext]_routingVars PROVE BudgetInv'
  OBVIOUS
<1> USE DEF BudgetInv
<1>1. ASSUME NEW c \in Chats, NEW policy, StartRouted(c, policy) PROVE BudgetInv'
  <2>1. Owing'
    BY <1>1 DEF StartRouted, Owing, Idle, Raises, To, ChatFields
  <2> QED BY <1>1, <2>1 DEF StartRouted, AlarmOnce
<1>2. ASSUME NEW c \in Chats, CreateRouted(c) PROVE BudgetInv'
  <2>1. Owing'
    BY <1>2 DEF CreateRouted, Owing, ChatFields
  <2> QED BY <1>2, <2>1 DEF CreateRouted, AlarmOnce
<1>3. ASSUME NEW c \in Chats, RouteShadow(c) PROVE BudgetInv'
  <2>1. Owing'
    BY <1>3 DEF RouteShadow, Owing, ChatFields
  <2> QED BY <1>3, <2>1 DEF RouteShadow, AlarmOnce
<1>4. ASSUME NEW c \in Chats, StartDirect(c) PROVE BudgetInv'
  <2>1. Owing'
    BY <1>4 DEF StartDirect, Owing, Idle, Raises, To, ChatFields
  <2> QED BY <1>4, <2>1 DEF StartDirect, AlarmOnce
<1>5. ASSUME NEW c \in Chats, CallEnds(c) PROVE BudgetInv'
  <2>1. PICK cost \in CallCost(chat[c].to.provider, chat[c].to.model) :
          chat' = [chat EXCEPT ![c].at = "writing", ![c].cost = cost]
    BY <1>5 DEF CallEnds
  <2>2. cost \in {0, 1}
    BY <2>1, CostBound
  <2>3. Owing'
    BY <2>1, <2>2 DEF Owing, ChatFields
  <2> QED BY <1>5, <2>3 DEF CallEnds, AlarmOnce
<1>6. ASSUME NEW c \in Chats, Charge(c) PROVE BudgetInv'
  <2>1. Owing'
    BY <1>6 DEF Charge, Owing, ChatFields
  <2>2. chat[c].cost \in Nat
    BY DEF Owing
  <2>3. spent' \in Nat
    BY <1>6, <2>2 DEF Charge
  <2>4. AlarmOnce'
    BY <1>6, <2>2, RoutingAssumption DEF Charge, Triggers, AlarmOnce
  <2> QED BY <2>1, <2>3, <2>4
<1>7. ASSUME NEW c \in Chats, CallFails(c) PROVE BudgetInv'
  BY <1>7 DEF CallFails, Owing, AlarmOnce
<1>8. ASSUME NEW c \in Chats, EndChat(c) PROVE BudgetInv'
  <2>1. Owing'
    BY <1>8 DEF EndChat, Owing, Idle, Raises, To, ChatFields
  <2> QED BY <1>8, <2>1 DEF EndChat, AlarmOnce
<1>9. CASE CollectErrorRates
  BY <1>9 DEF CollectErrorRates, Owing, AlarmOnce
<1>10. CASE ResetMonthly
  BY <1>10, RoutingAssumption DEF ResetMonthly, Owing, AlarmOnce
<1>11. ASSUME NEW p, CooldownOver(p) PROVE BudgetInv'
  BY <1>11 DEF CooldownOver, Owing, AlarmOnce
<1>12. CASE UNCHANGED routingVars
  BY <1>12 DEF routingVars, Owing, AlarmOnce
<1> QED
  BY <1>1, <1>2, <1>3, <1>4, <1>5, <1>6, <1>7, <1>8, <1>9, <1>10, <1>11, <1>12 DEF RoutingNext

(* Between two resets CostGuard.record_spend reports the crossing of its
   threshold exactly once if it is crossed, whichever chats spend and in
   whatever order their awaits interleave. *)
THEOREM AlarmRaisedOnce == RoutingSpec => []AlarmOnce
<1>1. BudgetInv => AlarmOnce
  BY DEF BudgetInv
<1> QED BY <1>1, BudgetInit, BudgetStep, PTL DEF RoutingSpec

-----------------------------------------------------------------------------
(* The breaker.                                                            *)

(* A provider counts trials only while it is on trial, and then as many as the
   successes reported since: what the promise calls its streak. *)
Tally(p) ==
  IF breaker[p].state = "half_open"
  THEN goodRun[p] = IF breaker[p].trials < Trials THEN breaker[p].trials ELSE Trials
  ELSE breaker[p].trials = 0

BreakerInv ==
  /\ breaker \in [AllProviders ->
       [state : {"closed", "open", "half_open"}, trials : Nat, cooled : BOOLEAN]]
  /\ goodRun \in [AllProviders -> 0..Trials]
  /\ \A p \in AllProviders : Tally(p)

(* What a step may do to the breaker and its history: to one provider. *)
Touches(p) == Check(p) \/ RecordSuccess(p) \/ RecordFailure(p) \/ (CooldownOver(p) /\ UNCHANGED goodRun)

(* Every step of the router touches one provider's breaker or none. *)
LEMMA OneProvider ==
  ASSUME [RoutingNext]_routingVars
  PROVE  UNCHANGED <<breaker, goodRun>> \/ \E p : Touches(p)
<1>1. ASSUME NEW c \in Chats, NEW policy, StartRouted(c, policy)
      PROVE  UNCHANGED <<breaker, goodRun>> \/ \E p : Touches(p)
  BY <1>1 DEF StartRouted, Route, Touches
<1>2. ASSUME NEW c \in Chats, RouteShadow(c)
      PROVE  UNCHANGED <<breaker, goodRun>> \/ \E p : Touches(p)
  BY <1>2 DEF RouteShadow, Route, Touches
<1>3. ASSUME NEW c \in Chats, CreateRouted(c) \/ StartDirect(c) \/ CallEnds(c) \/ EndChat(c)
      PROVE  UNCHANGED <<breaker, goodRun>>
  BY <1>3 DEF CreateRouted, StartDirect, CallEnds, EndChat
<1>4. ASSUME NEW c \in Chats, Charge(c) \/ CallFails(c)
      PROVE  \E p : Touches(p)
  BY <1>4 DEF Charge, CallFails, Touches
<1>5. CASE CollectErrorRates \/ ResetMonthly
  BY <1>5 DEF CollectErrorRates, ResetMonthly
<1>6. ASSUME NEW p, CooldownOver(p) PROVE Touches(p)
  BY <1>6 DEF CooldownOver, Touches
<1>7. CASE UNCHANGED routingVars
  BY <1>7 DEF routingVars
<1> QED
  BY <1>1, <1>2, <1>3, <1>4, <1>5, <1>6, <1>7 DEF RoutingNext

(* The invariant of the breaker holds at the start. *)
LEMMA BreakerInit == RoutingInit => BreakerInv
BY RoutingAssumption DEF RoutingInit, BreakerInv, Tally, Status, AllProviders

(* What check() makes of a provider: one of three moves, or nothing. *)
LEMMA CheckCases ==
  ASSUME BreakerInv, NEW p \in AllProviders, Check(p)
  PROVE  \/ /\ breaker[p].state = "closed" /\ goodRun' = goodRun
            /\ breaker' = [breaker EXCEPT ![p] = Status("open", breaker[p].trials)]
         \/ /\ breaker[p].state = "open" /\ goodRun' = [goodRun EXCEPT ![p] = 0]
            /\ breaker' = [breaker EXCEPT ![p] = Status("half_open", breaker[p].trials)]
         \/ /\ breaker[p].state = "half_open" /\ breaker[p].trials >= Trials
            /\ goodRun' = goodRun /\ breaker' = [breaker EXCEPT ![p] = Status("closed", 0)]
         \/ UNCHANGED <<breaker, goodRun>>
<1> USE DEF BreakerInv
<1>1. CASE breaker[p].state = "closed" /\ errorHigh[p]
  BY <1>1 DEF Check, Checked, Status
<1>2. CASE breaker[p].state = "open" /\ breaker[p].cooled
  BY <1>2 DEF Check, Checked, Status
<1>3. CASE breaker[p].state = "half_open" /\ breaker[p].trials >= Trials
  BY <1>3 DEF Check, Checked, Status
<1>4. CASE /\ ~(breaker[p].state = "closed" /\ errorHigh[p])
           /\ ~(breaker[p].state = "open" /\ breaker[p].cooled)
           /\ ~(breaker[p].state = "half_open" /\ breaker[p].trials >= Trials)
  <2>1. Checked(p) = breaker[p]
    BY <1>4 DEF Checked
  <2> QED BY <2>1 DEF Check
<1> QED BY <1>1, <1>2, <1>3, <1>4

(* Touching a provider keeps the invariant. *)
LEMMA TouchKeeps ==
  ASSUME BreakerInv, NEW p \in AllProviders, Touches(p)
  PROVE  BreakerInv'
<1> USE RoutingAssumption DEF BreakerInv
<1>1. ASSUME Check(p) PROVE BreakerInv'
  <2>1. CASE /\ breaker[p].state = "closed" /\ goodRun' = goodRun
             /\ breaker' = [breaker EXCEPT ![p] = Status("open", breaker[p].trials)]
    BY <2>1 DEF Status, Tally
  <2>2. CASE /\ breaker[p].state = "open" /\ goodRun' = [goodRun EXCEPT ![p] = 0]
             /\ breaker' = [breaker EXCEPT ![p] = Status("half_open", breaker[p].trials)]
    <3>1. breaker[p].trials = 0
      BY <2>2 DEF Tally
    <3> QED BY <2>2, <3>1 DEF Status, Tally
  <2>3. CASE /\ breaker[p].state = "half_open" /\ breaker[p].trials >= Trials
             /\ goodRun' = goodRun /\ breaker' = [breaker EXCEPT ![p] = Status("closed", 0)]
    BY <2>3 DEF Status, Tally
  <2>4. CASE UNCHANGED <<breaker, goodRun>>
    BY <2>4 DEF Tally
  <2> QED BY <1>1, <2>1, <2>2, <2>3, <2>4, CheckCases
<1>2. CASE RecordSuccess(p)
  BY <1>2 DEF RecordSuccess, Tally
<1>3. CASE RecordFailure(p)
  BY <1>3 DEF RecordFailure, Status, Tally
<1>4. CASE CooldownOver(p) /\ UNCHANGED goodRun
  BY <1>4 DEF CooldownOver, Tally
<1> QED BY <1>1, <1>2, <1>3, <1>4 DEF Touches

(* A name that is no provider's touches nothing. *)
LEMMA NobodyTouched ==
  ASSUME BreakerInv, NEW p, p \notin AllProviders, Touches(p)
  PROVE  UNCHANGED <<breaker, goodRun>>
BY DEF BreakerInv, Touches, Check, RecordSuccess, RecordFailure, CooldownOver

(* Every step of the router keeps the invariant of the breaker. *)
LEMMA BreakerStep == BreakerInv /\ [RoutingNext]_routingVars => BreakerInv'
<1> SUFFICES ASSUME BreakerInv, [RoutingNext]_routingVars PROVE BreakerInv'
  OBVIOUS
<1>1. CASE UNCHANGED <<breaker, goodRun>>
  BY <1>1 DEF BreakerInv, Tally
<1>2. ASSUME NEW p, Touches(p) PROVE BreakerInv'
  BY <1>1, <1>2, TouchKeeps, NobodyTouched
<1> QED BY <1>1, <1>2, OneProvider

(* Touching a provider is a step of TrustSwitch, or none. *)
LEMMA TouchSimulates ==
  ASSUME BreakerInv, NEW p \in AllProviders, Touches(p)
  PROVE  [Switch!Next]_(Switch!vars)
<1> DEFINE trust == [q \in RouterProviders \cup Providers |-> breaker[q].state]
<1> USE RoutingAssumption DEF BreakerInv, AllProviders, Switch!vars, Switch!Next
<1>1. ASSUME Check(p) PROVE [Switch!Next]_(Switch!vars)
  <2>1. CASE /\ breaker[p].state = "closed" /\ goodRun' = goodRun
             /\ breaker' = [breaker EXCEPT ![p] = Status("open", breaker[p].trials)]
    <3>1. trust' = [trust EXCEPT ![p] = "open"]
      BY <2>1 DEF Status
    <3> QED BY <2>1, <3>1 DEF Switch!Trip
  <2>2. CASE /\ breaker[p].state = "open" /\ goodRun' = [goodRun EXCEPT ![p] = 0]
             /\ breaker' = [breaker EXCEPT ![p] = Status("half_open", breaker[p].trials)]
    <3>1. trust' = [trust EXCEPT ![p] = "half_open"]
      BY <2>2 DEF Status
    <3> QED BY <2>2, <3>1 DEF Switch!BeginTrial
  <2>3. CASE /\ breaker[p].state = "half_open" /\ breaker[p].trials >= Trials
             /\ goodRun' = goodRun /\ breaker' = [breaker EXCEPT ![p] = Status("closed", 0)]
    <3>1. trust' = [trust EXCEPT ![p] = "closed"]
      BY <2>3 DEF Status
    <3>2. goodRun[p] >= Trials
      BY <2>3 DEF Tally
    <3> QED BY <2>3, <3>1, <3>2 DEF Switch!PassTrial
  <2>4. CASE UNCHANGED <<breaker, goodRun>>
    BY <2>4
  <2> QED BY <1>1, <2>1, <2>2, <2>3, <2>4, CheckCases
<1>2. ASSUME RecordSuccess(p) PROVE [Switch!Next]_(Switch!vars)
  <2>1. trust' = trust
    BY <1>2 DEF RecordSuccess
  <2>2. CASE goodRun[p] < Trials
    BY <1>2, <2>1, <2>2 DEF RecordSuccess, Switch!Success
  <2>3. CASE ~(goodRun[p] < Trials)
    <3>1. goodRun' = goodRun
      BY <1>2, <2>3 DEF RecordSuccess
    <3> QED BY <2>1, <3>1
  <2> QED BY <2>2, <2>3
<1>3. ASSUME RecordFailure(p) PROVE [Switch!Next]_(Switch!vars)
  <2>1. trust' = [trust EXCEPT ![p] = IF @ = "half_open" THEN "open" ELSE @]
    BY <1>3 DEF RecordFailure, Status
  <2> QED BY <1>3, <2>1 DEF RecordFailure, Switch!Failure
<1>4. ASSUME CooldownOver(p), UNCHANGED goodRun PROVE [Switch!Next]_(Switch!vars)
  <2>1. trust' = trust
    BY <1>4 DEF CooldownOver
  <2> QED BY <1>4, <2>1
<1> QED BY <1>1, <1>2, <1>3, <1>4 DEF Touches

(* The circuit breaker implements TrustSwitch for every provider: no
   interleaving of checks, reports, collections and the clock makes a provider
   trusted that has not earned it (circuit_breaker.py). *)
THEOREM BreakerImplementsTrustSwitch == RoutingSpec => ImplementsTrustSwitch
<1>1. RoutingInit => Switch!Init
  BY RoutingAssumption DEF RoutingInit, Switch!Init, Status
<1>2. BreakerInv /\ [RoutingNext]_routingVars => [Switch!Next]_(Switch!vars)
  <2> SUFFICES ASSUME BreakerInv, [RoutingNext]_routingVars PROVE [Switch!Next]_(Switch!vars)
    OBVIOUS
  <2>1. CASE UNCHANGED <<breaker, goodRun>>
    BY <2>1 DEF Switch!vars
  <2>2. ASSUME NEW p, Touches(p) PROVE [Switch!Next]_(Switch!vars)
    BY <2>1, <2>2, TouchSimulates, NobodyTouched
  <2> QED BY <2>1, <2>2, OneProvider
<1> QED
  BY <1>1, <1>2, BreakerInit, BreakerStep, PTL DEF RoutingSpec, ImplementsTrustSwitch, Switch!Spec

-----------------------------------------------------------------------------
(* The types of the router's state.                                        *)

TypesInv == BudgetInv /\ BreakerInv /\ RoutingTypeOK

(* A step adds a report to the provider of a chat and to no other. *)
LEMMA ReportsStayCounts ==
  ASSUME RoutingTypeOK, [RoutingNext]_routingVars
  PROVE  reports' \in [AllProviders -> [ok : Nat, bad : Nat]]
<1> USE DEF RoutingTypeOK, AllProviders
<1>1. ASSUME NEW c \in Chats, CallEnds(c)
      PROVE  reports' \in [AllProviders -> [ok : Nat, bad : Nat]]
  <2>1. PICK p : p = chat[c].to.provider
    OBVIOUS
  <2>2. reports' = [reports EXCEPT ![p].ok = @ + 1]
    BY <1>1, <2>1 DEF CallEnds
  <2>3. CASE p \in AllProviders
    <3>1. [reports[p] EXCEPT !.ok = @ + 1] \in [ok : Nat, bad : Nat]
      BY <2>3
    <3> QED BY <2>2, <3>1
  <2>4. CASE p \notin AllProviders
    BY <2>2, <2>4
  <2> QED BY <2>3, <2>4
<1>2. ASSUME NEW c \in Chats, CallFails(c)
      PROVE  reports' \in [AllProviders -> [ok : Nat, bad : Nat]]
  <2>1. PICK p : p = chat[c].to.provider
    OBVIOUS
  <2>2. reports' = [reports EXCEPT ![p].bad = @ + 1]
    BY <1>2, <2>1 DEF CallFails
  <2>3. CASE p \in AllProviders
    <3>1. [reports[p] EXCEPT !.bad = @ + 1] \in [ok : Nat, bad : Nat]
      BY <2>3
    <3> QED BY <2>2, <3>1
  <2>4. CASE p \notin AllProviders
    BY <2>2, <2>4
  <2> QED BY <2>3, <2>4
<1>3. CASE UNCHANGED reports
  BY <1>3
<1> QED
  BY <1>1, <1>2, <1>3 DEF RoutingNext, StartRouted, CreateRouted, RouteShadow, StartDirect, Charge,
     EndChat, CollectErrorRates, ResetMonthly, CooldownOver, routingVars

(* The rest of the types that neither the budget nor the breaker keeps. *)
LEMMA OthersStayTyped ==
  ASSUME RoutingTypeOK, [RoutingNext]_routingVars
  PROVE  conf' \in Settings /\ errorHigh' \in [AllProviders -> BOOLEAN]
<1> USE DEF RoutingTypeOK, AllProviders
<1>1. CASE CollectErrorRates
  <2>1. ASSUME NEW p \in AllProviders PROVE errorHigh'[p] \in BOOLEAN
    <3>1. ErrorRateHigh(p) \in BOOLEAN /\ errorHigh[p] \in BOOLEAN
      BY DEF ErrorRateHigh
    <3>2. CASE conf.keepsTotal /\ reports[p] # NoCalls
      <4>1. errorHigh'[p] = ErrorRateHigh(p)
        BY <1>1, <3>2 DEF CollectErrorRates
      <4> QED BY <3>1, <4>1
    <3>3. CASE ~(conf.keepsTotal /\ reports[p] # NoCalls)
      <4>1. errorHigh'[p] = errorHigh[p]
        BY <1>1, <3>3 DEF CollectErrorRates
      <4> QED BY <3>1, <4>1
    <3> QED BY <3>2, <3>3
  <2>2. errorHigh' = [p \in AllProviders |-> errorHigh'[p]]
    BY <1>1 DEF CollectErrorRates
  <2> QED BY <1>1, <2>1, <2>2 DEF CollectErrorRates
<1>2. CASE UNCHANGED <<conf, errorHigh>>
  BY <1>2
<1> QED
  BY <1>1, <1>2 DEF RoutingNext, StartRouted, CreateRouted, RouteShadow, StartDirect, CallEnds,
     Charge, CallFails, EndChat, ResetMonthly, CooldownOver, routingVars

(* A chat is where a step of its own puts it. *)
LEMMA ChatsStayTyped ==
  ASSUME RoutingTypeOK, Owing, Owing', [RoutingNext]_routingVars
  PROVE  \A c \in Chats : /\ chat'[c].at \in {"idle", "decided", "shadow", "ready", "writing"}
                          /\ chat'[c].cost \in {0, 1}
<1> USE DEF RoutingTypeOK, Owing, ChatFields
<1>1. ASSUME NEW c \in Chats, NEW policy, StartRouted(c, policy)
      PROVE  \A d \in Chats : chat'[d].at \in {"idle", "decided", "shadow", "ready", "writing"}
  BY <1>1 DEF StartRouted, Idle
<1>2. ASSUME NEW c \in Chats, CreateRouted(c) \/ RouteShadow(c) \/ Charge(c)
      PROVE  \A d \in Chats : chat'[d].at \in {"idle", "decided", "shadow", "ready", "writing"}
  BY <1>2 DEF CreateRouted, RouteShadow, Charge
<1>3. ASSUME NEW c \in Chats, StartDirect(c) \/ EndChat(c)
      PROVE  \A d \in Chats : chat'[d].at \in {"idle", "decided", "shadow", "ready", "writing"}
  <2>1. CASE StartDirect(c)
    <3>1. PICK llm, to : chat' = [chat EXCEPT ![c] = [Idle EXCEPT !.at = "ready", !.llm = llm, !.to = to]]
      BY <2>1 DEF StartDirect
    <3> QED BY <3>1 DEF Idle
  <2>2. CASE EndChat(c)
    BY <2>2 DEF EndChat, Idle
  <2> QED BY <1>3, <2>1, <2>2
<1>4. ASSUME NEW c \in Chats, CallEnds(c)
      PROVE  \A d \in Chats : chat'[d].at \in {"idle", "decided", "shadow", "ready", "writing"}
  <2>1. PICK cost : chat' = [chat EXCEPT ![c].at = "writing", ![c].cost = cost]
    BY <1>4 DEF CallEnds
  <2> QED BY <2>1
<1>5. CASE UNCHANGED chat
  BY <1>5
<1> QED
  BY <1>1, <1>2, <1>3, <1>4, <1>5 DEF RoutingNext, CallFails, CollectErrorRates, ResetMonthly,
     CooldownOver, routingVars

(* The alarms are counted, at most one of them at a time. *)
LEMMA AlarmsCounted == AlarmOnce => alarms \in Nat
BY DEF AlarmOnce

(* The state of the router, the breaker, the metrics and the chats keeps its
   types, for any table of costs and any number of chats. *)
THEOREM RoutingTypeCorrect == RoutingSpec => []RoutingTypeOK
<1>1. RoutingInit => TypesInv
  <2> SUFFICES ASSUME RoutingInit PROVE RoutingTypeOK
    BY BudgetInit, BreakerInit DEF TypesInv
  <2>1. conf \in Settings
    BY RoutingAssumption DEF RoutingInit
  <2>2. BudgetInv /\ BreakerInv
    BY BudgetInit, BreakerInit
  <2>3. \A c \in Chats : chat[c].at = "idle" /\ chat[c].cost = 0
    BY DEF RoutingInit, Idle
  <2>4. errorHigh \in [AllProviders -> BOOLEAN] /\ reports \in [AllProviders -> [ok : Nat, bad : Nat]]
    BY DEF RoutingInit, AllProviders, NoCalls
  <2> QED
    BY <2>1, <2>2, <2>3, <2>4, AlarmsCounted
    DEF RoutingTypeOK, BudgetInv, BreakerInv, AllProviders
<1>2. TypesInv /\ [RoutingNext]_routingVars => TypesInv'
  <2> SUFFICES ASSUME TypesInv, [RoutingNext]_routingVars PROVE TypesInv'
    OBVIOUS
  <2>1. BudgetInv' /\ BreakerInv'
    BY BudgetStep, BreakerStep DEF TypesInv
  <2>2. alarms' \in Nat /\ spent' \in Nat /\ Owing /\ Owing'
    BY <2>1, RoutingAssumption DEF BudgetInv, AlarmOnce, TypesInv
  <2>3. RoutingTypeOK'
    BY <2>1, <2>2, ReportsStayCounts, OthersStayTyped, ChatsStayTyped
    DEF RoutingTypeOK, TypesInv, BreakerInv, AllProviders
  <2> QED BY <2>1, <2>3 DEF TypesInv
<1>3. TypesInv => RoutingTypeOK
  BY DEF TypesInv
<1> QED BY <1>1, <1>2, <1>3, PTL DEF RoutingSpec

-----------------------------------------------------------------------------
(* The decisions.                                                          *)

(* Where the router may send a chat: what a policy prefers, what it falls back
   to, and the cheapest. *)
Routes ==
  {Cheapest, To("openai", "gpt-4o-mini"), To("openai", "gpt-4o"), To("custom-openai", "default"),
   To("anthropic", "claude-3-haiku")}

(* The tables the router can serve: each route has a price, and the cheapest
   provider is one that create_llm knows in the table's spelling. *)
ServableTable ==
  /\ Cheapest.provider \in {"openai", "custom-openai", "anthropic"}
  /\ \A r \in Routes : Priced(r.provider, r.model) # {}

(* The tables whose cheapest model costs nothing. *)
FreeTable == CallCost(Cheapest.provider, Cheapest.model) = {0}

(* An LLM that a call can be sent to, or the placeholder. *)
Servable(llm) ==
  /\ llm.endpoint \in {"openai", "custom-openai", "zai", "anthropic", "orya", "placeholder"}
  /\ llm.endpoint # "placeholder" => llm.key = llm.endpoint

(* The first of the cheapest models of DEFAULT_COSTS_YAML is custom-openai's, for free. *)
LEMMA DefaultCheapest == Costs = DefaultCosts => Cheapest = To("custom-openai", "default")
<1> SUFFICES ASSUME Costs = DefaultCosts PROVE Cheapest = To("custom-openai", "default")
  OBVIOUS
<1>1. /\ DOMAIN Costs = 1..10 /\ Costs # <<>>
      /\ Costs[6] = Price("custom-openai", "default", 0, 0)
      /\ \A i \in 1..10 : Costs[i].prompt + Costs[i].completion >= 0
      /\ \A i \in 1..5 : Costs[i].prompt + Costs[i].completion > 0
  BY DEF DefaultCosts, Price
<1> DEFINE avg(i) == Costs[i].prompt + Costs[i].completion
           cheapest == {i \in DOMAIN Costs : \A j \in DOMAIN Costs : avg(i) <= avg(j)}
<1>2. avg(6) = 0
  BY <1>1 DEF Price
<1>3. \A i \in 1..10 : avg(i) \in Int
  BY DEF DefaultCosts, Price
<1>4. 6 \in cheapest
  BY <1>1, <1>2, <1>3
<1>5. \A i \in cheapest : i \in 1..10 /\ i >= 6
  BY <1>1, <1>2, <1>3
<1>6. CheapestModel = CHOOSE i \in cheapest : \A j \in cheapest : i <= j
  BY DEF CheapestModel
<1> HIDE DEF cheapest
<1>7. CheapestModel = 6
  BY <1>4, <1>5, <1>6
<1> QED BY <1>1, <1>7 DEF Cheapest, Price

(* The table the repository ships can be served, and its cheapest model is free. *)
LEMMA DefaultTable == Costs = DefaultCosts => ServableTable /\ FreeTable
<1> SUFFICES ASSUME Costs = DefaultCosts PROVE ServableTable /\ FreeTable
  OBVIOUS
<1>1. Cheapest = To("custom-openai", "default")
  BY DefaultCheapest
<1>2. /\ DOMAIN Costs = 1..10
      /\ Costs[1] = Price("openai", "gpt-4o-mini", 15, 60)
      /\ Costs[2] = Price("openai", "gpt-4o", 250, 1000)
      /\ Costs[5] = Price("anthropic", "claude-3-haiku", 25, 125)
      /\ Costs[6] = Price("custom-openai", "default", 0, 0)
  BY DEF DefaultCosts
<1>3. \A p \in {"openai", "anthropic", "custom-openai"} : Lower(p) = p
  BY DEF Lower
<1>4. /\ 1 \in Priced("openai", "gpt-4o-mini") /\ 2 \in Priced("openai", "gpt-4o")
      /\ 5 \in Priced("anthropic", "claude-3-haiku") /\ 6 \in Priced("custom-openai", "default")
  BY <1>2, <1>3 DEF Priced, Price
<1>5. ServableTable
  BY <1>1, <1>4 DEF ServableTable, Routes, To
<1>6. \A i \in 1..10 : Costs[i].provider = "custom-openai" => Costs[i].prompt + Costs[i].completion = 0
  BY DEF DefaultCosts, Price
<1>7. ~\E i \in Priced("custom-openai", "default") : Costs[i].prompt + Costs[i].completion > 0
  BY <1>2, <1>3, <1>6 DEF Priced
<1>8. CallCost("custom-openai", "default") = {0}
  BY <1>7 DEF CallCost
<1> QED BY <1>1, <1>5, <1>8 DEF FreeTable, To

(* route() never leaves the routes, whatever the budget and the breaker say. *)
LEMMA DecisionIsRoute == \A policy \in Policies : Decision(policy) \in Routes
<1> TAKE policy \in Policies
<1>1. Primary(policy) \in Routes
  BY DEF Primary, Routes, Policies
<1>2. Fallback(Primary(policy)) \in Routes
  BY <1>1 DEF Fallback, Routes
<1> QED BY <1>1, <1>2 DEF Decision, Routes

(* create_llm builds a client for each route of such a table. *)
LEMMA RoutesServed == ServableTable => \A r \in Routes : Servable(CreateLlm(r))
<1> SUFFICES ASSUME ServableTable, NEW r \in Routes PROVE Servable(CreateLlm(r))
  OBVIOUS
<1>1. r.provider \in {"openai", "custom-openai", "anthropic"}
  BY DEF Routes, ServableTable, To
<1> QED BY <1>1 DEF CreateLlm, Factory, Client, Servable

(* start_chat without the router gets a client or the placeholder from every
   provider of the settings. *)
LEMMA DirectServed == \A p \in Providers : Servable(DirectLlm(p))
<1> TAKE p \in Providers
<1>1. CASE p = "OPENAI"
  BY <1>1 DEF DirectLlm, DirectKey, Lower, Factory, Client, Servable
<1>2. CASE p = "CUSTOM-OPENAI"
  BY <1>2 DEF DirectLlm, DirectKey, Lower, Factory, Client, Servable
<1>3. CASE p = "ZAI"
  BY <1>3 DEF DirectLlm, DirectKey, Lower, Factory, Client, Servable
<1>4. CASE p = "ANTHROPIC"
  BY <1>4 DEF DirectLlm, DirectKey, Lower, Factory, Client, Servable
<1>5. CASE p = "OLLAMA"
  BY <1>5 DEF DirectLlm, DirectKey, Lower, Factory, Client, Raises, Servable
<1> QED BY <1>1, <1>2, <1>3, <1>4, <1>5 DEF Providers

(* A chat that the router decided for goes to one of its routes, and its LLM is
   of use once it is created. *)
Served(c) ==
  /\ chat[c].policed => chat[c].to \in Routes
  /\ chat[c].at = "decided" => chat[c].policed
  /\ chat[c].at \in {"shadow", "ready", "writing"} => Servable(chat[c].llm)

DecisionInv == conf \in Settings /\ Owing /\ \A c \in Chats : Served(c)

(* A step of a chat leaves it served, and the other chats alone. *)
LEMMA ServedStep ==
  ASSUME ServableTable, DecisionInv, NEW c \in Chats,
         \/ \E policy \in conf.policies : StartRouted(c, policy)
         \/ CreateRouted(c) \/ RouteShadow(c) \/ StartDirect(c)
         \/ CallEnds(c) \/ Charge(c) \/ CallFails(c) \/ EndChat(c)
  PROVE  \A d \in Chats : Served(d)'
<1> USE DEF DecisionInv, Owing, ChatFields
<1>1. ASSUME NEW policy \in conf.policies, StartRouted(c, policy) PROVE \A d \in Chats : Served(d)'
  <2>1. Decision(policy) \in Routes
    BY DecisionIsRoute DEF Settings
  <2>2. PICK to \in Routes : to = Decision(policy)
    BY <2>1
  <2>3. chat' = [chat EXCEPT ![c] = [Idle EXCEPT !.at = "decided", !.to = to,
                                       !.policed = TRUE, !.late = spent >= GuardAt]]
    BY <1>1, <2>2 DEF StartRouted
  <2> QED BY <2>2, <2>3 DEF Served, Idle
<1>2. CASE CreateRouted(c)
  <2>1. chat[c].to \in Routes
    BY <1>2 DEF CreateRouted, Served
  <2>2. PICK llm : llm = CreateLlm(chat[c].to)
    OBVIOUS
  <2>3. Servable(llm)
    BY <2>1, <2>2, RoutesServed
  <2>4. chat' = [chat EXCEPT ![c].llm = llm, ![c].at = IF conf.shadow THEN "shadow" ELSE "ready"]
    BY <1>2, <2>2 DEF CreateRouted
  <2> QED BY <1>2, <2>3, <2>4 DEF Served
<1>3. CASE RouteShadow(c)
  BY <1>3 DEF RouteShadow, Served
<1>4. CASE StartDirect(c)
  <2>1. PICK llm : llm = DirectLlm(conf.provider)
    OBVIOUS
  <2>2. Servable(llm)
    BY <2>1, DirectServed DEF Settings
  <2>3. chat' = [chat EXCEPT ![c] = [Idle EXCEPT !.at = "ready", !.llm = llm,
                                       !.to = To(conf.provider, conf.model)]]
    BY <1>4, <2>1 DEF StartDirect
  <2> QED BY <2>2, <2>3 DEF Served, Idle
<1>5. CASE CallEnds(c)
  <2>1. chat[c].at = "ready"
    BY <1>5 DEF CallEnds
  <2>2. PICK cost : chat' = [chat EXCEPT ![c].at = "writing", ![c].cost = cost]
    BY <1>5 DEF CallEnds
  <2> QED BY <2>1, <2>2 DEF Served
<1>6. CASE Charge(c)
  BY <1>6 DEF Charge, Served
<1>7. CASE CallFails(c)
  BY <1>7 DEF CallFails, Served
<1>8. CASE EndChat(c)
  BY <1>8 DEF EndChat, Served, Idle
<1> QED BY <1>1, <1>2, <1>3, <1>4, <1>5, <1>6, <1>7, <1>8

(* With a table that can be served, whatever the budget and the breakers make
   the router decide, and whatever happens between the decision and the client,
   the factory knows the provider, the key is the endpoint's and the model has a
   price (llm_router.py: route, create_llm; service.py: start_chat). *)
THEOREM DecisionsServable == ASSUME ServableTable PROVE RoutingSpec => []DecisionServable
<1> DEFINE Inv == BudgetInv /\ DecisionInv
<1>1. RoutingInit => Inv
  <2> SUFFICES ASSUME RoutingInit PROVE DecisionInv
    BY BudgetInit
  <2>1. conf \in Settings /\ Owing
    BY RoutingAssumption, BudgetInit DEF RoutingInit, BudgetInv
  <2>2. \A c \in Chats : Served(c)
    BY DEF RoutingInit, Served, Idle
  <2> QED BY <2>1, <2>2 DEF DecisionInv
<1>2. Inv /\ [RoutingNext]_routingVars => Inv'
  <2> SUFFICES ASSUME Inv, [RoutingNext]_routingVars PROVE DecisionInv'
    BY BudgetStep
  <2>1. Owing'
    BY BudgetStep DEF BudgetInv
  <2>2. conf' \in Settings
    BY DEF DecisionInv, RoutingNext, StartRouted, CreateRouted, RouteShadow, StartDirect, CallEnds, Charge,
       CallFails, EndChat, CollectErrorRates, ResetMonthly, CooldownOver, routingVars
  <2>3. CASE UNCHANGED chat
    BY <2>1, <2>2, <2>3 DEF DecisionInv, Served
  <2>4. ASSUME NEW c \in Chats,
               \/ \E policy \in conf.policies : StartRouted(c, policy)
               \/ CreateRouted(c) \/ RouteShadow(c) \/ StartDirect(c)
               \/ CallEnds(c) \/ Charge(c) \/ CallFails(c) \/ EndChat(c)
        PROVE  DecisionInv'
    BY <2>1, <2>2, <2>4, ServedStep DEF DecisionInv
  <2> QED
    BY <2>3, <2>4 DEF RoutingNext, CollectErrorRates, ResetMonthly, CooldownOver, routingVars
<1>3. Inv => DecisionServable
  <2> SUFFICES ASSUME DecisionInv, NEW c \in Chats, chat[c].policed
               PROVE  Priced(chat[c].to.provider, chat[c].to.model) # {}
    BY DEF DecisionServable, DecisionInv, Served, Servable
  <2> QED BY DEF DecisionInv, Served, ServableTable
<1> QED BY <1>1, <1>2, <1>3, PTL DEF RoutingSpec

-----------------------------------------------------------------------------
(* The guard.                                                              *)

(* A chat whose model was chosen over the threshold is on the cheapest model,
   and the call it reports cost nothing. *)
LateIsFree ==
  /\ DOMAIN chat = Chats
  /\ \A c \in Chats : /\ DOMAIN chat[c] = ChatFields
                      /\ chat[c].late => chat[c].to = Cheapest /\ chat[c].cost = 0

(* A step of a chat leaves it so. *)
LEMMA LateStep ==
  ASSUME FreeTable, LateIsFree, [RoutingNext]_routingVars
  PROVE  LateIsFree'
<1> USE DEF LateIsFree, ChatFields
<1>1. ASSUME NEW c \in Chats, NEW policy, StartRouted(c, policy) PROVE LateIsFree'
  <2>1. PICK to : to = Decision(policy)
    OBVIOUS
  <2>2. chat' = [chat EXCEPT ![c] = [Idle EXCEPT !.at = "decided", !.to = to,
                                       !.policed = TRUE, !.late = spent >= GuardAt]]
    BY <1>1, <2>1 DEF StartRouted
  <2>3. spent >= GuardAt => to = Cheapest
    BY <2>1 DEF Decision, OverGuard
  <2>4. DOMAIN chat' = Chats /\ \A d \in Chats : DOMAIN chat'[d] = ChatFields
    BY <2>2 DEF Idle
  <2>5. chat'[c].late => chat'[c].to = Cheapest /\ chat'[c].cost = 0
    BY <2>2, <2>3 DEF Idle
  <2>6. \A d \in Chats \ {c} : chat'[d] = chat[d]
    BY <2>2
  <2> QED BY <2>4, <2>5, <2>6
<1>2. ASSUME NEW c \in Chats, CreateRouted(c) PROVE LateIsFree'
  BY <1>2 DEF CreateRouted
<1>3. ASSUME NEW c \in Chats, RouteShadow(c) PROVE LateIsFree'
  BY <1>3 DEF RouteShadow
<1>4. ASSUME NEW c \in Chats, StartDirect(c) \/ EndChat(c) PROVE LateIsFree'
  <2>1. PICK llm, to : chat' = [chat EXCEPT ![c] = [Idle EXCEPT !.at = "ready", !.llm = llm, !.to = to]]
                       \/ chat' = [chat EXCEPT ![c] = Idle]
    BY <1>4 DEF StartDirect, EndChat
  <2>2. DOMAIN chat' = Chats /\ \A d \in Chats : DOMAIN chat'[d] = ChatFields
    BY <2>1 DEF Idle
  <2>3. ~chat'[c].late
    <3>1. CASE chat' = [chat EXCEPT ![c] = [Idle EXCEPT !.at = "ready", !.llm = llm, !.to = to]]
      BY <3>1 DEF Idle
    <3>2. CASE chat' = [chat EXCEPT ![c] = Idle]
      BY <3>2 DEF Idle
    <3> QED BY <2>1, <3>1, <3>2
  <2>4. \A d \in Chats \ {c} : chat'[d] = chat[d]
    BY <2>1
  <2> QED BY <2>2, <2>3, <2>4
<1>5. ASSUME NEW c \in Chats, CallEnds(c) PROVE LateIsFree'
  <2>1. PICK cost \in CallCost(chat[c].to.provider, chat[c].to.model) :
          chat' = [chat EXCEPT ![c].at = "writing", ![c].cost = cost]
    BY <1>5 DEF CallEnds
  <2>2. chat[c].late => cost = 0
    BY <2>1 DEF FreeTable
  <2> QED BY <2>1, <2>2
<1>6. ASSUME NEW c \in Chats, Charge(c) PROVE LateIsFree'
  BY <1>6 DEF Charge
<1>7. CASE UNCHANGED chat
  BY <1>7
<1> QED
  BY <1>1, <1>2, <1>3, <1>4, <1>5, <1>6, <1>7 DEF RoutingNext, CallFails, CollectErrorRates,
     ResetMonthly, CooldownOver, routingVars

(* If the cheapest model is free, then past the threshold the spend grows only
   by calls of chats whose model was chosen before it was reached, or past the
   router, however the calls and the decisions of the chats interleave
   (llm_router.py: route, record_spend). *)
THEOREM GuardHolds == ASSUME FreeTable PROVE RoutingSpec => GuardStopsSpending
<1> DEFINE Inv == BudgetInv /\ LateIsFree
<1>1. RoutingInit => Inv
  <2> SUFFICES ASSUME RoutingInit PROVE LateIsFree
    BY BudgetInit
  <2> QED BY DEF RoutingInit, LateIsFree, Idle, Raises, To, ChatFields
<1>2. Inv /\ [RoutingNext]_routingVars => Inv'
  BY BudgetStep, LateStep
<1>3. Inv /\ [RoutingNext]_routingVars =>
        [spent >= GuardAt /\ spent' > spent =>
           \E c \in Chats : chat[c].at = "writing" /\ chat'[c].at = "ready" /\ ~chat[c].late]_routingVars
  <2> SUFFICES ASSUME BudgetInv, LateIsFree, RoutingNext, spent' > spent
               PROVE  \E c \in Chats : chat[c].at = "writing" /\ chat'[c].at = "ready" /\ ~chat[c].late
    OBVIOUS
  <2>1. spent \in Nat
    BY DEF BudgetInv
  <2>2. PICK c \in Chats : Charge(c)
    <3>1. ~UNCHANGED spent /\ ~ResetMonthly
      BY <2>1 DEF ResetMonthly
    <3> QED
      BY <3>1 DEF RoutingNext, StartRouted, CreateRouted, RouteShadow, StartDirect, CallEnds, CallFails,
         EndChat, CollectErrorRates, CooldownOver
  <2>3. chat[c].at = "writing" /\ chat'[c].at = "ready"
    BY <2>2 DEF Charge, LateIsFree, ChatFields
  <2>4. ~chat[c].late
    BY <2>1, <2>2 DEF Charge, LateIsFree
  <2> QED BY <2>3, <2>4
<1> QED BY <1>1, <1>2, <1>3, PTL DEF RoutingSpec, GuardStopsSpending

-----------------------------------------------------------------------------
(* The semantic cache.                                                     *)

ReaderFields == {"at", "q", "refs", "page", "best"}
MarkerFields == {"at", "doc", "page", "keys", "copy", "before"}
ReaderStages == {"idle", "plain", "looking", "fetching", "calling", "storing", "hit", "done"}
MarkerStages == {"idle", "not found", "scanning", "reading", "writing", "changing", "done"}
KeptAnswers == [q : Questions, by : Readers \cup {Earlier}, refs : SUBSET Docs, stale : BOOLEAN]

-----------------------------------------------------------------------------
(* The records of the calls and requests.                                  *)

Fields ==
  /\ DOMAIN reader = Readers /\ \A r \in Readers : DOMAIN reader[r] = ReaderFields
  /\ DOMAIN marker = Markers /\ \A m \in Markers : DOMAIN marker[m] = MarkerFields

(* Read changes the fields that it names of one call, and nothing else. *)
LEMMA ReadEffect ==
  ASSUME Fields, NEW r \in Readers, NEW changes, DOMAIN changes \subseteq ReaderFields, Read(r, changes)
  PROVE  /\ DOMAIN reader' = Readers /\ \A s \in Readers : DOMAIN reader'[s] = ReaderFields
         /\ \A s \in Readers \ {r} : reader'[s] = reader[s]
         /\ \A x \in DOMAIN changes : reader'[r][x] = changes[x]
         /\ \A x \in ReaderFields \ DOMAIN changes : reader'[r][x] = reader[r][x]
<1> DEFINE with == With(reader[r], changes)
<1>1. /\ DOMAIN with = ReaderFields
      /\ \A x \in DOMAIN changes : with[x] = changes[x]
      /\ \A x \in ReaderFields \ DOMAIN changes : with[x] = reader[r][x]
  BY DEF Fields, With
<1>2. reader' = [reader EXCEPT ![r] = with]
  BY DEF Read
<1> HIDE DEF with
<1> QED BY <1>1, <1>2 DEF Fields

(* Mark changes the fields that it names of one request, and nothing else. *)
LEMMA MarkEffect ==
  ASSUME Fields, NEW m \in Markers, NEW changes, DOMAIN changes \subseteq MarkerFields, Mark(m, changes)
  PROVE  /\ DOMAIN marker' = Markers /\ \A n \in Markers : DOMAIN marker'[n] = MarkerFields
         /\ \A n \in Markers \ {m} : marker'[n] = marker[n]
         /\ \A x \in DOMAIN changes : marker'[m][x] = changes[x]
         /\ \A x \in MarkerFields \ DOMAIN changes : marker'[m][x] = marker[m][x]
<1> DEFINE with == With(marker[m], changes)
<1>1. /\ DOMAIN with = MarkerFields
      /\ \A x \in DOMAIN changes : with[x] = changes[x]
      /\ \A x \in MarkerFields \ DOMAIN changes : with[x] = marker[m][x]
  BY DEF Fields, With
<1>2. marker' = [marker EXCEPT ![m] = with]
  BY DEF Mark
<1> HIDE DEF with
<1> QED BY <1>1, <1>2 DEF Fields

-----------------------------------------------------------------------------
(* The invariant.                                                          *)

(* Whoever computed an answer that is stored has nothing more to store. *)
Gone(b) == b = Earlier \/ (b \in Readers /\ reader[b].at = "done")

(* What a call carries: at most one question. *)
CallsInv ==
  \A r \in Readers :
    /\ reader[r].at \in ReaderStages
    /\ reader[r].q \subseteq Questions /\ reader[r].refs \subseteq Docs
    /\ \A p, q \in reader[r].q : p = q

(* What a request carries: copies that it marked, of one answer a question. *)
RequestsInv ==
  \A m \in Markers :
    /\ marker[m].at \in MarkerStages
    /\ marker[m].at = "idle" => marker[m] = Waiting
    /\ marker[m].at \in {"scanning", "reading", "writing"} => marker[m].page \in 1..Len(Buckets)
    /\ marker[m].copy \subseteq {e \in KeptAnswers : e.stale}
    /\ \A e, f \in marker[m].copy : e.q = f.q => e = f
    /\ \A b \in marker[m].before : Gone(b)

StoreInv ==
  /\ embeddings \subseteq Questions /\ documents \subseteq Docs /\ evictions \in 0..MaxEvictions
  /\ answers \subseteq KeptAnswers /\ \A e, f \in answers : e.q = f.q => e = f

(* The answers in Redis, and those about to be written back. *)
AllAnswers == answers \cup UNION {marker[m].copy : m \in Markers}

(* An answer's call says what it refers to. *)
OriginsInv ==
  /\ \A e \in AllAnswers : Gone(e.by)
  /\ \A e, f \in AllAnswers : e.by = f.by => e.refs = f.refs
  /\ \A m \in Markers, e \in AllAnswers : e.by \in marker[m].before => marker[m].doc \subseteq e.refs

(* Where the marking of m will still come to the question q. *)
Ahead(q, i) == \E j \in i..Len(Buckets) : q \in Buckets[j]
Pending(m, q) ==
  \/ marker[m].at = "scanning" /\ Ahead(q, marker[m].page)
  \/ marker[m].at = "reading" /\ (q \in marker[m].keys \/ Ahead(q, marker[m].page + 1))
  \/ /\ marker[m].at = "writing"
     /\ (\E f \in marker[m].copy : f.q = q) \/ Ahead(q, marker[m].page + 1)

(* An answer stored before m began is marked, or m will still come to it. *)
Reached(m) == \A e \in answers : e.by \in marker[m].before => e.stale \/ Pending(m, e.q)

CacheInv ==
  /\ Fields /\ CallsInv /\ RequestsInv /\ StoreInv /\ OriginsInv
  /\ cacheOn => \A m \in Markers : Reached(m)

-----------------------------------------------------------------------------
(* The calls.                                                              *)

(* Call r, which is not over, goes on with at most one question. *)
Moves(r) ==
  /\ reader[r].at # "done"
  /\ DOMAIN reader' = Readers /\ \A s \in Readers : DOMAIN reader'[s] = ReaderFields
  /\ \A s \in Readers \ {r} : reader'[s] = reader[s]
  /\ reader'[r].at \in ReaderStages
  /\ reader'[r].q \subseteq Questions /\ reader'[r].refs \subseteq Docs
  /\ \A p, q \in reader'[r].q : p = q

(* The operations of a call, but for the put of its answer. *)
Thinks(r) == Ask(r) \/ LookupPage(r) \/ FetchAnswer(r) \/ CallModel(r) \/ PutFails(r)

(* A call whose stage changes, and neither its question nor its documents. *)
LEMMA StageMoves ==
  ASSUME Fields, CallsInv, NEW r \in Readers, reader[r].at # "done",
         NEW changes, DOMAIN changes \subseteq {"at", "best", "page"},
         "at" \in DOMAIN changes => changes["at"] \in ReaderStages, Read(r, changes)
  PROVE  Moves(r)
<1>1. /\ DOMAIN reader' = Readers /\ \A s \in Readers : DOMAIN reader'[s] = ReaderFields
      /\ \A s \in Readers \ {r} : reader'[s] = reader[s]
      /\ \A x \in DOMAIN changes : reader'[r][x] = changes[x]
      /\ \A x \in ReaderFields \ DOMAIN changes : reader'[r][x] = reader[r][x]
  BY ReadEffect DEF ReaderFields
<1>2. reader'[r].q = reader[r].q /\ reader'[r].refs = reader[r].refs
  BY <1>1 DEF ReaderFields
<1>3. reader'[r].at \in ReaderStages
  BY <1>1 DEF ReaderFields, CallsInv
<1> QED BY <1>1, <1>2, <1>3 DEF Moves, CallsInv

(* A call that is over for good. *)
LEMMA OverMoves ==
  ASSUME Fields, NEW r \in Readers, reader[r].at # "done", Read(r, Over)
  PROVE  Moves(r) /\ reader'[r].at = "done"
<1>1. DOMAIN Over = ReaderFields
  BY DEF Over, ReaderFields
<1>2. /\ DOMAIN reader' = Readers /\ \A s \in Readers : DOMAIN reader'[s] = ReaderFields
      /\ \A s \in Readers \ {r} : reader'[s] = reader[s]
      /\ \A x \in ReaderFields : reader'[r][x] = Over[x]
  BY <1>1, ReadEffect
<1>3. reader'[r].at = "done" /\ reader'[r].q = {} /\ reader'[r].refs = {}
  BY <1>2 DEF ReaderFields, Over
<1> QED BY <1>2, <1>3 DEF Moves, ReaderStages

(* Every operation of a call but the put is such a move. *)
LEMMA ThinksMoves ==
  ASSUME Fields, CallsInv, StoreInv, NEW r \in Readers, Thinks(r)
  PROVE  Moves(r)
<1>1. CASE Ask(r)
  <2>1. PICK q \in Questions, refs \in SUBSET documents, at \in {"looking", "plain"} :
          Read(r, [q |-> {q}, refs |-> refs, at |-> at])
    BY <1>1 DEF Ask
  <2> DEFINE changes == [q |-> {q}, refs |-> refs, at |-> at]
  <2>2. /\ DOMAIN reader' = Readers /\ \A s \in Readers : DOMAIN reader'[s] = ReaderFields
        /\ \A s \in Readers \ {r} : reader'[s] = reader[s]
        /\ \A x \in {"q", "refs", "at"} : reader'[r][x] = changes[x]
    <3>1. DOMAIN changes = {"q", "refs", "at"}
      OBVIOUS
    <3> HIDE DEF changes
    <3> QED BY <2>1, <3>1, ReadEffect DEF ReaderFields, changes
  <2>3. reader'[r].q = {q} /\ reader'[r].refs = refs /\ reader'[r].at = at
    BY <2>2
  <2>4. reader[r].at # "done"
    BY <1>1 DEF Ask
  <2> QED BY <2>2, <2>3, <2>4 DEF Moves, StoreInv, ReaderStages
<1>2. CASE LookupPage(r)
  <2>1. PICK changes : /\ Read(r, changes)
                       /\ \/ \E best, page : changes = [best |-> best, page |-> page]
                          \/ \E best : changes = [best |-> best, page |-> 1, at |-> "fetching"]
                          \/ changes = Miss
    BY <1>2 DEF LookupPage
  <2>2. DOMAIN changes \subseteq {"at", "best", "page"}
    BY <2>1 DEF Miss
  <2>3. "at" \in DOMAIN changes => changes["at"] \in ReaderStages
    BY <2>1 DEF Miss, ReaderStages
  <2>4. reader[r].at # "done"
    BY <1>2 DEF LookupPage
  <2> QED BY <2>1, <2>2, <2>3, <2>4, StageMoves
<1>3. CASE FetchAnswer(r)
  <2>1. PICK changes \in {Miss, [at |-> "hit"]} : Read(r, changes)
    BY <1>3 DEF FetchAnswer
  <2>2. /\ DOMAIN changes \subseteq {"at", "best", "page"}
        /\ "at" \in DOMAIN changes => changes["at"] \in ReaderStages
    BY <2>1 DEF Miss, ReaderStages
  <2>3. reader[r].at # "done"
    BY <1>3 DEF FetchAnswer
  <2> QED BY <2>1, <2>2, <2>3, StageMoves
<1>4. CASE CallModel(r)
  <2>1. reader[r].at # "done"
    BY <1>4 DEF CallModel
  <2>2. Read(r, Over) \/ Read(r, [at |-> "storing"])
    BY <1>4 DEF CallModel
  <2>3. CASE Read(r, [at |-> "storing"])
    <3>1. PICK changes : changes = [at |-> "storing"]
      OBVIOUS
    <3>2. DOMAIN changes = {"at"} /\ changes["at"] \in ReaderStages
      BY <3>1 DEF ReaderStages
    <3> QED BY <2>1, <2>3, <3>1, <3>2, StageMoves
  <2> QED BY <2>1, <2>2, <2>3, OverMoves
<1>5. CASE PutFails(r)
  BY <1>5, OverMoves DEF PutFails
<1> QED BY <1>1, <1>2, <1>3, <1>4, <1>5 DEF Thinks

(* A call that moves keeps the types of all, and what is over stays so. *)
LEMMA MovesKeep ==
  ASSUME Fields, CallsInv, NEW r \in Readers, Moves(r), UNCHANGED marker
  PROVE  Fields' /\ CallsInv' /\ \A b : Gone(b) => Gone(b)'
BY DEF Fields, CallsInv, Moves, Gone

-----------------------------------------------------------------------------
(* The store.                                                              *)

(* What the invariant says of the requests stays true while they wait. *)
LEMMA RequestsWait ==
  ASSUME RequestsInv, UNCHANGED marker, \A b : Gone(b) => Gone(b)'
  PROVE  RequestsInv'
BY DEF RequestsInv

(* A request that waits is still ahead of every answer from before it: what is
   new in the store is marked, or is by a call it did not know of. *)
LEMMA StaysReached ==
  ASSUME NEW m \in Markers, Reached(m), marker'[m] = marker[m],
         \A e \in answers' : e \in answers \/ e.stale \/ e.by \notin marker[m].before
  PROVE  Reached(m)'
BY DEF Reached, Pending, Ahead

(* No new origin: every answer has the call and the documents of an earlier one. *)
Inherits == \A e \in AllAnswers' : \E f \in AllAnswers : f.by = e.by /\ f.refs = e.refs

(* Then calls still say what their answers refer to, for requests that have
   begun no other document. *)
LEMMA OriginsInherited ==
  ASSUME OriginsInv, Inherits, \A b : Gone(b) => Gone(b)',
         \A m \in Markers : marker'[m].before = marker[m].before /\ marker'[m].doc = marker[m].doc
  PROVE  OriginsInv'
<1>1. \A e \in AllAnswers' : Gone(e.by)'
  BY DEF OriginsInv, Inherits
<1>2. \A e, f \in AllAnswers' : e.by = f.by => e.refs = f.refs
  BY DEF OriginsInv, Inherits
<1>3. \A m \in Markers, e \in AllAnswers' : e.by \in marker'[m].before => marker'[m].doc \subseteq e.refs
  BY DEF OriginsInv, Inherits
<1> QED BY <1>1, <1>2, <1>3 DEF OriginsInv

(* A call that stores nothing keeps the invariant. *)
LEMMA ThinksKeeps ==
  ASSUME CacheInv, NEW r \in Readers, Thinks(r)
  PROVE  CacheInv'
<1> USE DEF CacheInv
<1>1. UNCHANGED <<cacheOn, embeddings, answers, documents, marker, evictions>>
  BY DEF Thinks, Ask, LookupPage, FetchAnswer, CallModel, PutFails
<1>2. Fields' /\ CallsInv' /\ \A b : Gone(b) => Gone(b)'
  BY <1>1, ThinksMoves, MovesKeep
<1>3. RequestsInv'
  BY <1>1, <1>2, RequestsWait
<1>4. StoreInv'
  BY <1>1 DEF StoreInv
<1>5. OriginsInv'
  <2>1. AllAnswers' = AllAnswers
    BY <1>1 DEF AllAnswers
  <2> QED BY <1>1, <1>2, <2>1 DEF OriginsInv
<1>6. cacheOn' => \A m \in Markers : Reached(m)'
  BY <1>1, StaysReached
<1> QED BY <1>2, <1>3, <1>4, <1>5, <1>6

(* A call that stores its answer: no answer that is stored is its own yet. *)
LEMMA PutKeeps ==
  ASSUME CacheInv, NEW r \in Readers, Put(r)
  PROVE  CacheInv'
<1> USE DEF CacheInv
<1> DEFINE new == {Entry(q, r, reader[r].refs) : q \in reader[r].q}
<1>1. /\ reader[r].at = "storing" /\ Read(r, Over) /\ answers' = Stored(new)
      /\ embeddings' = embeddings \cup reader[r].q
      /\ UNCHANGED <<cacheOn, documents, marker, evictions>>
  BY DEF Put
<1>2. Moves(r) /\ reader'[r].at = "done"
  BY <1>1, OverMoves
<1>3. Fields' /\ CallsInv' /\ \A b : Gone(b) => Gone(b)'
  BY <1>1, <1>2, MovesKeep
<1>4. ~Gone(r) /\ Gone(r)'
  <2>1. r # Earlier
    BY CacheAssumption
  <2> QED BY <1>1, <1>2, <2>1 DEF Gone
<1>5. RequestsInv'
  BY <1>1, <1>3, RequestsWait
<1>6. \A e \in new : /\ e \in KeptAnswers /\ e.by = r /\ e.refs = reader[r].refs
                     /\ e.q \in reader[r].q
  <2> SUFFICES ASSUME NEW q \in reader[r].q
               PROVE  LET e == Entry(q, r, reader[r].refs) IN
                      e \in KeptAnswers /\ e.by = r /\ e.refs = reader[r].refs /\ e.q \in reader[r].q
    OBVIOUS
  <2>1. q \in Questions /\ reader[r].refs \in SUBSET Docs
    BY DEF CallsInv
  <2> QED BY <2>1 DEF Entry, KeptAnswers
<1>7. \A e, f \in new : e.q = f.q => e = f
  BY DEF CallsInv
<1> HIDE DEF new
<1>8. \A e \in answers' : e \in answers \/ e \in new
  BY <1>1 DEF Stored
<1>9. StoreInv'
  <2>1. answers' \subseteq KeptAnswers
    BY <1>6, <1>8 DEF StoreInv
  <2>2. \A e, f \in answers' : e.q = f.q => e = f
    BY <1>1, <1>7 DEF StoreInv, Stored
  <2>3. embeddings' \subseteq Questions
    BY <1>1 DEF StoreInv, CallsInv
  <2> QED BY <1>1, <2>1, <2>2, <2>3 DEF StoreInv
<1>10. \A e \in AllAnswers' : e \in AllAnswers \/ e \in new
  BY <1>1, <1>8 DEF AllAnswers
<1>11. \A e \in AllAnswers : e.by # r
  BY <1>4 DEF OriginsInv
<1>12. \A m \in Markers : r \notin marker[m].before
  BY <1>4 DEF RequestsInv
<1>13. OriginsInv'
  <2>1. \A e \in AllAnswers' : Gone(e.by)'
    BY <1>3, <1>4, <1>6, <1>10 DEF OriginsInv
  <2>2. \A e, f \in AllAnswers' : e.by = f.by => e.refs = f.refs
    BY <1>6, <1>10, <1>11 DEF OriginsInv
  <2>3. \A m \in Markers, e \in AllAnswers' : e.by \in marker'[m].before => marker'[m].doc \subseteq e.refs
    BY <1>1, <1>6, <1>10, <1>12 DEF OriginsInv
  <2> QED BY <2>1, <2>2, <2>3 DEF OriginsInv
<1>14. cacheOn' => \A m \in Markers : Reached(m)'
  <2>1. \A m \in Markers : \A e \in answers' : e \in answers \/ e.stale \/ e.by \notin marker[m].before
    BY <1>6, <1>8, <1>12
  <2> QED BY <1>1, <2>1, StaysReached
<1> QED BY <1>3, <1>5, <1>9, <1>13, <1>14

(* Redis drops what it likes. *)
LEMMA EvictKeeps ==
  ASSUME CacheInv, EvictKey
  PROVE  CacheInv'
<1> USE DEF CacheInv
<1>1. /\ UNCHANGED <<cacheOn, documents, reader, marker>>
      /\ evictions < MaxEvictions /\ evictions' = evictions + 1
      /\ answers' \subseteq answers /\ embeddings' \subseteq embeddings
  BY DEF EvictKey
<1>2. Fields' /\ CallsInv' /\ \A b : Gone(b) => Gone(b)'
  BY <1>1 DEF Fields, CallsInv, Gone
<1>3. RequestsInv'
  BY <1>1, <1>2, RequestsWait
<1>4. StoreInv'
  BY <1>1, CacheAssumption DEF StoreInv
<1>5. OriginsInv'
  <2>1. AllAnswers' \subseteq AllAnswers
    BY <1>1 DEF AllAnswers
  <2> QED BY <1>1, <1>2, <2>1, OriginsInherited DEF Inherits
<1>6. cacheOn' => \A m \in Markers : Reached(m)'
  BY <1>1, StaysReached
<1> QED BY <1>2, <1>3, <1>4, <1>5, <1>6

-----------------------------------------------------------------------------
(* The requests.                                                           *)

(* What a step of request m leaves alone, and the types it keeps. *)
Acts(m) ==
  /\ UNCHANGED <<cacheOn, embeddings, reader, evictions>>
  /\ DOMAIN marker' = Markers /\ \A n \in Markers : DOMAIN marker'[n] = MarkerFields
  /\ \A n \in Markers \ {m} : marker'[n] = marker[n]
  /\ marker'[m].at \in MarkerStages \ {"idle"}
  /\ marker'[m].at \in {"scanning", "reading", "writing"} => marker'[m].page \in 1..Len(Buckets)
  /\ marker'[m].copy \subseteq {e \in KeptAnswers : e.stale}
  /\ \A e, f \in marker'[m].copy : e.q = f.q => e = f
  /\ documents' \subseteq documents
  /\ \A e \in answers' : e \in answers \/ e \in marker[m].copy
  /\ \A e, f \in answers' : e.q = f.q => e = f

(* Such a step of a request that has begun before, copies what is stored, and
   leaves no answer of before behind it, keeps the invariant. *)
LEMMA ActsKeeps ==
  ASSUME CacheInv, NEW m \in Markers, Acts(m),
         marker'[m].before = marker[m].before, marker'[m].doc = marker[m].doc,
         \A e \in marker'[m].copy :
           \E f \in answers \cup marker[m].copy : f.by = e.by /\ f.refs = e.refs,
         cacheOn => Reached(m)'
  PROVE  CacheInv'
<1> USE DEF CacheInv
<1>1. Fields' /\ CallsInv' /\ \A b : Gone(b) => Gone(b)'
  BY DEF Acts, Fields, CallsInv, Gone
<1>2. RequestsInv'
  <2> SUFFICES ASSUME NEW n \in Markers
               PROVE  /\ marker'[n].at \in MarkerStages
                      /\ marker'[n].at = "idle" => marker'[n] = Waiting
                      /\ marker'[n].at \in {"scanning", "reading", "writing"} => marker'[n].page \in 1..Len(Buckets)
                      /\ marker'[n].copy \subseteq {e \in KeptAnswers : e.stale}
                      /\ \A e, f \in marker'[n].copy : e.q = f.q => e = f
                      /\ \A b \in marker'[n].before : Gone(b)'
    BY DEF RequestsInv
  <2>1. CASE n = m
    BY <1>1, <2>1 DEF Acts, RequestsInv
  <2>2. CASE n # m
    <3>1. marker'[n] = marker[n]
      BY <2>2 DEF Acts
    <3> QED BY <1>1, <3>1 DEF RequestsInv
  <2> QED BY <2>1, <2>2
<1>3. StoreInv'
  BY DEF Acts, StoreInv, RequestsInv
<1>4. OriginsInv'
  <2>1. Inherits
    <3> SUFFICES ASSUME NEW e \in AllAnswers' PROVE \E f \in AllAnswers : f.by = e.by /\ f.refs = e.refs
      BY DEF Inherits
    <3>1. CASE e \in answers'
      BY <3>1 DEF Acts, AllAnswers
    <3>2. ASSUME NEW n \in Markers, e \in marker'[n].copy
          PROVE  \E f \in AllAnswers : f.by = e.by /\ f.refs = e.refs
      <4>1. CASE n = m
        BY <3>2, <4>1 DEF AllAnswers
      <4>2. CASE n # m
        BY <3>2, <4>2 DEF Acts, AllAnswers
      <4> QED BY <4>1, <4>2
    <3> QED BY <3>1, <3>2 DEF AllAnswers
  <2>2. \A n \in Markers : marker'[n].before = marker[n].before /\ marker'[n].doc = marker[n].doc
    BY DEF Acts
  <2> QED BY <1>1, <2>1, <2>2, OriginsInherited
<1>5. cacheOn' => \A n \in Markers : Reached(n)'
  <2>1. \A e \in answers' : e \in answers \/ e.stale
    BY DEF Acts, RequestsInv
  <2>2. cacheOn => \A n \in Markers \ {m} : Reached(n)'
    BY <2>1, StaysReached DEF Acts
  <2> QED BY <2>2 DEF Acts
<1> QED BY <1>1, <1>2, <1>3, <1>4, <1>5

(* What a request carries when its marking begins, or turns out not to. *)
LEMMA RequestKeeps ==
  ASSUME CacheInv, NEW m \in Markers, RequestChange(m)
  PROVE  CacheInv'
<1> USE DEF CacheInv
<1>1. marker[m].at = "idle" /\ marker[m] = Waiting
  BY DEF RequestChange, RequestsInv
<1>2. UNCHANGED <<cacheOn, embeddings, answers, documents, reader, evictions>>
  BY DEF RequestChange
<1>3. CASE Mark(m, [at |-> "not found"])
  <2> DEFINE changes == [at |-> "not found"]
  <2>1. DOMAIN changes = {"at"} /\ changes["at"] = "not found"
    OBVIOUS
  <2> HIDE DEF changes
  <2>2. /\ DOMAIN marker' = Markers /\ \A n \in Markers : DOMAIN marker'[n] = MarkerFields
        /\ \A n \in Markers \ {m} : marker'[n] = marker[n]
        /\ \A x \in DOMAIN changes : marker'[m][x] = changes[x]
        /\ \A x \in MarkerFields \ DOMAIN changes : marker'[m][x] = marker[m][x]
    <3>1. Mark(m, changes)
      BY <1>3 DEF changes
    <3>2. DOMAIN changes \subseteq MarkerFields
      BY <2>1 DEF MarkerFields
    <3> QED BY <2>1, <3>1, <3>2, MarkEffect
  <2>3. /\ marker'[m].at = "not found" /\ marker'[m].copy = {} /\ marker'[m].before = {}
        /\ marker'[m].before = marker[m].before /\ marker'[m].doc = marker[m].doc
    <3>1. marker'[m].at = "not found"
      BY <2>1, <2>2
    <3>2. /\ marker'[m].copy = marker[m].copy /\ marker'[m].before = marker[m].before
          /\ marker'[m].doc = marker[m].doc
      BY <2>1, <2>2 DEF MarkerFields
    <3>3. marker[m].copy = {} /\ marker[m].before = {}
      BY <1>1 DEF Waiting
    <3> QED BY <3>1, <3>2, <3>3
  <2>4. Acts(m)
    BY <1>2, <2>2, <2>3 DEF Acts, MarkerStages, StoreInv
  <2>5. Reached(m)'
    BY <2>3 DEF Reached
  <2> QED BY <2>3, <2>4, <2>5, ActsKeeps
<1>4. ASSUME NEW d \in Docs, Mark(m, Invalidation(d)) PROVE CacheInv'
  <2> DEFINE changes == Invalidation(d)
             before == {e.by : e \in {f \in answers : d \in f.refs}}
  <2>1. /\ DOMAIN changes = {"at", "doc", "before"} /\ changes["doc"] = {d}
        /\ changes["at"] = IF cacheOn THEN "scanning" ELSE "changing"
        /\ changes["before"] = before
    BY DEF Invalidation
  <2> HIDE DEF changes, before
  <2>2. /\ DOMAIN marker' = Markers /\ \A n \in Markers : DOMAIN marker'[n] = MarkerFields
        /\ \A n \in Markers \ {m} : marker'[n] = marker[n]
        /\ \A x \in DOMAIN changes : marker'[m][x] = changes[x]
        /\ \A x \in MarkerFields \ DOMAIN changes : marker'[m][x] = marker[m][x]
    BY <1>4, <2>1, MarkEffect DEF changes, MarkerFields
  <2>3. /\ marker'[m].at = IF cacheOn THEN "scanning" ELSE "changing"
        /\ marker'[m].doc = {d} /\ marker'[m].before = before
        /\ marker'[m].copy = {} /\ marker'[m].page = 1
    BY <1>1, <2>1, <2>2 DEF Waiting, MarkerFields
  <2>4. Fields' /\ CallsInv' /\ \A b : Gone(b) => Gone(b)'
    BY <1>2, <2>2 DEF Fields, CallsInv, Gone
  <2>5. \A b \in before : \E f \in answers : f.by = b /\ d \in f.refs
    BY DEF before
  <2>6. \A b \in before : Gone(b)
    BY <2>5 DEF OriginsInv, AllAnswers
  <2>7. Len(Buckets) \in Nat \ {0} /\ DOMAIN Buckets = 1..Len(Buckets)
    BY CacheAssumption
  <2>8. RequestsInv'
    <3> SUFFICES ASSUME NEW n \in Markers
                 PROVE  /\ marker'[n].at \in MarkerStages
                        /\ marker'[n].at = "idle" => marker'[n] = Waiting
                        /\ marker'[n].at \in {"scanning", "reading", "writing"} => marker'[n].page \in 1..Len(Buckets)
                        /\ marker'[n].copy \subseteq {e \in KeptAnswers : e.stale}
                        /\ \A e, f \in marker'[n].copy : e.q = f.q => e = f
                        /\ \A b \in marker'[n].before : Gone(b)'
      BY DEF RequestsInv
    <3>1. CASE n = m
      <4>1. marker'[m].at \in {"scanning", "changing"}
        BY <2>3
      <4>2. marker'[m].page \in 1..Len(Buckets)
        BY <2>3, <2>7
      <4> QED BY <2>3, <2>4, <2>6, <3>1, <4>1, <4>2 DEF MarkerStages
    <3>2. CASE n # m
      <4>1. marker'[n] = marker[n]
        BY <2>2, <3>2
      <4> QED BY <2>4, <4>1 DEF RequestsInv
    <3> QED BY <3>1, <3>2
  <2>9. StoreInv'
    BY <1>2 DEF StoreInv
  <2>10. OriginsInv'
    <3>1. \A e \in AllAnswers' : e \in AllAnswers
      <4> SUFFICES ASSUME NEW n \in Markers, NEW e \in marker'[n].copy PROVE e \in marker[n].copy
        BY <1>2 DEF AllAnswers
      <4> QED BY <2>2, <2>3
    <3>2. \A e \in AllAnswers : e.by \in before => d \in e.refs
      BY <2>5 DEF OriginsInv, AllAnswers
    <3>3. \A n \in Markers, e \in AllAnswers' : e.by \in marker'[n].before => marker'[n].doc \subseteq e.refs
      <4> SUFFICES ASSUME NEW n \in Markers, NEW e \in AllAnswers', e.by \in marker'[n].before
                   PROVE  marker'[n].doc \subseteq e.refs
        OBVIOUS
      <4>1. CASE n = m
        BY <2>3, <3>1, <3>2, <4>1
      <4>2. CASE n # m
        BY <2>2, <3>1, <4>2 DEF OriginsInv
      <4> QED BY <4>1, <4>2
    <3> QED BY <2>4, <3>1, <3>3 DEF OriginsInv
  <2>11. cacheOn' => \A n \in Markers : Reached(n)'
    <3> SUFFICES ASSUME cacheOn, NEW n \in Markers PROVE Reached(n)'
      BY <1>2
    <3>1. CASE n = m
      <4>1. \A e \in answers : Ahead(e.q, 1)
        BY <2>7, CacheAssumption DEF Ahead, StoreInv, KeptAnswers
      <4>2. marker'[m].at = "scanning" /\ marker'[m].page = 1
        BY <2>3
      <4>3. \A e \in answers' : Pending(m, e.q)'
        BY <1>2, <4>1, <4>2 DEF Pending, Ahead
      <4> QED BY <3>1, <4>3 DEF Reached
    <3>2. CASE n # m
      BY <1>2, <2>2, <3>2, StaysReached
    <3> QED BY <3>1, <3>2
  <2> QED BY <2>4, <2>8, <2>9, <2>10, <2>11
<1> QED BY <1>3, <1>4 DEF RequestChange

(* A step of a request that has begun keeps what it was asked for. *)
LEMMA GoesOn ==
  ASSUME Fields, NEW m \in Markers, NEW changes, DOMAIN changes \subseteq {"at", "page", "keys", "copy"},
         Mark(m, changes)
  PROVE  /\ DOMAIN marker' = Markers /\ \A n \in Markers : DOMAIN marker'[n] = MarkerFields
         /\ \A n \in Markers \ {m} : marker'[n] = marker[n]
         /\ marker'[m].before = marker[m].before /\ marker'[m].doc = marker[m].doc
         /\ \A x \in DOMAIN changes : marker'[m][x] = changes[x]
         /\ \A x \in {"at", "page", "keys", "copy"} \ DOMAIN changes : marker'[m][x] = marker[m][x]
<1>1. DOMAIN changes \subseteq MarkerFields
  BY DEF MarkerFields
<1>2. /\ DOMAIN marker' = Markers /\ \A n \in Markers : DOMAIN marker'[n] = MarkerFields
      /\ \A n \in Markers \ {m} : marker'[n] = marker[n]
      /\ \A x \in DOMAIN changes : marker'[m][x] = changes[x]
      /\ \A x \in MarkerFields \ DOMAIN changes : marker'[m][x] = marker[m][x]
  BY <1>1, MarkEffect
<1>3. marker'[m].before = marker[m].before /\ marker'[m].doc = marker[m].doc
  BY <1>2 DEF MarkerFields
<1> QED BY <1>2, <1>3 DEF MarkerFields

(* The page after the last is none. *)
LEMMA NextPageTyped ==
  ASSUME NEW m \in Markers, marker[m].page \in 1..Len(Buckets)
  PROVE  /\ NextPage(m) \in {"scanning", "changing"}
         /\ NextPage(m) = "scanning" => marker[m].page + 1 \in 1..Len(Buckets)
         /\ \A q : Ahead(q, marker[m].page + 1) => NextPage(m) = "scanning"
<1>1. Len(Buckets) \in Nat
  BY CacheAssumption
<1> QED BY <1>1 DEF NextPage, Ahead

(* A page is scanned: an answer whose key it does not return is further on. *)
LEMMA ScanKeeps ==
  ASSUME CacheInv, NEW m \in Markers, ScanPage(m)
  PROVE  CacheInv'
<1> USE DEF CacheInv
<1> DEFINE keys == {e.q : e \in answers} \cap Buckets[marker[m].page]
<1>1. /\ marker[m].at = "scanning" /\ marker[m].page \in 1..Len(Buckets)
      /\ marker[m].copy \subseteq {e \in KeptAnswers : e.stale}
      /\ \A e, f \in marker[m].copy : e.q = f.q => e = f
  BY DEF ScanPage, RequestsInv
<1>2. UNCHANGED <<cacheOn, embeddings, answers, documents, reader, evictions>>
  BY DEF ScanPage
<1>3. Len(Buckets) \in Nat
  BY CacheAssumption
<1>4. \A q : Ahead(q, marker[m].page) => q \in Buckets[marker[m].page] \/ Ahead(q, marker[m].page + 1)
  BY <1>1, <1>3 DEF Ahead
<1>5. cacheOn => \A e \in answers : e.by \in marker[m].before /\ ~e.stale =>
                   e.q \in keys \/ Ahead(e.q, marker[m].page + 1)
  BY <1>1, <1>4 DEF Reached, Pending
<1>6. CASE keys = {}
  <2> DEFINE changes == [at |-> NextPage(m), page |-> marker[m].page + 1]
  <2>1. DOMAIN changes = {"at", "page"} /\ changes["at"] = NextPage(m) /\ changes["page"] = marker[m].page + 1
    OBVIOUS
  <2>2. Mark(m, changes)
    BY <1>6 DEF ScanPage
  <2> HIDE DEF changes
  <2>3. /\ DOMAIN marker' = Markers /\ \A n \in Markers : DOMAIN marker'[n] = MarkerFields
        /\ \A n \in Markers \ {m} : marker'[n] = marker[n]
        /\ marker'[m].before = marker[m].before /\ marker'[m].doc = marker[m].doc
        /\ \A x \in DOMAIN changes : marker'[m][x] = changes[x]
        /\ \A x \in {"at", "page", "keys", "copy"} \ DOMAIN changes : marker'[m][x] = marker[m][x]
    BY <2>1, <2>2, GoesOn
  <2>4. marker'[m].at = NextPage(m) /\ marker'[m].page = marker[m].page + 1 /\ marker'[m].copy = marker[m].copy
    BY <2>1, <2>3
  <2>5. Acts(m)
    BY <1>1, <1>2, <2>3, <2>4, NextPageTyped DEF Acts, MarkerStages, StoreInv
  <2>6. cacheOn => Reached(m)'
    BY <1>1, <1>2, <1>5, <1>6, <2>3, <2>4, NextPageTyped DEF Reached, Pending, Ahead
  <2> QED BY <2>3, <2>4, <2>5, <2>6, ActsKeeps
<1>7. CASE keys # {}
  <2> DEFINE changes == [at |-> "reading", keys |-> keys]
  <2>1. DOMAIN changes = {"at", "keys"} /\ changes["at"] = "reading" /\ changes["keys"] = keys
    OBVIOUS
  <2>2. Mark(m, changes)
    BY <1>7 DEF ScanPage
  <2> HIDE DEF changes, keys
  <2>3. /\ DOMAIN marker' = Markers /\ \A n \in Markers : DOMAIN marker'[n] = MarkerFields
        /\ \A n \in Markers \ {m} : marker'[n] = marker[n]
        /\ marker'[m].before = marker[m].before /\ marker'[m].doc = marker[m].doc
        /\ \A x \in DOMAIN changes : marker'[m][x] = changes[x]
        /\ \A x \in {"at", "page", "keys", "copy"} \ DOMAIN changes : marker'[m][x] = marker[m][x]
    BY <2>1, <2>2, GoesOn
  <2>4. /\ marker'[m].at = "reading" /\ marker'[m].keys = keys
        /\ marker'[m].page = marker[m].page /\ marker'[m].copy = marker[m].copy
    BY <2>1, <2>3
  <2>5. Acts(m)
    BY <1>1, <1>2, <2>3, <2>4 DEF Acts, MarkerStages, StoreInv
  <2>6. cacheOn => Reached(m)'
    BY <1>2, <1>5, <2>3, <2>4 DEF Reached, Pending, Ahead
  <2> QED BY <2>3, <2>4, <2>5, <2>6, ActsKeeps
<1> QED BY <1>6, <1>7

(* The page's answers are read: those from before refer to the document, so
   they are among the copies. *)
LEMMA ReadKeeps ==
  ASSUME CacheInv, NEW m \in Markers, ReadPage(m)
  PROVE  CacheInv'
<1> USE DEF CacheInv
<1> DEFINE found == {e \in answers : e.q \in marker[m].keys /\ marker[m].doc \subseteq e.refs}
           copies == {[e EXCEPT !.stale = TRUE] : e \in found}
           changes == [at |-> "writing", copy |-> copies]
<1>1. marker[m].at = "reading" /\ marker[m].page \in 1..Len(Buckets)
  BY DEF ReadPage, RequestsInv
<1>2. UNCHANGED <<cacheOn, embeddings, answers, documents, reader, evictions>>
  BY DEF ReadPage
<1>3. Mark(m, changes)
  BY DEF ReadPage
<1>4. DOMAIN changes = {"at", "copy"} /\ changes["at"] = "writing" /\ changes["copy"] = copies
  OBVIOUS
<1>5. \A e \in found :
        LET c == [e EXCEPT !.stale = TRUE] IN
        c \in KeptAnswers /\ c.stale /\ c.q = e.q /\ c.by = e.by /\ c.refs = e.refs
  <2> SUFFICES ASSUME NEW e \in answers
               PROVE  LET c == [e EXCEPT !.stale = TRUE] IN
                      c \in KeptAnswers /\ c.stale /\ c.q = e.q /\ c.by = e.by /\ c.refs = e.refs
    OBVIOUS
  <2>1. e \in KeptAnswers
    BY DEF StoreInv
  <2> QED BY <2>1 DEF KeptAnswers
<1>6. /\ copies \subseteq {e \in KeptAnswers : e.stale}
      /\ \A c \in copies : \E e \in found : c = [e EXCEPT !.stale = TRUE] /\ c.q = e.q
      /\ \A c \in copies : \E e \in answers : c.by = e.by /\ c.refs = e.refs
      /\ \A e \in found : \E c \in copies : c.q = e.q
  BY <1>5
<1>7. ASSUME NEW c \in copies, NEW d \in copies, c.q = d.q PROVE c = d
  <2>1. PICK e \in found : c = [e EXCEPT !.stale = TRUE] /\ c.q = e.q
    BY <1>6
  <2>2. PICK f \in found : d = [f EXCEPT !.stale = TRUE] /\ d.q = f.q
    BY <1>6
  <2>3. e = f
    BY <1>7, <2>1, <2>2 DEF StoreInv
  <2> QED BY <2>1, <2>2, <2>3
<1> HIDE DEF copies, changes
<1>8. /\ DOMAIN marker' = Markers /\ \A n \in Markers : DOMAIN marker'[n] = MarkerFields
      /\ \A n \in Markers \ {m} : marker'[n] = marker[n]
      /\ marker'[m].before = marker[m].before /\ marker'[m].doc = marker[m].doc
      /\ \A x \in DOMAIN changes : marker'[m][x] = changes[x]
      /\ \A x \in {"at", "page", "keys", "copy"} \ DOMAIN changes : marker'[m][x] = marker[m][x]
  BY <1>3, <1>4, GoesOn
<1>9. marker'[m].at = "writing" /\ marker'[m].page = marker[m].page /\ marker'[m].copy = copies
  BY <1>4, <1>8
<1>10. Acts(m)
  BY <1>1, <1>2, <1>6, <1>7, <1>8, <1>9 DEF Acts, MarkerStages, StoreInv
<1>11. cacheOn => Reached(m)'
  <2> SUFFICES ASSUME cacheOn, NEW e \in answers, e.by \in marker[m].before, ~e.stale
               PROVE  Pending(m, e.q)'
    BY <1>2, <1>8 DEF Reached
  <2>1. e.q \in marker[m].keys \/ Ahead(e.q, marker[m].page + 1)
    BY <1>1 DEF Reached, Pending
  <2>2. CASE e.q \in marker[m].keys
    <3>1. marker[m].doc \subseteq e.refs
      BY DEF OriginsInv, AllAnswers
    <3>2. e \in found
      BY <2>2, <3>1
    <3> QED BY <1>6, <1>9, <3>2 DEF Pending
  <2>3. CASE Ahead(e.q, marker[m].page + 1)
    BY <1>9, <2>3 DEF Pending, Ahead
  <2> QED BY <2>1, <2>2, <2>3
<1>12. \A e \in marker'[m].copy : \E f \in answers \cup marker[m].copy : f.by = e.by /\ f.refs = e.refs
  BY <1>6, <1>9
<1> QED BY <1>8, <1>10, <1>11, <1>12, ActsKeeps

(* The copies are written: over whatever is under their keys by now. *)
LEMMA WriteKeeps ==
  ASSUME CacheInv, NEW m \in Markers, WritePage(m)
  PROVE  CacheInv'
<1> USE DEF CacheInv
<1> DEFINE changes == [at |-> NextPage(m), page |-> marker[m].page + 1, keys |-> {}, copy |-> {}]
<1>1. /\ marker[m].at = "writing" /\ marker[m].page \in 1..Len(Buckets)
      /\ \A c \in marker[m].copy : c.stale
      /\ \A e, f \in marker[m].copy : e.q = f.q => e = f
  BY DEF WritePage, RequestsInv
<1>2. UNCHANGED <<cacheOn, embeddings, documents, reader, evictions>> /\ answers' = Stored(marker[m].copy)
  BY DEF WritePage
<1>3. Mark(m, changes)
  BY DEF WritePage
<1>4. /\ DOMAIN changes = {"at", "page", "keys", "copy"} /\ changes["at"] = NextPage(m)
      /\ changes["page"] = marker[m].page + 1 /\ changes["copy"] = {}
  OBVIOUS
<1> HIDE DEF changes
<1>5. /\ DOMAIN marker' = Markers /\ \A n \in Markers : DOMAIN marker'[n] = MarkerFields
      /\ \A n \in Markers \ {m} : marker'[n] = marker[n]
      /\ marker'[m].before = marker[m].before /\ marker'[m].doc = marker[m].doc
      /\ \A x \in DOMAIN changes : marker'[m][x] = changes[x]
  BY <1>3, <1>4, GoesOn
<1>6. marker'[m].at = NextPage(m) /\ marker'[m].page = marker[m].page + 1 /\ marker'[m].copy = {}
  BY <1>4, <1>5
<1>7. /\ \A e \in answers' : e \in answers \/ e \in marker[m].copy
      /\ \A e \in answers' : ~e.stale => e \in answers /\ \A c \in marker[m].copy : c.q # e.q
      /\ \A e, f \in answers' : e.q = f.q => e = f
  BY <1>1, <1>2 DEF Stored, StoreInv
<1>8. Acts(m)
  BY <1>1, <1>2, <1>5, <1>6, <1>7, NextPageTyped DEF Acts, MarkerStages, StoreInv
<1>9. cacheOn => Reached(m)'
  <2> SUFFICES ASSUME cacheOn, NEW e \in answers', e.by \in marker[m].before, ~e.stale
               PROVE  Pending(m, e.q)'
    BY <1>2, <1>5 DEF Reached
  <2>1. Ahead(e.q, marker[m].page + 1)
    BY <1>1, <1>7 DEF Reached, Pending
  <2>2. NextPage(m) = "scanning"
    BY <1>1, <2>1, NextPageTyped
  <2> QED BY <1>6, <2>1, <2>2 DEF Pending, Ahead
<1> QED BY <1>5, <1>6, <1>8, <1>9, ActsKeeps

(* The row changes, and the request is over. *)
LEMMA ChangeKeeps ==
  ASSUME CacheInv, NEW m \in Markers, ChangeDocument(m)
  PROVE  CacheInv'
<1> USE DEF CacheInv
<1> DEFINE changes == [at |-> "done"]
<1>1. /\ marker[m].at = "changing" /\ marker[m].copy \subseteq {e \in KeptAnswers : e.stale}
      /\ \A e, f \in marker[m].copy : e.q = f.q => e = f
  BY DEF ChangeDocument, RequestsInv
<1>2. UNCHANGED <<cacheOn, embeddings, answers, reader, evictions>> /\ documents' \subseteq documents
  BY DEF ChangeDocument
<1>3. Mark(m, changes)
  BY DEF ChangeDocument
<1>4. DOMAIN changes = {"at"} /\ changes["at"] = "done"
  OBVIOUS
<1> HIDE DEF changes
<1>5. /\ DOMAIN marker' = Markers /\ \A n \in Markers : DOMAIN marker'[n] = MarkerFields
      /\ \A n \in Markers \ {m} : marker'[n] = marker[n]
      /\ marker'[m].before = marker[m].before /\ marker'[m].doc = marker[m].doc
      /\ \A x \in DOMAIN changes : marker'[m][x] = changes[x]
      /\ \A x \in {"at", "page", "keys", "copy"} \ DOMAIN changes : marker'[m][x] = marker[m][x]
  BY <1>3, <1>4, GoesOn
<1>6. marker'[m].at = "done" /\ marker'[m].copy = marker[m].copy
  BY <1>4, <1>5
<1>7. Acts(m)
  BY <1>1, <1>2, <1>5, <1>6 DEF Acts, MarkerStages, StoreInv
<1>8. cacheOn => Reached(m)'
  BY <1>1, <1>2, <1>5 DEF Reached, Pending
<1> QED BY <1>5, <1>6, <1>7, <1>8, ActsKeeps

-----------------------------------------------------------------------------
(* The theorems.                                                           *)

(* What an earlier process left refers to all documents, and nobody has begun. *)
LEMMA CacheInitially == CacheInit => CacheInv
<1> SUFFICES ASSUME CacheInit PROVE CacheInv
  OBVIOUS
<1>1. /\ reader = [r \in Readers |-> Asleep] /\ marker = [m \in Markers |-> Waiting]
      /\ documents = Docs /\ evictions = 0
  BY DEF CacheInit
<1>2. PICK left \in Leftovers : embeddings = left /\ answers = {Entry(q, Earlier, Docs) : q \in left}
  BY DEF CacheInit
<1>3. left \subseteq Questions
  BY <1>2, CacheAssumption
<1>4. Fields
  BY <1>1 DEF Fields, Asleep, Waiting, ReaderFields, MarkerFields
<1>5. CallsInv
  BY <1>1 DEF CallsInv, Asleep, ReaderStages
<1>6. RequestsInv
  BY <1>1 DEF RequestsInv, Waiting, MarkerStages
<1>7. \A e \in answers : e \in KeptAnswers /\ e.by = Earlier /\ e.refs = Docs
  <2> SUFFICES ASSUME NEW q \in left
               PROVE  LET e == Entry(q, Earlier, Docs) IN e \in KeptAnswers /\ e.by = Earlier /\ e.refs = Docs
    BY <1>2
  <2>1. q \in Questions /\ Docs \in SUBSET Docs
    BY <1>3
  <2> QED BY <2>1 DEF Entry, KeptAnswers
<1>8. StoreInv
  <2>1. \A e, f \in answers : e.q = f.q => e = f
    <3> SUFFICES ASSUME NEW p \in left, NEW q \in left, Entry(p, Earlier, Docs).q = Entry(q, Earlier, Docs).q
                 PROVE  Entry(p, Earlier, Docs) = Entry(q, Earlier, Docs)
      BY <1>2
    <3>1. p = q
      BY DEF Entry
    <3> QED BY <3>1
  <2> QED BY <1>1, <1>2, <1>3, <1>7, <2>1, CacheAssumption DEF StoreInv
<1>9. \A m \in Markers : marker[m].before = {} /\ marker[m].copy = {}
  BY <1>1 DEF Waiting
<1>10. AllAnswers = answers
  BY <1>9 DEF AllAnswers
<1>11. OriginsInv
  BY <1>7, <1>9, <1>10 DEF OriginsInv, Gone
<1>12. \A m \in Markers : Reached(m)
  BY <1>9 DEF Reached
<1> QED BY <1>4, <1>5, <1>6, <1>8, <1>11, <1>12 DEF CacheInv

(* Every step of a call, a request or Redis keeps the invariant. *)
LEMMA CacheStep == CacheInv /\ [CacheNext]_cacheVars => CacheInv'
<1> SUFFICES ASSUME CacheInv, [CacheNext]_cacheVars PROVE CacheInv'
  OBVIOUS
<1>1. ASSUME NEW r \in Readers, Thinks(r) PROVE CacheInv'
  BY <1>1, ThinksKeeps
<1>2. ASSUME NEW r \in Readers, Put(r) PROVE CacheInv'
  BY <1>2, PutKeeps
<1>3. ASSUME NEW m \in Markers, RequestChange(m) PROVE CacheInv'
  BY <1>3, RequestKeeps
<1>4. ASSUME NEW m \in Markers, ScanPage(m) PROVE CacheInv'
  BY <1>4, ScanKeeps
<1>5. ASSUME NEW m \in Markers, ReadPage(m) PROVE CacheInv'
  BY <1>5, ReadKeeps
<1>6. ASSUME NEW m \in Markers, WritePage(m) PROVE CacheInv'
  BY <1>6, WriteKeeps
<1>7. ASSUME NEW m \in Markers, ChangeDocument(m) PROVE CacheInv'
  BY <1>7, ChangeKeeps
<1>8. CASE EvictKey
  BY <1>8, EvictKeeps
<1>9. CASE UNCHANGED cacheVars
  BY <1>9 DEF cacheVars, CacheInv, Fields, CallsInv, RequestsInv, StoreInv, OriginsInv, AllAnswers, Gone,
     Reached, Pending, Ahead
<1> QED BY <1>1, <1>2, <1>3, <1>4, <1>5, <1>6, <1>7, <1>8, <1>9 DEF CacheNext, Thinks

(* Whatever calls, requests and Redis' own evictions do, the cache and the
   documents keep their types, and no question has two answers. *)
THEOREM CacheTypeCorrect == CacheSpec => []CacheTypeOK
<1>1. CacheInv => CacheTypeOK
  BY DEF CacheInv, StoreInv, CallsInv, RequestsInv, CacheTypeOK, KeptAnswers, ReaderStages, MarkerStages
<1> QED BY <1>1, CacheInitially, CacheStep, PTL DEF CacheSpec

(* When mark_stale has gone through, every answer that was stored before it
   began and refers to the document is marked: for any layout of the pages,
   any puts, evictions and other markings in between (semantic_cache.py:
   mark_stale, put; cache_invalidator.py: invalidate_doc). *)
THEOREM MarkingReachesAll == CacheSpec => []MarkReachesAll
<1>1. CacheInv => MarkReachesAll
  BY DEF CacheInv, Reached, Pending, MarkReachesAll
<1> QED BY <1>1, CacheInitially, CacheStep, PTL DEF CacheSpec
=============================================================================
