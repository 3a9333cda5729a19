---------------------------- MODULE TrustSwitch ----------------------------
(***************************************************************************)
(* What the circuit breaker promises the router: each provider is trusted, *)
(* shut off, or on trial; a trial begins afresh, one failure ends it, and  *)
(* only `Needed` successes in a row since it began end it well.  No word   *)
(* about rates, clocks, stored counters or who calls.  LlmRouting          *)
(* implements this module.                                                 *)
(***************************************************************************)
EXTENDS Naturals

CONSTANTS
  Units,     \* the providers
  Needed     \* successes in a row that end a trial

VARIABLES
  trust,     \* "closed": trusted; "open": shut off; "half_open": on trial
  streak     \* successes in a row since the trial began, up to Needed

vars == <<trust, streak>>

Trip(p) ==
  /\ trust[p] = "closed" /\ trust' = [trust EXCEPT ![p] = "open"]
  /\ UNCHANGED streak

BeginTrial(p) ==
  /\ trust[p] = "open" /\ trust' = [trust EXCEPT ![p] = "half_open"]
  /\ streak' = [streak EXCEPT ![p] = 0]

Success(p) ==
  /\ streak[p] < Needed /\ streak' = [streak EXCEPT ![p] = @ + 1]
  /\ UNCHANGED trust

Failure(p) ==
  /\ streak' = [streak EXCEPT ![p] = 0]
  /\ trust' = [trust EXCEPT ![p] = IF @ = "half_open" THEN "open" ELSE @]

PassTrial(p) ==
  /\ trust[p] = "half_open" /\ streak[p] >= Needed
  /\ trust' = [trust EXCEPT ![p] = "closed"]
  /\ UNCHANGED streak

Init == trust = [p \in Units |-> "closed"] /\ streak = [p \in Units |-> 0]
Next == \E p \in Units :
          Trip(p) \/ BeginTrial(p) \/ Success(p) \/ Failure(p) \/ PassTrial(p)
Spec == Init /\ [][Next]_vars
=============================================================================
