-------------------------- MODULE SpilloverPolicies --------------------------
(* The two routing policies of scripts/simulate_spillover.py, as the code   *)
(* has them: pure functions from an observation and a state to a new state. *)
(* Benchmark 05 imports them unchanged.  Times are Naturals; a fraction of  *)
(* the traffic is a percentage, what is below one per cent counting as 0    *)
(* (the code's cut-off is 0.000001).                                        *)
EXTENDS Integers

CONSTANTS
  MinStay,    \* stay_on_spillover_min_requests
  Interval,   \* health_check_interval_ms
  Window,     \* measurement_window_seconds
  Step,       \* ramp_up_step
  Cap,        \* spillover_fraction_max
  Back        \* ramp_back_factor, in per cent

ASSUME PolicyAssumption ==
  /\ MinStay \in Nat /\ Interval \in Nat /\ Window \in Nat
  /\ Cap \in 0..100 /\ Step \in 1..(Cap - 1) /\ Back \in 0..100

Never == -1          \* the -inf of a clock that was not yet read

\* What a policy is told of the most recent request: whether its first token
\* was late, whether it met a 429, when it arrived, whether it was a warm-up.
Observations ==
  [slow : BOOLEAN, throttled : BOOLEAN, time : Nat, warm : BOOLEAN]

----------------------------------------------------------------------------
(* Reactive: on_spillover, requests_on_spillover, last_health_check_time_s. *)
ReactiveStates == [on : BOOLEAN, stayed : Nat, checked : Nat \cup {Never}]
ReactiveStart  == [on |-> FALSE, stayed |-> 0, checked |-> Never]

Triggered(obs) == obs.throttled \/ obs.slow

\* can_attempt_return: the requests are counted with the one being routed.
CanReturn(obs, s) ==
  /\ s.stayed + 1 >= MinStay
  /\ obs.time - s.checked >= Interval

\* A trigger diverges, or, once a return was due, starts the stay anew.
\* The decision is "spillover" exactly when the new state is on.
ReactiveDecide(obs, s) ==
  CASE ~s.on /\ ~Triggered(obs) -> s
    [] Triggered(obs) /\ (~s.on \/ CanReturn(obs, s)) ->
         [on |-> TRUE, stayed |-> 1, checked |-> obs.time]
    [] s.on /\ ~Triggered(obs) /\ CanReturn(obs, s) ->
         [on |-> FALSE, stayed |-> 0, checked |-> obs.time]
    [] OTHER -> [s EXCEPT !.stayed = @ + 1]

----------------------------------------------------------------------------
(* Proactive: baseline_p95_ms is set, current_spillover_fraction,           *)
(* last_window_eval_time_s.  Whether the p95 of the window is above the     *)
(* threshold is an input.                                                   *)
ProactiveStates ==
  [locked : BOOLEAN, fraction : 0..Cap, evaluated : Nat \cup {Never}]
ProactiveStart == [locked |-> FALSE, fraction |-> 0, evaluated |-> Never]

WindowOpen(obs, s) == s.evaluated # Never /\ obs.time - s.evaluated < Window

RampUp(f)   == IF f + Step > Cap THEN Cap ELSE f + Step
RampBack(f) == (f * Back) \div 100

\* Deviation: the time of the evaluation is not kept.
EvaluateForgetful(obs, s, breached) ==
  [s EXCEPT !.fraction = IF breached THEN RampUp(@) ELSE RampBack(@)]

\* One discrete step of the fraction per measurement window.
Evaluate(obs, s, breached) ==
  [s EXCEPT !.fraction = IF breached THEN RampUp(@) ELSE RampBack(@),
            !.evaluated = obs.time]

ProactiveDecide(obs, s, breached) ==
  CASE obs.warm -> s
    [] ~obs.warm /\ ~s.locked -> [s EXCEPT !.locked = TRUE]
    [] ~obs.warm /\ s.locked /\ WindowOpen(obs, s) -> s
    [] OTHER -> Evaluate(obs, s, breached)

\* The fraction the caller compares with its random number.
FractionAt(obs, s) == IF obs.warm THEN 0 ELSE s.fraction
=============================================================================
