---------------------------- MODULE DualSpillover ----------------------------
(* One measurement of scripts/measure_dual_spillover.py: a schedule of      *)
(* requests, sent one after the other to a throttled primary deployment or  *)
(* to the spillover deployment (_run_measurement_async).  A request is      *)
(* routed on what the previous one showed; a 429 of the primary is never    *)
(* retried there: the request moves to the spillover and the next ones are  *)
(* kept there.  The deployments answer as they like.                        *)
EXTENDS SpilloverPolicies

CONSTANTS
  FollowUps,     \* real_429_followup_requests (proactive)
  NumRequests,   \* length of the arrival schedule
  NumWarm,       \* those of its warm-up
  Gaps,          \* times from one arrival to the next
  Costs,         \* cost of an answered call
  Ceiling,       \* budget_hard_ceiling_usd
  MinSample,     \* SPILLOVER_REAL_429_MIN_REQUESTS
  Limit          \* SPILLOVER_REAL_429_HALT_FRACTION, in per cent

ASSUME RunAssumption ==
  /\ FollowUps \in Nat /\ NumRequests \in Nat \ {0} /\ NumWarm \in Nat
  /\ Gaps \subseteq Nat /\ Costs \subseteq Nat
  /\ Ceiling \in Nat \ {0} /\ MinSample \in Nat \ {0} /\ Limit \in 0..100

VARIABLES
  policy,      \* cfg.policy_type
  phase,       \* "route", a call on a deployment, or how the run ended
  request,     \* idx in the schedule
  clock,       \* arrival_mono
  obs,         \* last_obs_for_reactive and last_obs_for_proactive
  reactive, proactive,   \* the states of the two policies
  forced,      \* primary_followup_remaining
  spent,       \* total_usd
  spilled,     \* spillover_request_count
  refused,     \* spillover_429_count
  lastThrottle, lastSlow, lockedAt   \* history: see below

state == <<policy, phase, request, clock, obs, reactive, proactive, forced>>
money == <<spent, spilled, refused>>
past  == <<lastThrottle, lastSlow, lockedAt>>
vars  == <<state, money, past>>

Calls == {"primary", "spillover"}
Ends  == {"complete", "budget", "throttled", "raised"}

\* History, for the properties only: the last primary attempt that met a 429
\* and the last one whose first token was late, and the arrival of the
\* request on whose observation the proactive baseline was locked.
NoEvent == [request |-> Never, time |-> Never]
Here    == [request |-> request, time |-> clock]

Init ==
  /\ policy \in {"reactive", "proactive"}
  /\ phase = "route" /\ request = 0 /\ clock = 0
  /\ obs = [slow |-> FALSE, throttled |-> FALSE, time |-> 0, warm |-> TRUE]
  /\ reactive = ReactiveStart /\ proactive = ProactiveStart
  /\ forced = 0 /\ spent = 0 /\ spilled = 0 /\ refused = 0
  /\ lastThrottle = NoEvent /\ lastSlow = NoEvent /\ lockedAt = Never

----------------------------------------------------------------------------
(* _select_routing_for_request: the policy always decides, so that its      *)
(* state follows the observations, and a positive counter overrides it.     *)
PolicyDecision(choice) ==
  \/ /\ policy = "reactive"
     /\ reactive' = ReactiveDecide(obs, reactive)
     /\ choice = IF reactive'.on THEN "spillover" ELSE "primary"
     /\ UNCHANGED <<proactive, lockedAt>>
  \/ /\ policy = "proactive"
     /\ \E breached \in BOOLEAN :
          proactive' = ProactiveDecide(obs, proactive, breached)
     /\ choice = "spillover" => FractionAt(obs, proactive') > 0
     /\ choice = "primary" => FractionAt(obs, proactive') < 100
     /\ lockedAt' = IF proactive'.locked # proactive.locked
                    THEN obs.time ELSE lockedAt
     /\ UNCHANGED reactive

\* Deviation: the policy decides also while follow-ups remain.
DestinationByPolicy(choice) == choice

Destination(choice) == IF forced > 0 THEN "spillover" ELSE choice

Route ==
  /\ phase = "route"
  /\ \E gap \in Gaps : clock' = clock + gap
  /\ \E choice \in Calls :
       /\ PolicyDecision(choice)
       /\ phase' = Destination(choice)
  /\ forced' = IF forced > 0 THEN forced - 1 ELSE forced
  /\ UNCHANGED <<policy, request, obs, money, lastThrottle, lastSlow>>

----------------------------------------------------------------------------
\* Deviation: the halt looks at the total as it was before this request.
OverBudgetBefore == spent >= Ceiling

\* The two halts at the end of a request.
OverBudget  == spent' >= Ceiling
OverRefused == spilled' >= MinSample /\ refused' * 100 > spilled' * Limit

\* The end of a request: its row is written, it becomes the observation of
\* both policies (never as a 429), and the run may halt.
Conclude(slow) ==
  /\ obs' = [slow |-> slow, throttled |-> FALSE, time |-> clock,
             warm |-> request < NumWarm]
  /\ request' = request + 1
  /\ phase' = IF OverBudget THEN "budget"
              ELSE IF OverRefused THEN "throttled"
              ELSE IF request' = NumRequests THEN "complete" ELSE "route"

\* _call_primary answers.
PrimaryAnswers ==
  /\ phase = "primary"
  /\ \E cost \in Costs : spent' = spent + cost
  /\ \E slow \in BOOLEAN :
       /\ lastSlow' = IF slow THEN Here ELSE lastSlow
       /\ UNCHANGED <<spilled, refused>>
       /\ Conclude(slow)
  /\ UNCHANGED <<policy, clock, reactive, proactive, forced,
                 lastThrottle, lockedAt>>

\* Deviation: the policy is not told of the 429 before the re-issue.
DivergeUntold == UNCHANGED reactive

\* The 429 is fed to the reactive policy at once: the observation of the
\* re-issue would hide it.
Diverge ==
  reactive' = IF policy = "reactive"
              THEN ReactiveDecide([slow |-> FALSE, throttled |-> TRUE,
                                   time |-> clock, warm |-> FALSE], reactive)
              ELSE reactive

\* A primary 429 has no usage and so no cost; the request is re-issued.
PrimaryThrottled ==
  /\ phase = "primary" /\ phase' = "spillover"
  /\ forced' = IF policy = "reactive" THEN MinStay ELSE FollowUps
  /\ Diverge
  /\ lastThrottle' = Here
  /\ UNCHANGED <<policy, request, clock, obs, proactive, money,
                 lastSlow, lockedAt>>

\* A request with one 429 or two counts once; two leave it without usage.
Spill(refusals, cost) ==
  /\ spilled' = spilled + 1
  /\ refused' = IF refusals > 0 THEN refused + 1 ELSE refused
  /\ spent' = spent + cost

\* _call_spillover_with_retry: a 429 is retried once, a second one gives up
\* and the request is kept as a row without usage.
SpilloverReturns ==
  /\ phase = "spillover"
  /\ \E refusals \in 0..2, slow \in BOOLEAN :
       /\ \E cost \in IF refusals = 2 THEN {0} ELSE Costs : Spill(refusals, cost)
       /\ Conclude(slow)
  /\ UNCHANGED <<policy, clock, reactive, proactive, forced, past>>

\* Any other exception of a call leaves the loop.
CallRaises ==
  /\ phase \in Calls /\ phase' = "raised"
  /\ UNCHANGED <<policy, request, clock, obs, reactive, proactive, forced,
                 money, past>>

\* The summary and the charts are written, or the exception leaves the run.
Ended == phase \in Ends /\ UNCHANGED vars

Next ==
  \/ Route \/ PrimaryAnswers \/ PrimaryThrottled \/ SpilloverReturns
  \/ CallRaises \/ Ended

Spec == Init /\ [][Next]_vars

----------------------------------------------------------------------------
TypeOK ==
  /\ policy \in {"reactive", "proactive"} /\ phase \in {"route"} \cup Calls \cup Ends
  /\ request \in Nat /\ clock \in Nat /\ obs \in Observations
  /\ reactive \in ReactiveStates /\ proactive \in ProactiveStates
  /\ forced \in Nat /\ spent \in Nat /\ spilled \in Nat /\ refused \in Nat
  /\ {lastThrottle, lastSlow} \subseteq
       [request : Nat, time : Nat] \cup {NoEvent}
  /\ lockedAt \in Nat \cup {Never}

\* The request that met a 429 and the stay_on_spillover_min_requests (or the
\* real_429_followup_requests) after it are not sent to the primary.
FollowUpsAvoidPrimary ==
  phase = "primary" /\ lastThrottle # NoEvent =>
    request - lastThrottle.request >
      IF policy = "reactive" THEN MinStay ELSE FollowUps

\* The reactive policy tries a primary that failed it, by a 429 or by a late
\* first token, no sooner than health_check_interval_ms after the attempt and
\* stay_on_spillover_min_requests requests on, although the requests forced
\* on the spillover in between feed the policy and may end its stay.
ReturnsAreSpaced ==
  phase = "primary" /\ policy = "reactive" =>
    \A failure \in {lastThrottle, lastSlow} \ {NoEvent} :
      /\ clock - failure.time >= Interval
      /\ request - failure.request >= MinStay

\* The proactive fraction is ramped one step per measurement window: it never
\* exceeds what the windows begun since the baseline was locked account for.
RampIsGradual ==
  lockedAt # Never =>
    proactive.fraction * Window <= Step * (obs.time - lockedAt + Window)

\* The ceiling is exceeded by less than one call, the re-issue of a throttled
\* request included, since the attempt that met the 429 costs nothing.
OvershootBounded ==
  spent < Ceiling \/ \E cost \in Costs : spent - cost < Ceiling
=============================================================================
