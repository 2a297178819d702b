------------------------ MODULE DualSpillover_proofs ------------------------
(***************************************************************************)
(* Proofs about DualSpillover for any schedule length, any gaps, costs and *)
(* policy parameters.                                                      *)
(***************************************************************************)
EXTENDS DualSpillover, TLAPS

LEMMA ReactiveType ==
  ASSUME NEW o \in Observations, NEW s \in ReactiveStates
  PROVE  ReactiveDecide(o, s) \in ReactiveStates
BY PolicyAssumption
   DEF ReactiveDecide, ReactiveStates, Observations, Triggered, CanReturn, Never

LEMMA RampType ==
  ASSUME NEW f \in 0..Cap
  PROVE  RampUp(f) \in 0..Cap /\ RampUp(f) <= f + Step
BY PolicyAssumption DEF RampUp

\* ramp_back_factor is at most 1: a step back never raises the fraction.
LEMMA RampBackType ==
  ASSUME NEW f \in 0..Cap
  PROVE  RampBack(f) \in 0..Cap /\ RampBack(f) <= f
<1>1. f * Back \in Nat /\ f * Back <= f * 100
  BY PolicyAssumption
<1>2. ASSUME NEW p \in Nat, p <= f * 100
      PROVE  p \div 100 \in Nat /\ p \div 100 <= f
  BY <1>2
<1> QED
  BY <1>1, <1>2, PolicyAssumption DEF RampBack

LEMMA ProactiveType ==
  ASSUME NEW o \in Observations, NEW s \in ProactiveStates, NEW b \in BOOLEAN
  PROVE  ProactiveDecide(o, s, b) \in ProactiveStates
<1>1. /\ RampUp(s.fraction) \in 0..Cap /\ RampBack(s.fraction) \in 0..Cap
  BY RampType, RampBackType DEF ProactiveStates
<1>2. Evaluate(o, s, b) \in ProactiveStates
  BY <1>1 DEF Evaluate, ProactiveStates, Observations
<1> QED
  BY <1>2 DEF ProactiveDecide, ProactiveStates, Observations

LEMMA TypeOKInit == Init => TypeOK
BY PolicyAssumption DEF Init, TypeOK, Calls, Ends, Observations, ReactiveStates, ReactiveStart,
       ProactiveStates, ProactiveStart, NoEvent, Never

LEMMA ConcludeType ==
  ASSUME TypeOK, NEW slow \in BOOLEAN, Conclude(slow)
  PROVE  /\ obs' \in Observations /\ request' \in Nat
         /\ phase' \in {"route"} \cup Ends
BY DEF TypeOK, Conclude, Observations, Ends

LEMMA TypeOKNext == TypeOK /\ [Next]_vars => TypeOK'
<1> SUFFICES ASSUME TypeOK, [Next]_vars
             PROVE  TypeOK'
  OBVIOUS
<1> USE PolicyAssumption, RunAssumption
<1>1. CASE Route
  <2>1. PICK gap \in Gaps : clock' = clock + gap
    BY <1>1 DEF Route
  <2>2. PICK choice \in Calls : PolicyDecision(choice) /\ phase' = Destination(choice)
    BY <1>1 DEF Route
  <2>3. clock' \in Nat /\ forced' \in Nat
    BY <1>1, <2>1 DEF Route, TypeOK
  <2>4. phase' \in Calls
    BY <2>2 DEF Destination, Calls
  <2>5. reactive' \in ReactiveStates /\ proactive' \in ProactiveStates
    BY <2>2, ReactiveType, ProactiveType DEF PolicyDecision, TypeOK
  <2>6. lockedAt' \in Nat \cup {Never}
    BY <2>2 DEF PolicyDecision, TypeOK, Observations
  <2> QED
    BY <1>1, <2>3, <2>4, <2>5, <2>6 DEF Route, TypeOK, money
<1>2. CASE PrimaryAnswers
  <2>1. PICK slow \in BOOLEAN : /\ lastSlow' = IF slow THEN Here ELSE lastSlow
                                /\ Conclude(slow)
    BY <1>2 DEF PrimaryAnswers
  <2>2. lastSlow' \in [request : Nat, time : Nat] \cup {NoEvent}
    BY <2>1 DEF Here, TypeOK
  <2>3. spent' \in Nat
    BY <1>2 DEF PrimaryAnswers, TypeOK
  <2> QED
    BY <1>2, <2>1, <2>2, <2>3, ConcludeType DEF PrimaryAnswers, TypeOK
<1>3. CASE PrimaryThrottled
  <2>1. reactive' \in ReactiveStates
    BY <1>3, ReactiveType DEF PrimaryThrottled, Diverge, TypeOK, Observations
  <2>2. lastThrottle' \in [request : Nat, time : Nat]
    BY <1>3 DEF PrimaryThrottled, Here, TypeOK
  <2>3. phase' \in Calls /\ forced' \in Nat
    BY <1>3 DEF PrimaryThrottled, Calls
  <2> QED
    BY <1>3, <2>1, <2>2, <2>3 DEF PrimaryThrottled, TypeOK, money
<1>4. CASE SpilloverReturns
  <2>1. PICK refusals \in 0..2, slow \in BOOLEAN :
           /\ \E cost \in IF refusals = 2 THEN {0} ELSE Costs : Spill(refusals, cost)
           /\ Conclude(slow)
    BY <1>4 DEF SpilloverReturns
  <2>2. spent' \in Nat /\ spilled' \in Nat /\ refused' \in Nat
    BY <2>1 DEF Spill, TypeOK
  <2> QED
    BY <1>4, <2>1, <2>2, ConcludeType DEF SpilloverReturns, TypeOK, past
<1>5. CASE CallRaises
  BY <1>5 DEF CallRaises, TypeOK, money, past, Ends
<1>6. CASE Ended \/ UNCHANGED vars
  BY <1>6 DEF Ended, TypeOK, vars, state, money, past
<1> QED
  BY <1>1, <1>2, <1>3, <1>4, <1>5, <1>6 DEF Next

\* Every variable keeps its type; the fraction stays at or below its cap.
THEOREM TypeCorrect == Spec => []TypeOK
BY TypeOKInit, TypeOKNext, PTL DEF Spec

----------------------------------------------------------------------------
(* The budget: a request starts below the ceiling and its calls cost at     *)
(* most one answer.                                                         *)
Affordable == phase \notin Ends => spent < Ceiling

LEMMA AffordableNext ==
  TypeOK /\ Affordable /\ OvershootBounded /\ [Next]_vars
    => Affordable' /\ OvershootBounded'
<1> SUFFICES ASSUME TypeOK, Affordable, OvershootBounded, [Next]_vars
             PROVE  Affordable' /\ OvershootBounded'
  OBVIOUS
<1> USE RunAssumption DEF Affordable, OvershootBounded, TypeOK
<1>1. CASE Route
  BY <1>1 DEF Route, money, Ends
<1>2. CASE PrimaryAnswers
  <2>1. PICK cost \in Costs : spent' = spent + cost
    BY <1>2 DEF PrimaryAnswers
  <2>2. spent < Ceiling /\ spent' - cost < Ceiling
    BY <1>2, <2>1 DEF PrimaryAnswers, Ends
  <2>3. PICK slow \in BOOLEAN : Conclude(slow)
    BY <1>2 DEF PrimaryAnswers
  <2> QED
    BY <2>1, <2>2, <2>3 DEF Conclude, OverBudget, Ends
<1>3. CASE PrimaryThrottled
  BY <1>3 DEF PrimaryThrottled, money, Ends
<1>4. CASE SpilloverReturns
  <2>1. PICK refusals \in 0..2, slow \in BOOLEAN :
           /\ \E cost \in IF refusals = 2 THEN {0} ELSE Costs : Spill(refusals, cost)
           /\ Conclude(slow)
    BY <1>4 DEF SpilloverReturns
  <2>2. spent < Ceiling
    BY <1>4 DEF SpilloverReturns, Ends
  <2>3. Affordable'
    BY <2>1 DEF Spill, Conclude, OverBudget, Ends
  <2>4. CASE refusals = 2
    BY <2>1, <2>2, <2>3, <2>4 DEF Spill
  <2>5. CASE refusals # 2
    <3>1. PICK cost \in Costs : spent' = spent + cost
      BY <2>1, <2>5 DEF Spill
    <3> QED
      BY <2>2, <2>3, <3>1
  <2> QED
    BY <2>4, <2>5
<1>5. CASE CallRaises
  BY <1>5 DEF CallRaises, money, Calls, Ends
<1>6. CASE Ended \/ UNCHANGED vars
  BY <1>6 DEF Ended, vars, state, money
<1> QED
  BY <1>1, <1>2, <1>3, <1>4, <1>5, <1>6 DEF Next

\* The ceiling is passed by less than one call, whatever calls cost and
\* however many requests a 429 of the primary sends twice.
THEOREM OvershootIsBounded == Spec => []OvershootBounded
<1>1. Init => Affordable /\ OvershootBounded
  BY RunAssumption DEF Init, Affordable, OvershootBounded
<1> QED
  BY <1>1, TypeCorrect, AffordableNext, PTL DEF Spec

----------------------------------------------------------------------------
(* What must have passed since the last primary 429 when a primary attempt  *)
(* is made: the counter holds what is left of the follow-ups.               *)
Kept == IF policy = "reactive" THEN MinStay ELSE FollowUps
Since == request - lastThrottle.request

CounterCovers ==
  lastThrottle # NoEvent =>
    /\ phase = "route" => Since - 1 + forced >= Kept
    /\ phase = "spillover" => Since + forced >= Kept
    /\ phase = "primary" => Since > Kept

LEMMA RouteStep ==
  ASSUME TypeOK, Route
  PROVE  /\ phase = "route" /\ phase' \in Calls
         /\ forced > 0 => phase' = "spillover" /\ forced' = forced - 1
         /\ forced = 0 => forced' = 0
         /\ UNCHANGED <<policy, request, obs, lastThrottle, lastSlow>>
         /\ clock' \in Nat /\ clock' >= clock
BY RunAssumption DEF Route, Destination, Calls, TypeOK

LEMMA CounterCoversNext == TypeOK /\ CounterCovers /\ [Next]_vars => CounterCovers'
<1> SUFFICES ASSUME TypeOK, CounterCovers, [Next]_vars
             PROVE  CounterCovers'
  OBVIOUS
<1> USE PolicyAssumption, RunAssumption
    DEF CounterCovers, Kept, Since, NoEvent, Never, Calls, Ends
<1>0. /\ request \in Nat /\ forced \in Nat /\ policy \in {"reactive", "proactive"}
      /\ lastThrottle # NoEvent => lastThrottle.request \in Nat
  BY DEF TypeOK
<1>1. CASE Route
  BY <1>0, <1>1, RouteStep
<1>2. CASE PrimaryAnswers
  BY <1>0, <1>2 DEF PrimaryAnswers, Conclude
<1>3. CASE PrimaryThrottled
  BY <1>0, <1>3 DEF PrimaryThrottled, Here
<1>4. CASE SpilloverReturns
  BY <1>0, <1>4 DEF SpilloverReturns, Conclude, past
<1>5. CASE CallRaises
  BY <1>5 DEF CallRaises
<1>6. CASE Ended \/ UNCHANGED vars
  BY <1>6 DEF Ended, vars, state, past
<1> QED
  BY <1>1, <1>2, <1>3, <1>4, <1>5, <1>6 DEF Next

LEMMA CounterAlwaysCovers == Spec => []CounterCovers
<1>1. Init => CounterCovers
  BY DEF Init, CounterCovers
<1> QED
  BY <1>1, TypeCorrect, CounterCoversNext, PTL DEF Spec

\* A throttled request and its follow-ups never reach the primary again, for
\* any number of follow-ups and whatever the policy decides meanwhile.
THEOREM FollowUpsAreKept == Spec => []FollowUpsAvoidPrimary
<1>1. TypeOK /\ CounterCovers => FollowUpsAvoidPrimary
  BY DEF CounterCovers, FollowUpsAvoidPrimary, Since, Kept
<1> QED
  BY <1>1, TypeCorrect, CounterAlwaysCovers, PTL

----------------------------------------------------------------------------
(* The reactive policy and a failure of the primary at `e'.  Either the     *)
(* policy has let the interval pass, or it is on the spillover since, or    *)
(* the late first token is the observation it has not yet been given.       *)
Passed(e) == obs.time - e.time >= Interval
Held(e)   == reactive.on /\ reactive.checked \in Nat /\ reactive.checked >= e.time
Pending(e) ==
  /\ phase = "route" /\ ~reactive.on
  /\ obs.slow /\ obs.time = e.time /\ request = e.request + 1

\* The requests on the spillover since, counted as the policy counts them.
Counts(e) ==
  /\ phase = "route" => reactive.stayed + 1 <= request - e.request
  /\ phase \in Calls => reactive.stayed <= request - e.request

Happened(e) ==
  /\ e.time <= clock /\ e.request <= request
  /\ phase = "route" => e.request < request

ThrottleWatched ==
  lastThrottle # NoEvent =>
    Happened(lastThrottle) /\ (Passed(lastThrottle) \/ Held(lastThrottle))

SlowWatched ==
  lastSlow # NoEvent =>
    /\ Happened(lastSlow)
    /\ phase \in Calls => lastSlow.request < request
    /\ \/ Pending(lastSlow)
       \/ Held(lastSlow) /\ Counts(lastSlow)
       \/ Passed(lastSlow) /\ request - lastSlow.request >= MinStay

Watched ==
  /\ obs.time <= clock /\ (phase = "route" => obs.time = clock)
  /\ reactive.on => reactive.stayed >= 1
  /\ policy = "reactive" /\ phase \notin Ends =>
       /\ phase = "primary" => ~reactive.on
       /\ ThrottleWatched /\ SlowWatched

\* The four ways a decision of the policy can go.
Unmoved(o, s, n)  == ~s.on /\ ~Triggered(o) /\ n = s
Diverged(o, s, n) == Triggered(o) /\ n.on /\ n.stayed = 1 /\ n.checked = o.time
Returned(o, s, n) == s.on /\ ~Triggered(o) /\ CanReturn(o, s) /\ ~n.on
Stayed(o, s, n) ==
  s.on /\ n.on /\ n.stayed = s.stayed + 1 /\ n.checked = s.checked

LEMMA DecideCases ==
  ASSUME NEW o \in Observations, NEW s \in ReactiveStates
  PROVE  LET n == ReactiveDecide(o, s)
         IN  \/ Unmoved(o, s, n) \/ Diverged(o, s, n)
             \/ Returned(o, s, n) \/ Stayed(o, s, n)
<1>1. CASE ~s.on /\ ~Triggered(o)
  BY <1>1 DEF ReactiveDecide, Unmoved
<1>2. CASE Triggered(o) /\ (~s.on \/ CanReturn(o, s))
  BY <1>2 DEF ReactiveDecide, Diverged
<1>3. CASE s.on /\ ~Triggered(o) /\ CanReturn(o, s)
  BY <1>3 DEF ReactiveDecide, Returned
<1>4. CASE s.on /\ ~CanReturn(o, s)
  BY <1>4 DEF ReactiveDecide, Stayed, ReactiveStates
<1> QED
  BY <1>1, <1>2, <1>3, <1>4 DEF ReactiveStates

LEMMA Facts ==
  ASSUME TypeOK
  PROVE  /\ request \in Nat /\ clock \in Nat /\ obs.time \in Nat
         /\ reactive.on \in BOOLEAN /\ reactive.stayed \in Nat
         /\ reactive.checked \in Int
         /\ lastThrottle # NoEvent => lastThrottle.time \in Nat /\ lastThrottle.request \in Nat
         /\ lastSlow # NoEvent => lastSlow.time \in Nat /\ lastSlow.request \in Nat
         /\ MinStay \in Nat /\ Interval \in Nat
BY PolicyAssumption DEF TypeOK, Observations, ReactiveStates, Never

LEMMA WatchedRoute == ASSUME TypeOK, TypeOK', Watched, Route PROVE Watched'
<1> USE DEF Calls, Ends
<1>1. /\ phase = "route" /\ phase' \in Calls /\ clock' \in Nat /\ clock' >= clock
      /\ UNCHANGED <<policy, request, obs, lastThrottle, lastSlow>>
  BY RouteStep
<1>2. obs'.time <= clock' /\ phase' # "route"
  BY <1>1, Facts DEF Watched, TypeOK
<1>3. CASE policy # "reactive"
  <2>1. reactive' = reactive
    BY <1>3 DEF Route, PolicyDecision
  <2> QED
    BY <1>1, <1>2, <1>3, <2>1 DEF Watched
<1>4. CASE policy = "reactive"
  <2> DEFINE new == ReactiveDecide(obs, reactive)
  <2>1. reactive' = new /\ (phase' = "primary" => ~reactive'.on)
    BY <1>4 DEF Route, PolicyDecision, Destination
  <2>2. ThrottleWatched /\ SlowWatched /\ obs.time = clock
    BY <1>1, <1>4 DEF Watched
  <2>3. reactive.on => reactive.stayed >= 1
    BY DEF Watched
  <2>4. /\ lastThrottle # NoEvent => Happened(lastThrottle)'
        /\ lastSlow # NoEvent => Happened(lastSlow)' /\ lastSlow.request < request
    BY <1>1, <2>2, Facts DEF ThrottleWatched, SlowWatched, Happened
  <2>5. /\ Happened(lastThrottle) \/ lastThrottle = NoEvent
        /\ Happened(lastSlow) \/ lastSlow = NoEvent
    BY <2>2 DEF ThrottleWatched, SlowWatched
  <2>6. \/ Unmoved(obs, reactive, new) \/ Diverged(obs, reactive, new)
        \/ Returned(obs, reactive, new) \/ Stayed(obs, reactive, new)
    BY DecideCases DEF TypeOK
  <2>7. CASE Unmoved(obs, reactive, new)
    <3>1. ThrottleWatched'
      BY <1>1, <2>1, <2>2, <2>4, <2>7, Facts DEF Unmoved, ThrottleWatched, Passed, Held
    <3>2. SlowWatched'
      BY <1>1, <2>1, <2>2, <2>4, <2>7, Facts
      DEF Unmoved, SlowWatched, Passed, Held, Pending, Triggered
    <3> QED
      BY <1>1, <1>2, <2>1, <2>3, <2>7, <3>1, <3>2 DEF Watched, Unmoved
  <2>8. CASE Diverged(obs, reactive, new)
    <3>1. ThrottleWatched'
      BY <1>1, <2>1, <2>2, <2>4, <2>5, <2>8, Facts
      DEF Diverged, ThrottleWatched, Held, Happened
    <3>2. SlowWatched'
      BY <1>1, <2>1, <2>2, <2>4, <2>5, <2>8, Facts
      DEF Diverged, SlowWatched, Held, Counts, Happened
    <3> QED
      BY <1>1, <1>2, <2>1, <2>8, <3>1, <3>2 DEF Watched, Diverged
  <2>9. CASE Returned(obs, reactive, new)
    <3>1. ThrottleWatched'
      BY <1>1, <2>1, <2>2, <2>4, <2>9, Facts
      DEF Returned, CanReturn, ThrottleWatched, Passed, Held
    <3>2. SlowWatched'
      BY <1>1, <2>1, <2>2, <2>4, <2>9, Facts
      DEF Returned, CanReturn, SlowWatched, Passed, Held, Counts, Pending, Triggered
    <3> QED
      BY <1>1, <1>2, <2>1, <2>9, <3>1, <3>2 DEF Watched, Returned
  <2>10. CASE Stayed(obs, reactive, new)
    <3>1. ThrottleWatched'
      BY <1>1, <2>1, <2>2, <2>4, <2>10, Facts
      DEF Stayed, ThrottleWatched, Passed, Held
    <3>2. SlowWatched'
      BY <1>1, <2>1, <2>2, <2>4, <2>5, <2>10, Facts
      DEF Stayed, SlowWatched, Passed, Held, Counts, Pending, Triggered
    <3> QED
      BY <1>1, <1>2, <2>1, <2>3, <2>10, <3>1, <3>2, Facts DEF Watched, Stayed
  <2> QED
    BY <2>6, <2>7, <2>8, <2>9, <2>10
<1> QED
  BY <1>3, <1>4

LEMMA WatchedPrimary ==
  ASSUME TypeOK, TypeOK', Watched, PrimaryAnswers PROVE Watched'
<1> USE DEF Calls, Ends
<1>1. PICK slow \in BOOLEAN :
        /\ lastSlow' = IF slow THEN Here ELSE lastSlow
        /\ Conclude(slow)
  BY DEF PrimaryAnswers
<1>2. /\ phase = "primary" /\ phase' \in {"route"} \cup Ends
      /\ obs' = [slow |-> slow, throttled |-> FALSE, time |-> clock,
                 warm |-> request < NumWarm]
      /\ request' = request + 1 /\ UNCHANGED <<policy, clock, reactive, lastThrottle>>
  BY <1>1 DEF PrimaryAnswers, Conclude
<1>3. SUFFICES ASSUME policy = "reactive", phase' = "route"
               PROVE  ThrottleWatched' /\ SlowWatched'
  BY <1>2, Facts DEF Watched
<1>4. ThrottleWatched /\ SlowWatched /\ ~reactive.on /\ obs.time <= clock
  BY <1>2, <1>3 DEF Watched
<1>5. ThrottleWatched'
  BY <1>2, <1>4, Facts DEF ThrottleWatched, Happened, Passed, Held
<1>6. ASSUME slow PROVE SlowWatched'
  BY <1>1, <1>2, <1>3, <1>4, <1>6, Facts
  DEF SlowWatched, Happened, Pending, Here
<1>7. ASSUME ~slow PROVE SlowWatched'
  BY <1>1, <1>2, <1>3, <1>4, <1>7, Facts
  DEF SlowWatched, Happened, Pending, Passed, Held
<1> QED
  BY <1>5, <1>6, <1>7

LEMMA WatchedThrottled ==
  ASSUME TypeOK, TypeOK', Watched, PrimaryThrottled PROVE Watched'
<1> USE DEF Calls, Ends
<1>1. /\ phase = "primary" /\ phase' = "spillover" /\ lastThrottle' = Here
      /\ UNCHANGED <<policy, request, clock, obs, lastSlow>>
  BY DEF PrimaryThrottled
<1>2. CASE policy # "reactive"
  BY <1>1, <1>2 DEF PrimaryThrottled, Diverge, Watched
<1>3. CASE policy = "reactive"
  <2> DEFINE o == [slow |-> FALSE, throttled |-> TRUE, time |-> clock, warm |-> FALSE]
  <2>1. ThrottleWatched /\ SlowWatched /\ ~reactive.on /\ obs.time <= clock
    BY <1>1, <1>3 DEF Watched
  <2>2. reactive' = [on |-> TRUE, stayed |-> 1, checked |-> clock]
    BY <1>3, <2>1 DEF PrimaryThrottled, Diverge, ReactiveDecide, Triggered
  <2>3. ThrottleWatched'
    BY <1>1, <2>2, Facts DEF ThrottleWatched, Happened, Held, Here
  <2>4. SlowWatched'
    BY <1>1, <2>1, <2>2, Facts DEF SlowWatched, Happened, Pending, Passed, Held
  <2> QED
    BY <1>1, <2>1, <2>2, <2>3, <2>4 DEF Watched
<1> QED
  BY <1>2, <1>3

LEMMA WatchedSpillover ==
  ASSUME TypeOK, TypeOK', Watched, SpilloverReturns PROVE Watched'
<1> USE DEF Calls, Ends
<1>1. /\ phase = "spillover" /\ phase' \in {"route"} \cup Ends
      /\ obs'.time = clock /\ request' = request + 1
      /\ UNCHANGED <<policy, clock, reactive, lastThrottle, lastSlow>>
  BY DEF SpilloverReturns, Conclude, past
<1>2. SUFFICES ASSUME policy = "reactive", phase' = "route"
               PROVE  ThrottleWatched' /\ SlowWatched'
  BY <1>1, Facts DEF Watched
<1>3. ThrottleWatched /\ SlowWatched /\ obs.time <= clock
  BY <1>1, <1>2 DEF Watched
<1>4. ThrottleWatched'
  BY <1>1, <1>3, Facts DEF ThrottleWatched, Happened, Passed, Held
<1>5. SlowWatched'
  BY <1>1, <1>2, <1>3, Facts
  DEF SlowWatched, Happened, Pending, Passed, Held, Counts
<1> QED
  BY <1>4, <1>5

LEMMA WatchedNext == TypeOK /\ TypeOK' /\ Watched /\ [Next]_vars => Watched'
<1> SUFFICES ASSUME TypeOK, TypeOK', Watched, [Next]_vars
             PROVE  Watched'
  OBVIOUS
<1>1. CASE CallRaises
  BY <1>1 DEF CallRaises, past, Watched, Calls, Ends
<1>2. CASE Ended \/ UNCHANGED vars
  <2>1. UNCHANGED <<policy, phase, request, clock, obs, reactive, lastThrottle, lastSlow>>
    BY <1>2 DEF Ended, vars, state, past
  <2> QED
    BY <2>1 DEF Watched, ThrottleWatched, SlowWatched, Happened, Passed, Held,
                Pending, Counts
<1> QED
  BY <1>1, <1>2, WatchedRoute, WatchedPrimary, WatchedThrottled, WatchedSpillover
  DEF Next

LEMMA AlwaysWatched == Spec => []Watched
<1>1. Init => Watched
  BY DEF Init, Watched, ThrottleWatched, SlowWatched, ReactiveStart
<1> QED
  BY <1>1, TypeCorrect, WatchedNext, PTL DEF Spec

\* Under the reactive policy a failed primary is tried again only after the
\* health-check interval and the minimum stay, for any interval and any stay.
THEOREM ReturnsStaySpaced == Spec => []ReturnsAreSpaced
<1>1. TypeOK /\ Watched /\ CounterCovers => ReturnsAreSpaced
  <2> SUFFICES ASSUME TypeOK, Watched, CounterCovers,
                      phase = "primary", policy = "reactive",
                      NEW failure \in {lastThrottle, lastSlow} \ {NoEvent}
               PROVE  /\ clock - failure.time >= Interval
                      /\ request - failure.request >= MinStay
    BY DEF ReturnsAreSpaced
  <2>1. ThrottleWatched /\ SlowWatched /\ ~reactive.on /\ obs.time <= clock
    BY DEF Watched, Ends
  <2>2. CASE failure = lastThrottle
    BY <2>1, <2>2, Facts
    DEF CounterCovers, Kept, Since, ThrottleWatched, Passed, Held
  <2>3. CASE failure = lastSlow
    BY <2>1, <2>3, Facts DEF SlowWatched, Passed, Held, Pending
  <2> QED
    BY <2>2, <2>3
<1> QED
  BY <1>1, TypeCorrect, CounterAlwaysCovers, AlwaysWatched, PTL

----------------------------------------------------------------------------
(* The proactive fraction against the measurement windows.                  *)
LEMMA MonotoneProduct ==
  ASSUME NEW a \in Int, NEW b \in Int, NEW c \in Nat, a <= b
  PROVE  c * a <= c * b
<1>1. c * (b - a) >= 0
  OBVIOUS
<1>2. c * (b - a) = c * b - c * a
  OBVIOUS
<1>3. c * a \in Int /\ c * b \in Int
  OBVIOUS
<1> QED
  BY <1>1, <1>2, <1>3

LEMMA OneStepPerWindow ==
  ASSUME NEW f \in Nat, NEW g \in Nat, NEW w \in Nat, NEW s \in Nat,
         NEW d \in Nat, NEW e \in Nat,
         f * w <= s * (d + w), g <= f + s, e >= d + w
  PROVE  g * w <= s * (e + w)
<1>1. w * g <= w * (f + s)
  BY MonotoneProduct
<1>2. w * (f + s) = f * w + s * w
  OBVIOUS
<1>3. s * (d + w) <= s * e
  BY MonotoneProduct
<1>4. s * (e + w) = s * e + s * w
  OBVIOUS
<1>5. /\ w * g = g * w /\ g * w \in Int /\ f * w \in Int /\ s * w \in Int
      /\ s * e \in Int /\ s * (d + w) \in Int
  OBVIOUS
<1> QED
  BY <1>1, <1>2, <1>3, <1>4, <1>5

\* The windows evaluated since the baseline was locked account for the
\* fraction at the time of the last evaluation.
Accounted ==
  /\ lockedAt \in Nat /\ proactive.evaluated \in Nat
  /\ lockedAt <= proactive.evaluated /\ proactive.evaluated <= obs.time
  /\ proactive.fraction * Window <=
       Step * ((proactive.evaluated - lockedAt) + Window)

RampBook ==
  /\ obs.time <= clock
  /\ proactive.locked <=> lockedAt # Never
  /\ lockedAt # Never => lockedAt <= obs.time
  /\ proactive.evaluated = Never => proactive.fraction = 0
  /\ proactive.evaluated # Never => Accounted

LEMMA RampBookDecide ==
  ASSUME TypeOK, RampBook, NEW breached \in BOOLEAN,
         proactive' = ProactiveDecide(obs, proactive, breached),
         lockedAt' = IF proactive'.locked # proactive.locked THEN obs.time ELSE lockedAt,
         obs' = obs, clock' \in Nat, clock' >= clock
  PROVE  RampBook'
<1>1. /\ obs.time \in Nat /\ clock \in Nat /\ proactive \in ProactiveStates
      /\ proactive.fraction \in Nat /\ proactive.evaluated \in Nat \cup {Never}
      /\ lockedAt \in Nat \cup {Never} /\ obs \in Observations
      /\ Window \in Nat /\ Step \in Nat /\ proactive.fraction \in 0..Cap
      /\ proactive.locked \in BOOLEAN
  BY PolicyAssumption DEF TypeOK, Observations, ProactiveStates
<1>2. obs'.time <= clock'
  BY <1>1 DEF RampBook
<1>3. CASE proactive' = proactive
  BY <1>1, <1>2, <1>3 DEF RampBook, Accounted
<1>4. CASE ~obs.warm /\ ~proactive.locked
  <2>1. proactive' = [proactive EXCEPT !.locked = TRUE] /\ lockedAt = Never
    BY <1>1, <1>4 DEF ProactiveDecide, Observations, RampBook
  <2>2. /\ proactive'.locked = TRUE /\ proactive'.evaluated = proactive.evaluated
        /\ proactive'.fraction = proactive.fraction
    BY <1>1, <2>1 DEF ProactiveStates
  <2>3. lockedAt' = obs.time
    <3>1. proactive.locked = FALSE
      BY <1>1, <1>4
    <3> QED
      BY <2>2, <3>1
  <2>4. proactive.evaluated = Never
    BY <2>1 DEF RampBook, Accounted, Never
  <2> QED
    BY <1>1, <1>2, <2>2, <2>3, <2>4 DEF RampBook, Never
<1>5. CASE ~obs.warm /\ proactive.locked /\ ~WindowOpen(obs, proactive)
  <2>1. proactive' = Evaluate(obs, proactive, breached)
    BY <1>1, <1>5 DEF ProactiveDecide, Observations
  <2>2. /\ proactive'.locked = proactive.locked /\ proactive'.evaluated = obs.time
        /\ proactive'.fraction = IF breached THEN RampUp(proactive.fraction)
                                            ELSE RampBack(proactive.fraction)
    BY <1>1, <2>1 DEF Evaluate, ProactiveStates
  <2>3. proactive'.fraction \in Nat /\ proactive'.fraction <= proactive.fraction + Step
    BY <1>1, <2>2, RampType, RampBackType, PolicyAssumption
  <2>4. lockedAt' = lockedAt /\ lockedAt \in Nat /\ lockedAt <= obs.time
    BY <1>1, <1>5, <2>2 DEF RampBook
  <2>5. CASE proactive.evaluated = Never
    <3>1. proactive'.fraction <= Step
      BY <1>1, <2>3, <2>5 DEF RampBook
    <3>2. proactive'.fraction * Window <= Step * Window
      <4>1. Window * proactive'.fraction <= Window * Step
        BY <1>1, <2>3, <3>1, MonotoneProduct
      <4> QED
        BY <1>1, <2>3, <4>1
    <3>3. Step * Window <= Step * ((obs.time - lockedAt) + Window)
      BY <1>1, <2>4, MonotoneProduct
    <3>4. proactive'.fraction * Window <= Step * ((obs.time - lockedAt) + Window)
      BY <1>1, <2>3, <2>4, <3>2, <3>3
    <3> QED
      BY <1>1, <1>2, <1>5, <2>2, <2>4, <3>4 DEF RampBook, Accounted, Never
  <2>6. CASE proactive.evaluated # Never
    <3>1. /\ Accounted /\ obs.time - proactive.evaluated >= Window
      BY <1>1, <1>5, <2>6 DEF RampBook, WindowOpen
    <3>2. /\ proactive.evaluated - lockedAt \in Nat /\ obs.time - lockedAt \in Nat
          /\ obs.time - lockedAt >= (proactive.evaluated - lockedAt) + Window
      BY <1>1, <2>4, <3>1 DEF Accounted
    <3>3. proactive'.fraction * Window <= Step * ((obs.time - lockedAt) + Window)
      BY <1>1, <2>3, <3>1, <3>2, OneStepPerWindow DEF Accounted
    <3> QED
      BY <1>1, <1>2, <1>5, <2>2, <2>4, <3>3 DEF RampBook, Accounted, Never
  <2> QED
    BY <1>1, <2>5, <2>6
<1> QED
  BY <1>1, <1>3, <1>4, <1>5 DEF ProactiveDecide, Observations

LEMMA RampBookNext == TypeOK /\ TypeOK' /\ RampBook /\ [Next]_vars => RampBook'
<1> SUFFICES ASSUME TypeOK, TypeOK', RampBook, [Next]_vars
             PROVE  RampBook'
  OBVIOUS
<1>0. clock \in Nat /\ obs.time \in Nat /\ obs'.time \in Nat
  BY DEF TypeOK, Observations
<1>1. CASE Route
  <2>1. obs' = obs /\ clock' \in Nat /\ clock' >= clock
    BY <1>1, RouteStep
  <2>2. CASE policy = "reactive"
    <3>1. UNCHANGED <<proactive, lockedAt>>
      BY <1>1, <2>2 DEF Route, PolicyDecision
    <3> QED
      BY <1>0, <2>1, <3>1 DEF RampBook, Accounted
  <2>3. CASE policy # "reactive"
    BY <1>1, <2>1, <2>3, RampBookDecide DEF Route, PolicyDecision
  <2> QED
    BY <2>2, <2>3
<1>2. ASSUME obs'.time = clock, UNCHANGED <<clock, proactive, lockedAt>>
      PROVE  RampBook'
  <2>1. lockedAt \in Nat \cup {Never} /\ proactive.evaluated \in Nat \cup {Never}
    BY DEF TypeOK, ProactiveStates
  <2> QED
    BY <1>0, <1>2, <2>1 DEF RampBook, Accounted, Never
<1>3. CASE PrimaryAnswers
  BY <1>2, <1>3 DEF PrimaryAnswers, Conclude
<1>4. CASE SpilloverReturns
  BY <1>2, <1>4 DEF SpilloverReturns, Conclude, past
<1>5. ASSUME UNCHANGED <<clock, obs, proactive, lockedAt>>
      PROVE  RampBook'
  BY <1>5 DEF RampBook, Accounted
<1> QED
  BY <1>1, <1>3, <1>4, <1>5 DEF Next, PrimaryThrottled, CallRaises, Ended, vars, state, past

\* The proactive fraction never runs ahead of its measurement windows, for
\* any window, step and cap, whatever share of them is breached.
THEOREM RampStaysGradual == Spec => []RampIsGradual
<1>1. Init => RampBook
  BY DEF Init, RampBook, ProactiveStart
<1>2. TypeOK /\ RampBook => RampIsGradual
  <2> SUFFICES ASSUME TypeOK, RampBook, lockedAt # Never
               PROVE  proactive.fraction * Window <= Step * (obs.time - lockedAt + Window)
    BY DEF RampIsGradual
  <2>1. /\ obs.time \in Nat /\ lockedAt \in Nat /\ lockedAt <= obs.time
        /\ Window \in Nat /\ Step \in Nat /\ proactive.fraction \in Nat
    BY PolicyAssumption DEF TypeOK, RampBook, Observations, ProactiveStates
  <2>2. CASE proactive.evaluated = Never
    <3>1. proactive.fraction * Window = 0
      BY <2>1, <2>2 DEF RampBook
    <3>2. Step * 0 <= Step * (obs.time - lockedAt + Window)
      BY <2>1, MonotoneProduct
    <3> QED
      BY <2>1, <3>1, <3>2
  <2>3. CASE proactive.evaluated # Never
    <3>1. Accounted
      BY <2>3 DEF RampBook
    <3>2. Step * ((proactive.evaluated - lockedAt) + Window)
            <= Step * (obs.time - lockedAt + Window)
      BY <2>1, <3>1, MonotoneProduct DEF Accounted
    <3> QED
      BY <2>1, <3>1, <3>2 DEF Accounted
  <2> QED
    BY <2>2, <2>3
<1> QED
  BY <1>1, <1>2, TypeCorrect, RampBookNext, PTL DEF Spec
=============================================================================
