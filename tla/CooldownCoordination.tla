------------------------ MODULE CooldownCoordination ------------------------
(***************************************************************************)
(* N workers send requests to provisioned deployments.  Each worker owns   *)
(* an AdmissionController wrapped by a CooldownCoordinator, and all        *)
(* coordinators share one InMemoryCooldownBackend.  A request answered 429 *)
(* is retried after the wait its header asks for plus an offset computed   *)
(* from the slot the backend gives the worker.                             *)
(*                                                                         *)
(* One action is one stretch of a worker's thread between two points where *)
(* another thread can be observed: the backend's lock, the send, the sleep.*)
(***************************************************************************)
EXTENDS Integers, FiniteSets

CONSTANTS
  Workers,         \* threads, each with its own worker_id and controller
  KeyOf,           \* KeyOf[w]: the deployment_key of w's coordinator
  MaxAttempts,     \* MaxAttempts[w]: max_attempts of w's AdmissionController
  HasFallback,     \* HasFallback[w]: whether it has a fallback callable
  MaxWait,         \* max_wait_ms of every controller
  Jittered,        \* default_jitter (TRUE) or the identity (FALSE) as jitter_fn
  SlotWidth,       \* slot_width_ms of backend and coordinator
  Strategies,      \* the ways to give each coordinator its jitter_strategy
  Waits,           \* the waits a 429 can carry; 0 also stands for "no header"
  MaxExponential   \* cap on what the unbounded exponential draw can return

ASSUME WorkersAssumption == IsFiniteSet(Workers)
ASSUME ConfigAssumption ==
  /\ MaxAttempts \in [Workers -> Nat \ {0}]
  /\ MaxWait \in Nat
  /\ SlotWidth \in Nat \ {0}
  /\ Waits \subseteq Nat
  /\ MaxExponential \in Nat
  /\ HasFallback \in [Workers -> BOOLEAN]
  /\ Jittered \in BOOLEAN
  /\ Strategies \subseteq
       [Workers -> {"deterministic_slot", "uniform", "exponential"}]

VARIABLES
  strategy,  \* jitter_strategy of each coordinator, fixed when it is made
  pc,        \* where each worker's thread is
  attempt,   \* attempt_idx of the call in progress
  parsed,    \* parsed_wait_ms of the 429 being slept on
  wait,      \* wait_ms, the parsed wait after jitter
  offset,    \* pending["offset_ms"]
  claimed,   \* pending["claimed"]
  slept,     \* the total given to the time.sleep in progress
  outcome,   \* how the call leaves the controller
  slot       \* the backend's _claims, Unclaimed for an absent worker

vars == <<strategy, pc, attempt, parsed, wait, offset, claimed, slept, outcome, slot>>

Unclaimed == -1

Peers(w) == {v \in Workers \ {w} : KeyOf[v] = KeyOf[w]}

----------------------------------------------------------------------------
(* Arithmetic of the controller and of the coordinator.                     *)

\* The largest change default_jitter makes to a wait of p milliseconds.
JitterSpread(p) ==
  IF ~Jittered \/ p = 0 THEN 0 ELSE IF p \div 10 > 1 THEN p \div 10 ELSE 1

JitteredWaits(p) == {d \in 0 .. p + JitterSpread(p) : d >= p - JitterSpread(p)}

UsedSlots(w) == {slot[v] : v \in Peers(w)} \ {Unclaimed}

\* Deviation: number the slots by counting the claims.
ClaimCount(w) == Cardinality({v \in Peers(w) : slot[v] # Unclaimed})

LowestUnused(w) ==
  CHOOSE n \in (0 .. Cardinality(Workers)) \ UsedSlots(w) :
    \A m \in (0 .. Cardinality(Workers)) \ UsedSlots(w) : n <= m

\* active_worker_count: the claims of the worker's deployment, its own included.
ActiveWorkers(w) == {v \in Peers(w) \cup {w} : slot[v] # Unclaimed}

\* Deviation: the random draw can return its upper bound.
DrawnOffsetsInclusive(w, n) ==
  IF strategy[w] = "uniform" THEN 0 .. SlotWidth * n ELSE 0 .. MaxExponential

\* The offsets _apply_strategy can return when n workers are active.
DrawnOffsets(w, n) ==
  IF strategy[w] = "uniform" THEN 0 .. SlotWidth * n - 1 ELSE 0 .. MaxExponential

----------------------------------------------------------------------------
Init ==
  /\ strategy \in Strategies
  /\ pc = [w \in Workers |-> "idle"]
  /\ attempt = [w \in Workers |-> 0]
  /\ parsed = [w \in Workers |-> 0]
  /\ wait = [w \in Workers |-> 0]
  /\ offset = [w \in Workers |-> 0]
  /\ claimed = [w \in Workers |-> FALSE]
  /\ slept = [w \in Workers |-> 0]
  /\ outcome = [w \in Workers |-> "none"]
  /\ slot = [w \in Workers |-> Unclaimed]

\* CooldownCoordinator.call up to the first send: a fresh `pending` record.
StartCall(w) ==
  /\ pc[w] = "idle"
  /\ pc' = [pc EXCEPT ![w] = "sending"]
  /\ attempt' = [attempt EXCEPT ![w] = 1]
  /\ UNCHANGED <<strategy, parsed, wait, offset, claimed, slept, outcome, slot>>

\* AdmissionController.call returns or raises, and its loop index is gone.
Exit(w, how) ==
  /\ pc' = [pc EXCEPT ![w] = "exiting"]
  /\ attempt' = [attempt EXCEPT ![w] = 0]
  /\ outcome' = [outcome EXCEPT ![w] = how]

\* send() returns something other than a 429, or raises.
Respond(w) ==
  /\ pc[w] = "sending"
  /\ \E how \in {"response", "error"} : Exit(w, how)
  /\ UNCHANGED <<strategy, parsed, wait, offset, claimed, slept, slot>>

\* A 429 that asks for more than the ceiling: fall back, or give up.
ThrottleAboveCeiling(w, p) ==
  /\ pc[w] = "sending"
  /\ p > MaxWait
  /\ Exit(w, IF HasFallback[w] THEN "fallback" ELSE "ceiling")
  /\ UNCHANGED <<strategy, parsed, wait, offset, claimed, slept, slot>>

AttemptsLeft(w) == attempt[w] < MaxAttempts[w]

\* A 429 on the last attempt: give up.
ThrottleExhausted(w, p) ==
  /\ pc[w] = "sending"
  /\ p <= MaxWait
  /\ ~AttemptsLeft(w)
  /\ Exit(w, "exhausted")
  /\ UNCHANGED <<strategy, parsed, wait, offset, claimed, slept, slot>>

\* A 429 the controller decides to sleep on: wrapped_on_throttle is entered.
ThrottleRetry(w, p) ==
  /\ pc[w] = "sending"
  /\ p <= MaxWait
  /\ AttemptsLeft(w)
  /\ pc' = [pc EXCEPT ![w] = "throttled"]
  /\ parsed' = [parsed EXCEPT ![w] = p]
  /\ \E d \in JitteredWaits(p) : wait' = [wait EXCEPT ![w] = d]
  /\ UNCHANGED <<strategy, attempt, offset, claimed, slept, outcome, slot>>

\* Deviation: a re-claim moves the worker to the lowest index now free.
SlotForCompacting(w) == LowestUnused(w)

\* claim_slot under the backend's lock: an existing claim is kept, a new one
\* takes the lowest unused index.
SlotFor(w) == IF slot[w] # Unclaimed THEN slot[w] ELSE LowestUnused(w)

Claim(w) ==
  /\ pc[w] = "throttled"
  /\ slot' = [slot EXCEPT ![w] = SlotFor(w)]
  /\ IF strategy[w] = "deterministic_slot"
     THEN /\ offset' = [offset EXCEPT ![w] = SlotFor(w) * SlotWidth]
          /\ claimed' = [claimed EXCEPT ![w] = TRUE]
          /\ pc' = [pc EXCEPT ![w] = "granted"]
     ELSE /\ pc' = [pc EXCEPT ![w] = "drawing"]
          /\ UNCHANGED <<offset, claimed>>
  /\ UNCHANGED <<strategy, attempt, parsed, wait, slept, outcome>>

\* _apply_strategy of the random strategies: the active count is read under a
\* second acquisition of the backend's lock.
DrawOffset(w) ==
  /\ pc[w] = "drawing"
  /\ \E o \in DrawnOffsets(w, Cardinality(ActiveWorkers(w))) :
       offset' = [offset EXCEPT ![w] = o]
  /\ claimed' = [claimed EXCEPT ![w] = TRUE]
  /\ pc' = [pc EXCEPT ![w] = "granted"]
  /\ UNCHANGED <<strategy, attempt, parsed, wait, slept, outcome, slot>>

\* Deviation: the pending offset is cleared before it is read.
TotalSleepAfterReset(w) == wait[w]

TotalSleep(w) == wait[w] + offset[w]

\* wrapped_sleep: consume the pending offset and sleep.
Sleep(w) ==
  /\ pc[w] = "granted"
  /\ wait[w] > 0
  /\ slept' = [slept EXCEPT ![w] = TotalSleep(w)]
  /\ offset' = [offset EXCEPT ![w] = 0]
  /\ pc' = [pc EXCEPT ![w] = "sleeping"]
  /\ UNCHANGED <<strategy, attempt, parsed, wait, claimed, outcome, slot>>

\* The iteration of the retry loop ends, and with it the wait it was about.
EndIteration(w) ==
  /\ pc' = [pc EXCEPT ![w] = "sending"]
  /\ parsed' = [parsed EXCEPT ![w] = 0]
  /\ wait' = [wait EXCEPT ![w] = 0]
  /\ slept' = [slept EXCEPT ![w] = 0]

\* Deviation: a retry that did not sleep is not counted.
SkipSleepUncounted(w) ==
  /\ pc[w] = "granted"
  /\ wait[w] = 0
  /\ EndIteration(w)
  /\ UNCHANGED <<strategy, attempt, offset, claimed, outcome, slot>>

\* The controller calls its sleep function for a positive wait only: the next
\* attempt starts at once, and the offset just claimed stays pending.
SkipSleep(w) ==
  /\ pc[w] = "granted"
  /\ wait[w] = 0
  /\ attempt' = [attempt EXCEPT ![w] = @ + 1]
  /\ EndIteration(w)
  /\ UNCHANGED <<strategy, offset, claimed, outcome, slot>>

Wake(w) ==
  /\ pc[w] = "sleeping"
  /\ attempt' = [attempt EXCEPT ![w] = @ + 1]
  /\ EndIteration(w)
  /\ UNCHANGED <<strategy, offset, claimed, outcome, slot>>

\* Deviation: the slot is given back on a successful resume only.
ReleasedOnSuccess(w) ==
  IF claimed[w] /\ outcome[w] = "response" THEN Unclaimed ELSE slot[w]

\* release_slot, called by the coordinator's finally clause if it claimed.
Released(w) == IF claimed[w] THEN Unclaimed ELSE slot[w]

\* The finally clause of CooldownCoordinator.call; the call's locals die.
Finish(w) ==
  /\ pc[w] = "exiting"
  /\ slot' = [slot EXCEPT ![w] = Released(w)]
  /\ pc' = [pc EXCEPT ![w] = "idle"]
  /\ offset' = [offset EXCEPT ![w] = 0]
  /\ claimed' = [claimed EXCEPT ![w] = FALSE]
  /\ outcome' = [outcome EXCEPT ![w] = "none"]
  /\ UNCHANGED <<strategy, attempt, parsed, wait, slept>>

Throttle(w) ==
  \E p \in Waits : \/ ThrottleAboveCeiling(w, p)
                   \/ ThrottleExhausted(w, p)
                   \/ ThrottleRetry(w, p)

InCall(w) ==
  \/ Respond(w) \/ Throttle(w) \/ Claim(w) \/ DrawOffset(w)
  \/ Sleep(w) \/ SkipSleep(w) \/ Wake(w) \/ Finish(w)

Next == \E w \in Workers : StartCall(w) \/ InCall(w)

Spec == Init /\ [][Next]_vars

\* A thread that is inside a call is scheduled, its sends return and its
\* sleeps end; nobody has to start a call.
Fairness == \A w \in Workers : WF_vars(InCall(w))

FairSpec == Spec /\ Fairness

----------------------------------------------------------------------------
Places == {"idle", "sending", "throttled", "drawing", "granted", "sleeping",
           "exiting"}

Outcomes == {"none", "response", "error", "fallback", "ceiling", "exhausted"}

\* Type invariant of the coordinators, the controllers and the backend.
TypeOK ==
  /\ strategy \in Strategies
  /\ pc \in [Workers -> Places]
  /\ attempt \in [Workers -> Nat]
  /\ \A w \in Workers : attempt[w] <= MaxAttempts[w]
  /\ parsed \in [Workers -> Nat]
  /\ wait \in [Workers -> Nat]
  /\ offset \in [Workers -> Nat]
  /\ claimed \in [Workers -> BOOLEAN]
  /\ slept \in [Workers -> Nat]
  /\ outcome \in [Workers -> Outcomes]
  /\ slot \in [Workers -> Nat \cup {Unclaimed}]

\* No two workers of one deployment hold the same slot, whatever the order in
\* which calls claim and release them.
DistinctSlots ==
  \A w \in Workers : \A v \in Peers(w) :
    slot[w] # Unclaimed => slot[w] # slot[v]

\* A worker with no call in progress holds no slot: every way out of a call
\* (response, exception, fallback, both ways of giving up) gives it back.
NoSlotLeak == \A w \in Workers : pc[w] = "idle" => slot[w] = Unclaimed

\* Indices are reused, so that the latency added for coordination stays below
\* one slot width per worker of the deployment however long the workers run.
\* The exponential draw alone has no such bound.
OffsetsInWindow ==
  \A w \in Workers :
    strategy[w] # "exponential"
      => offset[w] < SlotWidth * (Cardinality(Peers(w)) + 1)

\* The herd is dispersed as far as the jitter lets it be: of two workers of a
\* deployment with deterministic slots, told to wait equally long and asleep at
\* the same time, the one in the higher slot sleeps longer by the distance of
\* their slots, less what the jitter took from the one and gave to the other.
\* Where the jitter spans that distance the two may resume together.
SleepsApart ==
  \A w \in Workers : \A v \in Peers(w) :
    /\ strategy[w] = "deterministic_slot" /\ strategy[v] = "deterministic_slot"
    /\ pc[w] = "sleeping" /\ pc[v] = "sleeping"
    /\ parsed[w] = parsed[v] /\ slot[w] < slot[v]
    => slept[v] - slept[w]
         >= (slot[v] - slot[w]) * SlotWidth - 2 * JitterSpread(parsed[w])

\* Slots behave as the backend protocol promises: a slot is taken once, held
\* unchanged through every retry of the call, and then released.
Registry == INSTANCE SlotRegistry
SlotProtocol == Registry!Spec

\* Every call that starts leaves the coordinator: retries are bounded, with and
\* without sleeping in between.
CallsTerminate == \A w \in Workers : pc[w] = "sending" ~> pc[w] = "idle"
=============================================================================
