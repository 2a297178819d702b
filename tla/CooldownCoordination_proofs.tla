-------------------- MODULE CooldownCoordination_proofs --------------------
(***************************************************************************)
(* Proofs about CooldownCoordination for any finite set of workers, any    *)
(* deployments and any configuration of controllers and backend.           *)
(***************************************************************************)
EXTENDS CooldownCoordination, FiniteSetTheorems, NaturalsInduction,
        WellFoundedInduction, TLAPS

\* A nonempty set of naturals has a least element.
LEMMA LeastElement ==
  ASSUME NEW S \in SUBSET Nat, S # {}
  PROVE  \E n \in S : \A m \in S : n <= m
<1>1. PICK n \in S : \A m \in S : ~(<<m, n>> \in OpToRel(<, Nat))
  BY NatLessThanWellFounded, WFMin, Zenon
<1>2. \A m \in S : ~(m < n)
  BY <1>1 DEF OpToRel
<1> QED  BY <1>2

\* Products of naturals, stated once for the provers.
LEMMA ProductType == ASSUME NEW a \in Nat, NEW b \in Nat PROVE a * b \in Nat
  OBVIOUS

\* The used slots of a worker's peers are no more than its peers.
LEMMA UsedSlotsBound ==
  ASSUME TypeOK, NEW w \in Workers
  PROVE  /\ UsedSlots(w) \in SUBSET Nat
         /\ IsFiniteSet(UsedSlots(w))
         /\ Cardinality(UsedSlots(w)) <= Cardinality(Peers(w))
         /\ Cardinality(Peers(w)) \in Nat
         /\ Cardinality(Peers(w)) < Cardinality(Workers)
         /\ Cardinality(Workers) \in Nat
<1> DEFINE Holders == {v \in Peers(w) : slot[v] # Unclaimed}
           f == [v \in Holders |-> slot[v]]
<1>1. IsFiniteSet(Peers(w)) /\ Cardinality(Peers(w)) <= Cardinality(Workers \ {w})
  BY WorkersAssumption, FS_RemoveElement, FS_Subset DEF Peers
<1>2. Cardinality(Workers \ {w}) = Cardinality(Workers) - 1
  BY WorkersAssumption, FS_RemoveElement
<1>3. IsFiniteSet(Holders) /\ Cardinality(Holders) <= Cardinality(Peers(w))
  BY <1>1, FS_Subset
<1>4. f \in Surjection(Holders, UsedSlots(w))
  BY DEF Surjection, UsedSlots, Holders
<1>5. IsFiniteSet(UsedSlots(w)) /\ Cardinality(UsedSlots(w)) <= Cardinality(Holders)
  BY <1>3, <1>4, FS_Surjection
<1>6. UsedSlots(w) \in SUBSET Nat
  BY DEF TypeOK, UsedSlots, Peers
<1> QED
  BY <1>1, <1>2, <1>3, <1>5, <1>6, WorkersAssumption, FS_CardinalityType

\* The index a new claim takes is free and lies below the number of workers
\* that contend for the deployment.
LEMMA LowestUnusedIsFree ==
  ASSUME TypeOK, NEW w \in Workers
  PROVE  /\ LowestUnused(w) \in Nat
         /\ LowestUnused(w) \notin UsedSlots(w)
         /\ LowestUnused(w) <= Cardinality(Peers(w))
<1> DEFINE N == Cardinality(Workers)
           K == Cardinality(Peers(w))
           Free == (0 .. N) \ UsedSlots(w)
           n == LowestUnused(w)
<1>1. /\ UsedSlots(w) \in SUBSET Nat
      /\ IsFiniteSet(UsedSlots(w))
      /\ Cardinality(UsedSlots(w)) <= K
      /\ K \in Nat /\ N \in Nat /\ K < N
  BY UsedSlotsBound
<1>2. Cardinality(UsedSlots(w)) \in Nat
  BY <1>1, FS_CardinalityType
<1>3. ASSUME NEW k \in Nat, 0 .. k \subseteq UsedSlots(w)
      PROVE  k < K
  <2>1. Cardinality(0 .. k) = k + 1
    BY FS_Interval
  <2>2. Cardinality(0 .. k) <= Cardinality(UsedSlots(w))
    BY <1>1, <1>3, FS_Subset
  <2> QED  BY <1>1, <1>2, <2>1, <2>2
<1>4. \E m \in 0 .. K : m \notin UsedSlots(w)
  BY <1>1, <1>3
<1>5. PICK m \in 0 .. K : m \in Free
  BY <1>1, <1>4
<1>6. n \in Free /\ \A i \in Free : n <= i
  <2>1. Free \in SUBSET Nat /\ Free # {}
    BY <1>1, <1>5
  <2>2. \E i \in Free : \A j \in Free : i <= j
    BY <2>1, LeastElement
  <2>3. n = CHOOSE i \in Free : \A j \in Free : i <= j
    BY DEF LowestUnused
  <2> HIDE DEF n, Free
  <2> QED  BY <2>2, <2>3
<1> QED  BY <1>1, <1>5, <1>6

----------------------------------------------------------------------------
(* Type correctness.                                                        *)

LEMMA JitterSpreadType == ASSUME NEW p \in Nat PROVE JitterSpread(p) \in Nat
<1>1. p \div 10 \in Int
  OBVIOUS
<1> QED  BY <1>1 DEF JitterSpread

LEMMA JitteredWaitsType ==
  ASSUME NEW p \in Nat
  PROVE  JitteredWaits(p) \subseteq Nat
BY ConfigAssumption DEF JitteredWaits, JitterSpread

LEMMA ActiveWorkersBound ==
  ASSUME NEW w \in Workers
  PROVE  /\ Cardinality(ActiveWorkers(w)) \in Nat
         /\ Cardinality(ActiveWorkers(w)) <= Cardinality(Peers(w)) + 1
         /\ Cardinality(Peers(w)) \in Nat
<1>1. IsFiniteSet(Peers(w)) /\ w \notin Peers(w)
  BY WorkersAssumption, FS_Subset DEF Peers
<1>2. /\ IsFiniteSet(Peers(w) \cup {w})
      /\ Cardinality(Peers(w) \cup {w}) = Cardinality(Peers(w)) + 1
  BY <1>1, FS_AddElement
<1>3. ActiveWorkers(w) \subseteq Peers(w) \cup {w}
  BY DEF ActiveWorkers
<1> QED  BY <1>1, <1>2, <1>3, FS_Subset, FS_CardinalityType

\* What _apply_strategy draws is a duration, below the window when uniform.
LEMMA DrawnOffsetsType ==
  ASSUME NEW w \in Workers, NEW n \in Nat
  PROVE  /\ DrawnOffsets(w, n) \subseteq Nat
         /\ strategy[w] = "uniform"
              => \A o \in DrawnOffsets(w, n) : o < SlotWidth * n
<1>1. SlotWidth * n \in Nat
  BY ConfigAssumption, ProductType
<1> QED  BY <1>1, ConfigAssumption DEF DrawnOffsets

(* The type of attempt is kept only because a retry is decided with          *)
(* attempts left: the budget strengthens the type invariant.                *)
Retrying == {"throttled", "drawing", "granted", "sleeping"}

RetryBudget ==
  \A w \in Workers : pc[w] \in Retrying => attempt[w] < MaxAttempts[w]

TypeInv == TypeOK /\ RetryBudget

LEMMA TypeInvInit == Init => TypeInv
BY ConfigAssumption
   DEF Init, TypeInv, TypeOK, RetryBudget, Retrying, Places, Outcomes

LEMMA TypeInvNext == TypeInv /\ [Next]_vars => TypeInv'
<1> SUFFICES ASSUME TypeInv, [Next]_vars
             PROVE  TypeInv'
  OBVIOUS
<1> USE ConfigAssumption
    DEF TypeInv, TypeOK, RetryBudget, Retrying, Places, Outcomes
<1>1. ASSUME NEW w \in Workers, StartCall(w)
      PROVE  TypeInv'
  BY <1>1 DEF StartCall
<1>2. ASSUME NEW w \in Workers, Respond(w)
      PROVE  TypeInv'
  BY <1>2 DEF Respond, Exit
<1>3. ASSUME NEW w \in Workers, NEW p \in Waits, ThrottleAboveCeiling(w, p)
      PROVE  TypeInv'
  BY <1>3 DEF ThrottleAboveCeiling, Exit
<1>4. ASSUME NEW w \in Workers, NEW p \in Waits, ThrottleExhausted(w, p)
      PROVE  TypeInv'
  BY <1>4, JitteredWaitsType DEF ThrottleExhausted, Exit
<1>5. ASSUME NEW w \in Workers, NEW p \in Waits, ThrottleRetry(w, p)
      PROVE  TypeInv'
  BY <1>5, JitteredWaitsType DEF ThrottleRetry, AttemptsLeft
<1>6. ASSUME NEW w \in Workers, Claim(w)
      PROVE  TypeInv'
  <2>1. SlotFor(w) \in Nat
    BY LowestUnusedIsFree DEF SlotFor
  <2>2. SlotFor(w) * SlotWidth \in Nat
    BY <2>1, ProductType
  <2> HIDE DEF Unclaimed
  <2> QED  BY <1>6, <2>1, <2>2 DEF Claim
<1>7. ASSUME NEW w \in Workers, DrawOffset(w)
      PROVE  TypeInv'
  <2>1. DrawnOffsets(w, Cardinality(ActiveWorkers(w))) \subseteq Nat
    BY ActiveWorkersBound, DrawnOffsetsType
  <2> QED  BY <1>7, <2>1 DEF DrawOffset
<1>8. ASSUME NEW w \in Workers, Sleep(w)
      PROVE  TypeInv'
  BY <1>8 DEF Sleep, TotalSleep
<1>9. ASSUME NEW w \in Workers, SkipSleep(w)
      PROVE  TypeInv'
  BY <1>9 DEF SkipSleep, EndIteration
<1>10. ASSUME NEW w \in Workers, Wake(w)
       PROVE  TypeInv'
  BY <1>10 DEF Wake, EndIteration
<1>11. ASSUME NEW w \in Workers, Finish(w)
       PROVE  TypeInv'
  BY <1>11 DEF Finish, Released
<1>12. CASE UNCHANGED vars
  BY <1>12 DEF vars
<1> QED
  BY <1>1, <1>2, <1>3, <1>4, <1>5, <1>6, <1>7, <1>8, <1>9, <1>10, <1>11, <1>12
  DEF Next, InCall, Throttle

LEMMA TypeInvCorrect == Spec => []TypeInv
  BY TypeInvInit, TypeInvNext, PTL DEF Spec

\* The variables have their types in every reachable state.
THEOREM TypeCorrect == Spec => []TypeOK
<1>1. TypeInv => TypeOK
  BY DEF TypeInv
<1> QED  BY <1>1, TypeInvCorrect, PTL

----------------------------------------------------------------------------
(* Slots.  One invariant carries the four facts about them: a claim is       *)
(* exclusive, bounded by the peers, owned by a call that will release it,   *)
(* and present whenever an offset computed from it is in use.               *)
SlotInv ==
  /\ TypeInv
  /\ DistinctSlots
  /\ \A w \in Workers :
       /\ slot[w] <= Cardinality(Peers(w))
       /\ pc[w] = "idle" => slot[w] = Unclaimed
       /\ pc[w] \in {"drawing", "granted", "sleeping"} => slot[w] # Unclaimed
       /\ slot[w] # Unclaimed => claimed[w] \/ pc[w] = "drawing"

\* A step that changes neither slots, claims nor the place of any worker among
\* the places the invariant speaks of keeps it; here for one worker w moving.
LEMMA SlotInvMove ==
  ASSUME SlotInv, TypeInv', NEW w \in Workers, NEW q \in Places,
         pc' = [pc EXCEPT ![w] = q],
         slot' = slot, claimed' = claimed,
         q \in {"granted", "sleeping"} => pc[w] = "granted",
         pc[w] \notin {"idle", "drawing"},
         q \notin {"idle", "drawing"}
  PROVE  SlotInv'
BY DEF SlotInv, TypeInv, TypeOK, DistinctSlots, Peers, Unclaimed

LEMMA SlotInvClaim ==
  ASSUME SlotInv, TypeInv', NEW w \in Workers, Claim(w)
  PROVE  SlotInv'
<1>1. /\ SlotFor(w) \in Nat
      /\ SlotFor(w) <= Cardinality(Peers(w))
      /\ \A v \in Peers(w) : SlotFor(w) # slot[v]
  BY LowestUnusedIsFree
     DEF SlotFor, SlotInv, TypeInv, TypeOK, DistinctSlots, UsedSlots, Unclaimed
<1>2. slot' = [slot EXCEPT ![w] = SlotFor(w)]
  BY DEF Claim
<1>3. DistinctSlots'
  BY <1>1, <1>2 DEF DistinctSlots, Peers, Unclaimed, SlotInv, TypeInv, TypeOK
<1>4. \A v \in Workers : slot'[v] <= Cardinality(Peers(v))
  BY <1>1, <1>2 DEF SlotInv, TypeInv, TypeOK
<1>5. \/ /\ claimed' = [claimed EXCEPT ![w] = TRUE]
         /\ pc' = [pc EXCEPT ![w] = "granted"]
      \/ /\ claimed' = claimed
         /\ pc' = [pc EXCEPT ![w] = "drawing"]
  BY DEF Claim
<1>6. slot'[w] # Unclaimed
  BY <1>1, <1>2 DEF Unclaimed, SlotInv, TypeInv, TypeOK
<1> QED
  BY <1>2, <1>3, <1>4, <1>5, <1>6 DEF SlotInv, TypeInv, TypeOK, Peers

LEMMA SlotInvInit == Init => SlotInv
<1> SUFFICES ASSUME Init PROVE SlotInv
  OBVIOUS
<1>1. TypeInv
  BY TypeInvInit
<1>2. \A w \in Workers : Cardinality(Peers(w)) \in Nat
  BY <1>1, UsedSlotsBound DEF TypeInv
<1> QED
  BY <1>1, <1>2 DEF Init, SlotInv, DistinctSlots, Unclaimed, Peers

LEMMA SlotInvNext == SlotInv /\ [Next]_vars => SlotInv'
<1> SUFFICES ASSUME SlotInv, [Next]_vars
             PROVE  SlotInv'
  OBVIOUS
<1>0. TypeInv'
  BY TypeInvNext DEF SlotInv
<1>1. ASSUME NEW w \in Workers, StartCall(w)
      PROVE  SlotInv'
  BY <1>0, <1>1 DEF StartCall, SlotInv, TypeInv, TypeOK, DistinctSlots, Peers
<1>2. ASSUME NEW w \in Workers, Respond(w)
      PROVE  SlotInv'
  BY <1>0, <1>2, SlotInvMove DEF Respond, Exit, Places
<1>3. ASSUME NEW w \in Workers, NEW p \in Waits, ThrottleAboveCeiling(w, p)
      PROVE  SlotInv'
  BY <1>0, <1>3, SlotInvMove DEF ThrottleAboveCeiling, Exit, Places
<1>4. ASSUME NEW w \in Workers, NEW p \in Waits, ThrottleExhausted(w, p)
      PROVE  SlotInv'
  BY <1>0, <1>4, SlotInvMove DEF ThrottleExhausted, Exit, Places
<1>5. ASSUME NEW w \in Workers, NEW p \in Waits, ThrottleRetry(w, p)
      PROVE  SlotInv'
  BY <1>0, <1>5, SlotInvMove DEF ThrottleRetry, Places
<1>6. ASSUME NEW w \in Workers, Claim(w)
      PROVE  SlotInv'
  BY <1>0, <1>6, SlotInvClaim
<1>7. ASSUME NEW w \in Workers, DrawOffset(w)
      PROVE  SlotInv'
  BY <1>0, <1>7 DEF DrawOffset, SlotInv, TypeInv, TypeOK, DistinctSlots, Peers
<1>8. ASSUME NEW w \in Workers, Sleep(w)
      PROVE  SlotInv'
  BY <1>0, <1>8, SlotInvMove DEF Sleep, Places
<1>9. ASSUME NEW w \in Workers, SkipSleep(w)
      PROVE  SlotInv'
  BY <1>0, <1>9, SlotInvMove DEF SkipSleep, EndIteration, Places
<1>10. ASSUME NEW w \in Workers, Wake(w)
       PROVE  SlotInv'
  BY <1>0, <1>10, SlotInvMove DEF Wake, EndIteration, Places
<1>11. ASSUME NEW w \in Workers, Finish(w)
       PROVE  SlotInv'
  <2>1. /\ slot' = [slot EXCEPT ![w] = Unclaimed]
        /\ claimed' = [claimed EXCEPT ![w] = FALSE]
        /\ pc' = [pc EXCEPT ![w] = "idle"]
    <3>1. slot[w] # Unclaimed => claimed[w]
      BY <1>11 DEF Finish, SlotInv
    <3>2. Released(w) = Unclaimed
      BY <3>1 DEF Released
    <3> QED  BY <1>11, <3>2 DEF Finish
  <2>2. \A v \in Workers : Cardinality(Peers(v)) \in Nat
    BY UsedSlotsBound DEF SlotInv, TypeInv
  <2>3. DistinctSlots'
    BY <2>1 DEF SlotInv, TypeInv, TypeOK, DistinctSlots, Peers
  <2>4. \A v \in Workers : slot'[v] <= Cardinality(Peers(v))
    BY <2>1, <2>2 DEF SlotInv, TypeInv, TypeOK, Unclaimed
  <2>5. \A v \in Workers :
          /\ pc'[v] = "idle" => slot'[v] = Unclaimed
          /\ pc'[v] \in {"drawing", "granted", "sleeping"} => slot'[v] # Unclaimed
          /\ slot'[v] # Unclaimed => claimed'[v] \/ pc'[v] = "drawing"
    BY <2>1 DEF SlotInv, TypeInv, TypeOK
  <2> QED  BY <1>0, <2>3, <2>4, <2>5 DEF SlotInv, Peers
<1>12. CASE UNCHANGED vars
  BY <1>12, <1>0 DEF vars, SlotInv, DistinctSlots, Peers
<1> QED
  BY <1>1, <1>2, <1>3, <1>4, <1>5, <1>6, <1>7, <1>8, <1>9, <1>10, <1>11, <1>12
  DEF Next, InCall, Throttle

LEMMA SlotInvCorrect == Spec => []SlotInv
  BY SlotInvInit, SlotInvNext, PTL DEF Spec

\* Workers of one deployment never hold the same slot.
THEOREM SlotsAreDistinct == Spec => []DistinctSlots
<1>1. SlotInv => DistinctSlots
  BY DEF SlotInv
<1> QED  BY <1>1, SlotInvCorrect, PTL

\* Every way out of a call gives the slot back.
THEOREM SlotsAreReleased == Spec => []NoSlotLeak
<1>1. SlotInv => NoSlotLeak
  BY DEF SlotInv, NoSlotLeak
<1> QED  BY <1>1, SlotInvCorrect, PTL

----------------------------------------------------------------------------
(* Dispersal.  A sleeping worker's total is its jittered wait plus the       *)
(* offset of the slot it still holds; adjacent slots are further apart than *)
(* the jitter of two equal waits.                                           *)
WorkerTiming(w) ==
  /\ pc[w] \in Retrying =>
       /\ parsed[w] \in Waits
       /\ parsed[w] <= MaxWait
       /\ wait[w] \in JitteredWaits(parsed[w])
  /\ pc[w] = "drawing" => strategy[w] # "deterministic_slot"
  /\ strategy[w] = "deterministic_slot" =>
       /\ pc[w] = "granted" => offset[w] = slot[w] * SlotWidth
       /\ pc[w] = "sleeping" => slept[w] = wait[w] + slot[w] * SlotWidth

TimingInv == SlotInv /\ \A w \in Workers : WorkerTiming(w)

LEMMA TimingInvInit == Init => TimingInv
BY SlotInvInit DEF Init, TimingInv, WorkerTiming, Retrying

LEMMA TimingInvNext == TimingInv /\ [Next]_vars => TimingInv'
<1> SUFFICES ASSUME TimingInv, [Next]_vars,
                    NEW v \in Workers
             PROVE  WorkerTiming(v)'
  BY SlotInvNext DEF TimingInv
<1>0. /\ TypeOK
      /\ WorkerTiming(v)
  BY DEF TimingInv, SlotInv, TypeInv
<1> USE <1>0 DEF TypeOK, WorkerTiming, Retrying
<1>1. ASSUME NEW w \in Workers, StartCall(w)
      PROVE  WorkerTiming(v)'
  BY <1>1 DEF StartCall
<1>2. ASSUME NEW w \in Workers, Respond(w)
      PROVE  WorkerTiming(v)'
  BY <1>2 DEF Respond, Exit
<1>3. ASSUME NEW w \in Workers, NEW p \in Waits, ThrottleAboveCeiling(w, p)
      PROVE  WorkerTiming(v)'
  BY <1>3 DEF ThrottleAboveCeiling, Exit
<1>4. ASSUME NEW w \in Workers, NEW p \in Waits, ThrottleExhausted(w, p)
      PROVE  WorkerTiming(v)'
  BY <1>4 DEF ThrottleExhausted, Exit
<1>5. ASSUME NEW w \in Workers, NEW p \in Waits, ThrottleRetry(w, p)
      PROVE  WorkerTiming(v)'
  BY <1>5 DEF ThrottleRetry
<1>6. ASSUME NEW w \in Workers, Claim(w)
      PROVE  WorkerTiming(v)'
  BY <1>6 DEF Claim
<1>7. ASSUME NEW w \in Workers, DrawOffset(w)
      PROVE  WorkerTiming(v)'
  BY <1>7 DEF DrawOffset
<1>8. ASSUME NEW w \in Workers, Sleep(w)
      PROVE  WorkerTiming(v)'
  BY <1>8 DEF Sleep, TotalSleep
<1>9. ASSUME NEW w \in Workers, SkipSleep(w)
      PROVE  WorkerTiming(v)'
  BY <1>9 DEF SkipSleep, EndIteration
<1>10. ASSUME NEW w \in Workers, Wake(w)
       PROVE  WorkerTiming(v)'
  BY <1>10 DEF Wake, EndIteration
<1>11. ASSUME NEW w \in Workers, Finish(w)
       PROVE  WorkerTiming(v)'
  BY <1>11 DEF Finish
<1>12. CASE UNCHANGED vars
  BY <1>12 DEF vars
<1> QED
  BY <1>1, <1>2, <1>3, <1>4, <1>5, <1>6, <1>7, <1>8, <1>9, <1>10, <1>11, <1>12
  DEF Next, InCall, Throttle

\* Distinct slots are at least a slot width apart.
LEMMA SlotGap ==
  ASSUME NEW m \in Nat, NEW n \in Nat, m < n
  PROVE  m * SlotWidth + SlotWidth <= n * SlotWidth
<1>1. n * SlotWidth = m * SlotWidth + (n - m) * SlotWidth
  BY ConfigAssumption
<1>2. (n - m) * SlotWidth = SlotWidth + (n - m - 1) * SlotWidth
  BY ConfigAssumption
<1>3. (n - m - 1) * SlotWidth \in Nat
  BY ConfigAssumption, ProductType
<1>4. m * SlotWidth \in Nat
  BY ConfigAssumption, ProductType
<1> QED  BY <1>1, <1>2, <1>3, <1>4, ConfigAssumption

LEMMA SlotDistance ==
  ASSUME NEW m \in Nat, NEW n \in Nat, m < n
  PROVE  n * SlotWidth - m * SlotWidth = (n - m) * SlotWidth
BY ConfigAssumption

LEMMA TimingDisperses ==
  ASSUME TimingInv
  PROVE  SleepsApart
<1> SUFFICES ASSUME NEW w \in Workers, NEW v \in Peers(w),
                    strategy[w] = "deterministic_slot",
                    strategy[v] = "deterministic_slot",
                    pc[w] = "sleeping", pc[v] = "sleeping",
                    parsed[w] = parsed[v], slot[w] < slot[v]
             PROVE  slept[v] - slept[w]
                      >= (slot[v] - slot[w]) * SlotWidth - 2 * JitterSpread(parsed[w])
  BY DEF SleepsApart
<1> DEFINE d == JitterSpread(parsed[w])
           a == slot[w] * SlotWidth
           b == slot[v] * SlotWidth
<1>1. v \in Workers
  BY DEF Peers
<1>2. /\ slept[w] = wait[w] + a
      /\ slept[v] = wait[v] + b
      /\ wait[w] \in JitteredWaits(parsed[w])
      /\ wait[v] \in JitteredWaits(parsed[w])
      /\ parsed[w] \in Waits
  BY <1>1 DEF TimingInv, WorkerTiming, Retrying
<1>3. slot[w] \in Nat /\ slot[v] \in Nat
  <2>1. slot[w] # Unclaimed /\ slot[v] # Unclaimed
    BY <1>1 DEF TimingInv, SlotInv
  <2> QED  BY <1>1, <2>1 DEF TimingInv, SlotInv, TypeInv, TypeOK
<1>4. b - a = (slot[v] - slot[w]) * SlotWidth /\ a \in Nat /\ b \in Nat
  BY <1>3, SlotDistance, ProductType, ConfigAssumption
<1>5. parsed[w] \in Nat /\ d \in Nat
  BY <1>2, JitterSpreadType, ConfigAssumption
<1> HIDE DEF d, a, b
<1>6. /\ wait[w] \in 0 .. parsed[w] + d /\ wait[w] >= parsed[w] - d
      /\ wait[v] \in 0 .. parsed[w] + d /\ wait[v] >= parsed[w] - d
  BY <1>2 DEF JitteredWaits, d
<1>7. slept[v] - slept[w] >= b - a - 2 * d
  BY <1>2, <1>4, <1>5, <1>6
<1> QED  BY <1>4, <1>7 DEF d

\* Deterministic slots disperse the herd, for any slot width and any jitter: two
\* workers of a deployment asleep after the same retry-after are as far apart as
\* their slots, less at most twice the jitter of that wait.
THEOREM SleepsAreApart == Spec => []SleepsApart
<1>1. TimingInv => SleepsApart
  BY TimingDisperses
<1> QED  BY <1>1, TimingInvInit, TimingInvNext, PTL DEF Spec

----------------------------------------------------------------------------
(* The latency added for coordination stays in the window of N slots.        *)
WindowInv == TimingInv /\ OffsetsInWindow

LEMMA SlotsFitWindow ==
  ASSUME NEW m \in Nat, NEW k \in Nat, m <= k
  PROVE  m * SlotWidth < SlotWidth * (k + 1)
<1>1. SlotWidth * (k + 1) = (k + 1) * SlotWidth
  BY ConfigAssumption
<1>2. m * SlotWidth + SlotWidth <= (k + 1) * SlotWidth
  BY SlotGap
<1>3. m * SlotWidth \in Nat /\ (k + 1) * SlotWidth \in Nat
  BY ConfigAssumption, ProductType
<1> QED  BY <1>1, <1>2, <1>3, ConfigAssumption

LEMMA WindowMonotone ==
  ASSUME NEW m \in Nat, NEW k \in Nat, m <= k
  PROVE  SlotWidth * m <= SlotWidth * k
<1>1. SlotWidth * k = SlotWidth * m + SlotWidth * (k - m)
  BY ConfigAssumption
<1>2. SlotWidth * (k - m) \in Nat /\ SlotWidth * m \in Nat
  BY ConfigAssumption, ProductType
<1> QED  BY <1>1, <1>2

\* A coordinator keeps the strategy it was made with.
LEMMA StrategyFixed == [Next]_vars => strategy' = strategy
BY DEF vars, Next, InCall, StartCall, Respond, Throttle, ThrottleAboveCeiling,
       ThrottleExhausted, ThrottleRetry, Claim, DrawOffset, Sleep, SkipSleep,
       Wake, Finish

LEMMA WindowInvNext == WindowInv /\ [Next]_vars => WindowInv'
<1> SUFFICES ASSUME WindowInv, [Next]_vars,
                    NEW v \in Workers, strategy'[v] # "exponential"
             PROVE  offset'[v] < SlotWidth * (Cardinality(Peers(v)) + 1)
  BY TimingInvNext DEF WindowInv, OffsetsInWindow, Peers
<1> DEFINE Window(u) == SlotWidth * (Cardinality(Peers(u)) + 1)
<1>a. strategy' = strategy
  BY StrategyFixed
<1>0. /\ TypeOK
      /\ strategy[v] # "exponential"
      /\ offset[v] \in Nat /\ offset[v] < Window(v)
      /\ Cardinality(Peers(v)) \in Nat
  BY <1>a, ActiveWorkersBound
     DEF WindowInv, OffsetsInWindow, TimingInv, SlotInv, TypeInv, TypeOK
<1>1. 0 < Window(v)
  BY <1>0, SlotsFitWindow, ConfigAssumption
<1>2. ASSUME NEW w \in Workers, Claim(w)
      PROVE  offset'[v] < Window(v)
  <2>1. /\ SlotFor(w) \in Nat
        /\ SlotFor(w) <= Cardinality(Peers(w))
        /\ Cardinality(Peers(w)) \in Nat
    BY LowestUnusedIsFree, ActiveWorkersBound
       DEF SlotFor, WindowInv, TimingInv, SlotInv, TypeInv, TypeOK, Unclaimed
  <2>2. SlotFor(w) * SlotWidth < Window(w)
    BY <2>1, SlotsFitWindow
  <2> QED  BY <1>0, <1>2, <2>2 DEF Claim, TypeOK
<1>3. ASSUME NEW w \in Workers, DrawOffset(w)
      PROVE  offset'[v] < Window(v)
  <2>0. CASE w # v
    BY <1>0, <1>3, <2>0 DEF DrawOffset, TypeOK
  <2> SUFFICES ASSUME w = v PROVE offset'[v] < Window(v)
    BY <2>0
  <2>1. strategy[w] = "uniform"
    BY <1>0, <1>3, ConfigAssumption
       DEF DrawOffset, WindowInv, TimingInv, WorkerTiming, TypeOK
  <2> DEFINE n == Cardinality(ActiveWorkers(w))
  <2>2. n \in Nat /\ n <= Cardinality(Peers(w)) + 1 /\ Cardinality(Peers(w)) \in Nat
    BY ActiveWorkersBound
  <2>3. PICK o \in DrawnOffsets(w, n) : offset' = [offset EXCEPT ![w] = o]
    BY <1>3 DEF DrawOffset
  <2>4. o \in Nat /\ o < SlotWidth * n
    BY <2>1, <2>2, <2>3, DrawnOffsetsType
  <2>5. SlotWidth * n <= Window(w)
    BY <2>2, WindowMonotone
  <2>6. SlotWidth * n \in Nat /\ Window(w) \in Nat
    BY <2>2, ProductType, ConfigAssumption
  <2>7. o < Window(w)
    BY <2>4, <2>5, <2>6
  <2> HIDE DEF n, Window
  <2> QED  BY <1>0, <2>3, <2>7 DEF TypeOK
<1>4. ASSUME NEW w \in Workers,
             offset' = offset \/ offset' = [offset EXCEPT ![w] = 0]
      PROVE  offset'[v] < Window(v)
  BY <1>0, <1>1, <1>4 DEF TypeOK
<1>5. ASSUME NEW w \in Workers,
             \/ StartCall(w) \/ Respond(w) \/ Throttle(w) \/ Sleep(w)
             \/ SkipSleep(w) \/ Wake(w) \/ Finish(w)
      PROVE  offset'[v] < Window(v)
  BY <1>4, <1>5
     DEF StartCall, Respond, Throttle, ThrottleAboveCeiling, ThrottleExhausted,
         ThrottleRetry, Sleep, SkipSleep, Wake, Finish
<1>6. CASE UNCHANGED vars
  BY <1>0, <1>6 DEF vars
<1> QED  BY <1>2, <1>3, <1>5, <1>6 DEF Next, InCall

\* Offsets, drawn or computed, stay below one slot width per contending worker.
THEOREM OffsetsStayInWindow == Spec => []OffsetsInWindow
<1>1. Init => WindowInv
  <2> SUFFICES ASSUME Init, NEW w \in Workers
               PROVE  offset[w] < SlotWidth * (Cardinality(Peers(w)) + 1)
    BY TimingInvInit DEF WindowInv, OffsetsInWindow
  <2>1. Cardinality(Peers(w)) \in Nat
    BY ActiveWorkersBound
  <2>2. 0 < SlotWidth * (Cardinality(Peers(w)) + 1)
    BY <2>1, SlotsFitWindow, ConfigAssumption
  <2> QED  BY <2>2 DEF Init
<1>2. WindowInv => OffsetsInWindow
  BY DEF WindowInv
<1> QED  BY <1>1, <1>2, WindowInvNext, PTL DEF Spec

----------------------------------------------------------------------------
(* The backend keeps the promise of the protocol class.                      *)

\* Every step of a worker is a claim, a release or a stutter of the registry.
LEMMA SlotStep ==
  ASSUME SlotInv, SlotInv', [Next]_vars
  PROVE  [Registry!Next]_slot
<1> USE DEF Registry!Unclaimed, Unclaimed, Registry!Peers, Peers
<1>1. ASSUME NEW w \in Workers, Claim(w)
      PROVE  [Registry!Next]_slot
  <2>1. slot' = [slot EXCEPT ![w] = SlotFor(w)] /\ slot \in [Workers -> Nat \cup {-1}]
    BY <1>1 DEF Claim, SlotInv, TypeInv, TypeOK
  <2>2. CASE slot[w] # -1
    BY <2>1, <2>2 DEF SlotFor
  <2>3. CASE slot[w] = -1
    <3>1. /\ LowestUnused(w) \in Nat
          /\ \A v \in Peers(w) : slot[v] # LowestUnused(w)
      <4>1. LowestUnused(w) \in Nat /\ LowestUnused(w) \notin UsedSlots(w)
        BY LowestUnusedIsFree DEF SlotInv, TypeInv
      <4>2. ASSUME NEW v \in Peers(w), slot[v] # Unclaimed
            PROVE  slot[v] \in UsedSlots(w)
        BY <4>2 DEF UsedSlots
      <4> QED  BY <4>1, <4>2
    <3>2. slot'[w] = LowestUnused(w)
      BY <2>1, <2>3 DEF SlotFor
    <3>3. Registry!Claim(w)
      BY <2>1, <2>3, <3>1, <3>2 DEF Registry!Claim
    <3> QED  BY <3>3 DEF Registry!Next
  <2> QED  BY <2>2, <2>3
<1>2. ASSUME NEW w \in Workers, Finish(w)
      PROVE  [Registry!Next]_slot
  <2>1. slot' = slot \/ slot' = [slot EXCEPT ![w] = -1]
    BY <1>2 DEF Finish, Released, SlotInv, TypeInv, TypeOK
  <2>2. CASE slot[w] = -1
    BY <2>1, <2>2 DEF SlotInv, TypeInv, TypeOK
  <2>3. CASE slot[w] # -1
    BY <2>1, <2>3 DEF Registry!Next, Registry!Release
  <2> QED  BY <2>2, <2>3
<1>3. ASSUME NEW w \in Workers,
             \/ StartCall(w) \/ Respond(w) \/ Throttle(w) \/ DrawOffset(w)
             \/ Sleep(w) \/ SkipSleep(w) \/ Wake(w)
      PROVE  slot' = slot
  BY <1>3
     DEF StartCall, Respond, Throttle, ThrottleAboveCeiling, ThrottleExhausted,
         ThrottleRetry, DrawOffset, Sleep, SkipSleep, Wake
<1>4. CASE UNCHANGED vars
  BY <1>4 DEF vars
<1> QED  BY <1>1, <1>2, <1>3, <1>4 DEF Next, InCall

\* The workers and the in-memory backend implement the slot registry.
THEOREM ImplementsRegistry == Spec => SlotProtocol
<1>1. Init => Registry!Init
  BY DEF Init, Registry!Init, Registry!Unclaimed, Unclaimed
<1>2. SlotInv /\ SlotInv' /\ [Next]_vars => [Registry!Next]_slot
  BY SlotStep
<1> QED
  BY <1>1, <1>2, SlotInvCorrect, PTL DEF Spec, SlotProtocol, Registry!Spec

----------------------------------------------------------------------------
(* A call runs down: a place of the retry loop is never entered again        *)
(* before an attempt was counted, and the attempts are limited.              *)
Rank(place) ==
  CASE place = "sending" -> 6 [] place = "throttled" -> 5 [] place = "drawing" -> 4
    [] place = "granted" -> 3 [] place = "sleeping" -> 2 [] place = "exiting" -> 1
    [] OTHER -> 0

Looping == Retrying \cup {"sending"}

MovesLeft(w) ==
  IF pc[w] \in Looping THEN 6 * (MaxAttempts[w] - attempt[w]) + Rank(pc[w])
  ELSE Rank(pc[w])

\* A call that is in the loop has made an attempt.
CountInv == TypeInv /\ \A w \in Workers : pc[w] \in Looping => attempt[w] >= 1

LEMMA CountInvNext == CountInv /\ [Next]_vars => CountInv'
<1> SUFFICES ASSUME CountInv, [Next]_vars PROVE CountInv'
  OBVIOUS
<1> USE DEF Looping, Retrying
<1>1. TypeInv /\ TypeInv' /\ pc \in [Workers -> Places] /\ attempt \in [Workers -> Nat]
  BY TypeInvNext, ConfigAssumption DEF CountInv, TypeInv, TypeOK
<1>2. ASSUME NEW w \in Workers, StartCall(w) \/ InCall(w), NEW v \in Workers, pc'[v] \in Looping
      PROVE  attempt'[v] >= 1
  <2>1. attempt[v] \in Nat /\ (pc[v] \in Looping => attempt[v] >= 1)
    BY <1>1 DEF CountInv
  <2>2. CASE StartCall(w)
    BY <1>1, <1>2, <2>1, <2>2 DEF StartCall
  <2>3. CASE Respond(w) \/ Throttle(w)
    BY <1>1, <1>2, <2>1, <2>3
       DEF Respond, Throttle, ThrottleAboveCeiling, ThrottleExhausted, ThrottleRetry, Exit
  <2>4. CASE Claim(w) \/ DrawOffset(w) \/ Sleep(w)
    BY <1>1, <1>2, <2>1, <2>4 DEF Claim, DrawOffset, Sleep
  <2>5. CASE SkipSleep(w) \/ Wake(w)
    BY <1>1, <1>2, <2>1, <2>5 DEF SkipSleep, Wake, EndIteration
  <2>6. CASE Finish(w)
    BY <1>1, <1>2, <2>1, <2>6 DEF Finish
  <2> QED  BY <1>2, <2>2, <2>3, <2>4, <2>5, <2>6 DEF InCall
<1>3. CASE UNCHANGED vars
  BY <1>1, <1>3 DEF vars, CountInv
<1>4. CASE Next
  BY <1>1, <1>2, <1>4 DEF Next, CountInv
<1> QED  BY <1>3, <1>4

LEMMA CountInvCorrect == Spec => []CountInv
<1>1. Init => CountInv
  BY TypeInvInit DEF Init, CountInv, Looping, Retrying
<1> QED  BY <1>1, CountInvNext, PTL DEF Spec

LEMMA SixMore ==
  ASSUME NEW m \in Nat, NEW a \in 1..m
  PROVE  /\ 6 * (m - a) \in Nat
         /\ 6 * (m - a) + 6 <= 6 * m
         /\ a < m => 6 * (m - (a + 1)) + 6 = 6 * (m - a)
OBVIOUS

LEMMA MovesLeftBound ==
  ASSUME CountInv, NEW w \in Workers PROVE MovesLeft(w) \in 0 .. 6 * MaxAttempts[w]
<1>1. pc[w] \in Places /\ MaxAttempts[w] \in Nat \ {0}
  BY ConfigAssumption DEF CountInv, TypeInv, TypeOK
<1>2. CASE pc[w] \in Looping
  <2>1. attempt[w] \in 1..MaxAttempts[w]
    BY <1>1, <1>2 DEF CountInv, TypeInv, TypeOK
  <2>2. Rank(pc[w]) \in 1..6
    BY <1>2 DEF Looping, Retrying, Rank
  <2>3. MovesLeft(w) = 6 * (MaxAttempts[w] - attempt[w]) + Rank(pc[w])
    BY <1>2 DEF MovesLeft
  <2> QED  BY <1>1, <2>1, <2>2, <2>3, SixMore
<1>3. CASE pc[w] \notin Looping
  <2>1. Rank(pc[w]) \in 0..1 /\ MovesLeft(w) = Rank(pc[w])
    BY <1>1, <1>3 DEF Looping, Retrying, Rank, Places, MovesLeft
  <2> QED  BY <1>1, <2>1
<1> QED  BY <1>2, <1>3

\* A worker in a call has moved down or has not moved.
MovesDown(w) ==
  pc[w] # "idle" =>
    \/ UNCHANGED <<pc[w], attempt[w]>>
    \/ MovesLeft(w)' < MovesLeft(w)

MovesBounded == \A w \in Workers : MovesLeft(w) \in 0 .. 6 * MaxAttempts[w]
AllMoveDown  == \A w \in Workers : MovesDown(w)

LEMMA OwnMoveRunsDown ==
  ASSUME CountInv, NEW w \in Workers, InCall(w) PROVE MovesLeft(w)' < MovesLeft(w)
<1>1. /\ pc \in [Workers -> Places] /\ attempt \in [Workers -> Nat]
      /\ MaxAttempts[w] \in Nat \ {0} /\ attempt[w] <= MaxAttempts[w]
      /\ pc[w] \in Retrying => attempt[w] < MaxAttempts[w]
  BY ConfigAssumption DEF CountInv, TypeInv, TypeOK, RetryBudget
<1> DEFINE Rounds == 6 * (MaxAttempts[w] - attempt[w])
<1>2. ASSUME pc[w] \in Looping
      PROVE  /\ attempt[w] \in 1..MaxAttempts[w] /\ Rounds \in Nat
             /\ MovesLeft(w) = Rounds + Rank(pc[w])
  <2>1. attempt[w] \in 1..MaxAttempts[w]
    BY <1>1, <1>2 DEF CountInv
  <2>2. Rounds \in Nat
    BY <1>1, <2>1, SixMore
  <2> QED  BY <1>2, <2>1, <2>2 DEF MovesLeft
<1> HIDE DEF Rounds
<1> USE DEF Looping, Retrying
\* Further along the loop with the attempt not yet counted.
<1>3. ASSUME pc[w] \in Looping, pc'[w] \in Looping, attempt'[w] = attempt[w],
             Rank(pc'[w]) < Rank(pc[w]), Rank(pc[w]) \in Nat, Rank(pc'[w]) \in Nat
      PROVE  MovesLeft(w)' < MovesLeft(w)
  <2>1. MovesLeft(w)' = Rounds + Rank(pc'[w])
    BY <1>3 DEF MovesLeft, Rounds
  <2> QED  BY <1>2, <1>3, <2>1
\* Out of the loop.
<1>4. ASSUME pc[w] = "sending", pc'[w] = "exiting" PROVE MovesLeft(w)' < MovesLeft(w)
  <2>1. MovesLeft(w)' = 1 /\ Rank(pc[w]) = 6
    BY <1>4 DEF MovesLeft, Rank
  <2> QED  BY <1>2, <1>4, <2>1
\* Back to its head with the attempt counted.
<1>5. ASSUME pc[w] \in {"granted", "sleeping"}, pc'[w] = "sending", attempt'[w] = attempt[w] + 1
      PROVE  MovesLeft(w)' < MovesLeft(w)
  <2>1. MovesLeft(w)' = 6 * (MaxAttempts[w] - (attempt[w] + 1)) + 6
    BY <1>5 DEF MovesLeft, Rank
  <2>2. MovesLeft(w)' = Rounds
    BY <1>1, <1>2, <1>5, <2>1, SixMore DEF Rounds
  <2>3. Rank(pc[w]) \in 2..3
    BY <1>5 DEF Rank
  <2> QED  BY <1>2, <1>5, <2>2, <2>3
<1>6. CASE Respond(w)
  BY <1>1, <1>4, <1>6 DEF Respond, Exit
<1>7. CASE Throttle(w)
  <2>1. pc[w] = "sending" /\ (pc'[w] = "exiting" \/ (pc'[w] = "throttled" /\ attempt' = attempt))
    BY <1>1, <1>7 DEF Throttle, ThrottleAboveCeiling, ThrottleExhausted, ThrottleRetry, Exit
  <2> QED  BY <1>3, <1>4, <2>1 DEF Rank
<1>8. CASE Claim(w)
  <2>1. pc[w] = "throttled" /\ pc'[w] \in {"granted", "drawing"} /\ attempt' = attempt
    BY <1>1, <1>8 DEF Claim
  <2> QED  BY <1>3, <2>1 DEF Rank
<1>9. CASE DrawOffset(w)
  BY <1>1, <1>3, <1>9 DEF DrawOffset, Rank
<1>10. CASE Sleep(w)
  BY <1>1, <1>3, <1>10 DEF Sleep, Rank
<1>11. CASE SkipSleep(w)
  BY <1>1, <1>5, <1>11 DEF SkipSleep, EndIteration
<1>12. CASE Wake(w)
  BY <1>1, <1>5, <1>12 DEF Wake, EndIteration
<1>13. CASE Finish(w)
  BY <1>1, <1>13 DEF Finish, MovesLeft, Rank
<1> QED
  BY <1>6, <1>7, <1>8, <1>9, <1>10, <1>11, <1>12, <1>13 DEF InCall

\* Another worker's step leaves a call where it is.
LEMMA OthersDoNotMove ==
  ASSUME CountInv, NEW v \in Workers, StartCall(v) \/ InCall(v), NEW w \in Workers, w # v
  PROVE  UNCHANGED <<pc[w], attempt[w]>>
<1>1. pc \in [Workers -> Places] /\ attempt \in [Workers -> Nat]
  BY DEF CountInv, TypeInv, TypeOK
<1>2. CASE StartCall(v)
  BY <1>1, <1>2 DEF StartCall
<1>3. CASE Respond(v) \/ Throttle(v)
  BY <1>1, <1>3
     DEF Respond, Throttle, ThrottleAboveCeiling, ThrottleExhausted, ThrottleRetry, Exit
<1>4. CASE Claim(v) \/ DrawOffset(v) \/ Sleep(v)
  BY <1>1, <1>4 DEF Claim, DrawOffset, Sleep
<1>5. CASE SkipSleep(v) \/ Wake(v)
  BY <1>1, <1>5 DEF SkipSleep, Wake, EndIteration
<1>6. CASE Finish(v)
  BY <1>1, <1>6 DEF Finish
<1> QED  BY <1>2, <1>3, <1>4, <1>5, <1>6 DEF InCall

\* A call takes at most six steps for each attempt it may make, whatever the
\* provider answers, however often a wait of zero is not slept, and whatever the
\* other workers do: each of its steps brings the end of the call nearer.
THEOREM CallsRunDown ==
  Spec => []MovesBounded /\ [][AllMoveDown]_vars
<1>1. CountInv => MovesBounded
  BY MovesLeftBound DEF MovesBounded
<1>2. CountInv /\ [Next]_vars => [AllMoveDown]_vars
  <2>1. ASSUME CountInv, NEW v \in Workers, StartCall(v) \/ InCall(v), NEW w \in Workers
        PROVE  MovesDown(w)
    <3>1. CASE w # v
      BY <2>1, <3>1, OthersDoNotMove DEF MovesDown
    <3>2. CASE w = v /\ InCall(v)
      BY <2>1, <3>2, OwnMoveRunsDown DEF MovesDown
    <3>3. CASE w = v /\ StartCall(v)
      BY <3>3 DEF StartCall, MovesDown
    <3> QED  BY <2>1, <3>1, <3>2, <3>3
  <2> QED  BY <2>1 DEF Next, AllMoveDown
<1> QED  BY <1>1, <1>2, CountInvCorrect, PTL DEF Spec
=============================================================================
