------------------------ MODULE CalibrationSweep_proofs -----------------------
(***************************************************************************)
(* Proofs about the sweep's calibration: the cell of one probe (ProbeCell),*)
(* for any schedule, caps and concurrency; the search that awaits probes   *)
(* (CalibrationSearch), for any grids, depth and budget, whatever they     *)
(* report; and the adaptive stage behind it (AdaptiveSearch).              *)
(***************************************************************************)
EXTENDS AdaptiveSearch, ProbeCell, TLAPS, FiniteSetTheorems, WellFoundedInduction

\* The spend and call caps leave some number of the scheduled calls.
LEMMA RampCallsType == RampCalls \in 0..Ramp
<1> DEFINE Fits(n) == /\ n <= CallCap /\ (n = 0 \/ Prewarm + n <= Cap)
                      /\ n = Ramp \/ n = CallCap \/ Prewarm + n + 1 > Cap
<1>1. \E n \in 0..Ramp : Fits(n)
  <2> DEFINE least == IF Ramp <= CallCap THEN Ramp ELSE CallCap
             n == IF Prewarm + least <= Cap THEN least
                  ELSE IF Prewarm <= Cap THEN Cap - Prewarm ELSE 0
  <2>1. n \in 0..Ramp /\ Fits(n)
    BY ProbeAssumption
  <2> QED  BY <2>1
<1> QED  BY <1>1 DEF RampCalls

----------------------------------------------------------------------------
TaskStates == {"absent", "pacing", "queued", "calling", "done", "skipped"}
Hits429(s) == \E t \in s : task[t] = "done" /\ reply[t] = "429"

CellType ==
  /\ cellStop \in BOOLEAN /\ saw429 \in BOOLEAN
  /\ cellPhase \in {"prewarm", "ramp", "closed"}
  /\ task \in [Calls -> TaskStates]
  /\ reply \in [Calls -> {"none", "ok", "429", "error"}]

\* The ramp calls that were created when the warm-up had ended.
Opened == IF cellStop \/ (EarlyStop /\ Hits429(Prewarms)) THEN 0 ELSE RampCalls

\* The early-stop signal is the answers', the ramp exists from the end of the
\* warm-up on, as far as it was paid for, and the report ends the probe.
Stages ==
  /\ saw429 <=> EarlyStop /\ Hits429(Calls)
  /\ cellPhase = "prewarm" =>
       /\ committed = Prewarm
       /\ \A t \in Ramps : task[t] = "absent"
  /\ cellPhase # "prewarm" =>
       /\ committed = Prewarm + Opened
       /\ \A t \in Prewarms : task[t] = "done"
       /\ \A t \in Ramps : task[t] = "absent" <=> t > Prewarm + Opened
  /\ cellPhase # "closed" => report = NoReport
  /\ cellPhase = "closed" => report \in Reports(cellStop, EarlyStop)

\* Timers fire in order, so that a call that still sleeps has only sleepers
\* behind it; one is skipped for a 429 of the ramp, hence never the first.
InTurn ==
  /\ \A s, t \in Ramps : s < t /\ task[s] = "pacing" => task[t] \in {"pacing", "absent"}
  /\ \A s \in Ramps : task[s] = "skipped" => saw429 /\ s # Prewarm + 1
  /\ MeasuredPrefix

CellInv == CellType /\ Stages /\ InTurn

LEMMA CallsFacts ==
  /\ Calls = 1..(Prewarm + Ramp)
  /\ Prewarms \subseteq Calls /\ Ramps \subseteq Calls
  /\ \A t \in Prewarms : t \in Nat /\ t \notin Ramps
  /\ \A t \in Ramps : t \in Nat /\ t > Prewarm /\ t <= Prewarm + Ramp
  /\ \A t \in Calls : t \in Prewarms \/ t \in Ramps
  /\ Prewarm + 1 \in Ramps
BY ProbeAssumption DEF Calls, Prewarms, Ramps

LEMMA CellInit == PInit => CellInv
<1> SUFFICES ASSUME PInit PROVE CellInv
  OBVIOUS
<1> USE DEF PInit
<1>1. CellType
  BY DEF CellType, TaskStates
<1>2. /\ \A t \in Ramps : task[t] = "absent"
      /\ \A t \in Calls : task[t] # "done"
  BY CallsFacts
<1>3. Stages
  BY <1>2 DEF Stages, Hits429
<1>4. InTurn
  BY <1>2 DEF InTurn, MeasuredPrefix
<1> QED  BY <1>1, <1>3, <1>4 DEF CellInv

\* A call that moves on without an answer: no 429 comes or goes.
LEMMA MoveKeeps ==
  ASSUME CellInv, NEW t \in Calls, NEW s \in TaskStates \ {"absent", "pacing", "done"},
         task[t] \in {"pacing", "queued"},
         task' = [task EXCEPT ![t] = s],
         t \in Ramps /\ task[t] = "queued" => s # "skipped",
         task[t] = "pacing" => Due(t),
         s = "skipped" => t \in Ramps /\ EarlyStop /\ saw429,
         t \in Ramps /\ s # "skipped" /\ task[t] = "pacing" => ~Skips(t),
         UNCHANGED <<cellStop, cellPhase, reply, saw429, committed, halt, report>>
  PROVE  CellInv'
<1> USE CallsFacts
<1>1. CellType'
  BY DEF CellInv, CellType, TaskStates
<1>2. /\ \A u \in Calls : u # t => task'[u] = task[u]
      /\ task'[t] = s
      /\ task \in [Calls -> TaskStates]
  BY DEF CellInv, CellType
<1>3. \A u \in Calls : task'[u] = "done" <=> task[u] = "done"
  BY <1>2
<1>4. \A S \in SUBSET Calls : Hits429(S)' <=> Hits429(S)
  BY <1>3 DEF Hits429
<1>5. Opened' = Opened
  BY <1>4 DEF Opened
<1>6. Stages'
  <2>1. \A u \in Calls : task'[u] = "absent" <=> task[u] = "absent"
    BY <1>2
  <2>2. cellPhase # "prewarm" => t \notin Prewarms
    BY DEF CellInv, Stages
  <2>3. (saw429 <=> EarlyStop /\ Hits429(Calls))'
    BY <1>4 DEF CellInv, Stages
  <2>4. (cellPhase # "prewarm" => \A u \in Prewarms : task[u] = "done")'
    BY <1>2, <2>2 DEF CellInv, Stages
  <2>5. /\ cellPhase = "prewarm" =>
             /\ committed = Prewarm
             /\ \A u \in Ramps : task[u] = "absent"
        /\ cellPhase # "prewarm" =>
             /\ committed = Prewarm + Opened
             /\ \A u \in Ramps : task[u] = "absent" <=> u > Prewarm + Opened
        /\ cellPhase # "closed" => report = NoReport
        /\ cellPhase = "closed" => report \in Reports(cellStop, EarlyStop)
    BY DEF CellInv, Stages
  <2> HIDE DEF Opened, Hits429
  <2> QED  BY <1>5, <2>1, <2>3, <2>4, <2>5 DEF Stages
<1>7. (\A u, v \in Ramps :
          u < v /\ task[u] = "pacing" => task[v] \in {"pacing", "absent"})'
  <2> SUFFICES ASSUME NEW u \in Ramps, NEW v \in Ramps, u < v, task'[u] = "pacing"
               PROVE  task'[v] \in {"pacing", "absent"}
    OBVIOUS
  <2>1. u # t /\ task[u] = "pacing"
    BY <1>2
  <2>2. task[v] \in {"pacing", "absent"}
    BY <2>1 DEF CellInv, InTurn
  <2>3. v # t
    BY <2>1, <2>2 DEF Due, InState
  <2> QED  BY <1>2, <2>2, <2>3
<1>8. (\A u \in Ramps : task[u] = "skipped" => saw429 /\ u # Prewarm + 1)'
  <2> SUFFICES ASSUME NEW u \in Ramps, task'[u] = "skipped"
               PROVE  saw429 /\ u # Prewarm + 1
    OBVIOUS
  <2>1. CASE u # t
    BY <1>2, <2>1 DEF CellInv, InTurn
  <2>2. CASE u = t /\ u = Prewarm + 1
    <3>1. saw429 /\ EarlyStop /\ task[u] = "pacing"
      BY <1>2, <2>2
    <3>2. PICK v \in Calls : task[v] = "done" /\ reply[v] = "429"
      BY <3>1 DEF CellInv, Stages, Hits429
    <3>3. CASE v \in Prewarms
      <4>1. Opened = 0
        BY <3>1, <3>2, <3>3 DEF Opened, Hits429
      <4>2. cellPhase # "prewarm"
        BY <3>1 DEF CellInv, Stages
      <4>3. u > Prewarm + Opened
        BY <2>2, <4>1, ProbeAssumption
      <4> QED  BY <3>1, <4>2, <4>3 DEF CellInv, Stages
    <3>4. CASE v \in Ramps
      <4>1. v # u /\ u <= v
        BY <2>2, <3>1, <3>2, <3>4, ProbeAssumption
      <4> QED  BY <3>1, <3>2, <3>4, <4>1, ProbeAssumption DEF CellInv, InTurn, Ramps
    <3> QED  BY <3>3, <3>4
  <2>3. CASE u = t /\ u # Prewarm + 1
    BY <1>2, <2>3
  <2> QED  BY <2>1, <2>2, <2>3
<1>9. MeasuredPrefix'
  <2> SUFFICES ASSUME NEW u \in Ramps, NEW v \in Ramps, u < v, task'[u] = "skipped"
               PROVE  task'[v] \in {"absent", "pacing", "skipped"}
    BY DEF MeasuredPrefix
  <2>1. CASE u = t
    <3>1. task[u] = "pacing"
      BY <1>2, <2>1
    <3>2. task[v] \in {"pacing", "absent"}
      BY <3>1 DEF CellInv, InTurn
    <3> QED  BY <1>2, <2>1, <3>2, ProbeAssumption DEF Ramps
  <2>2. CASE u # t
    <3>1. task[u] = "skipped"
      BY <1>2, <2>2
    <3>2. task[v] \in {"absent", "pacing", "skipped"} /\ saw429
      BY <3>1 DEF CellInv, InTurn, MeasuredPrefix
    <3>3. EarlyStop
      BY <3>2 DEF CellInv, Stages
    <3>4. v = t => s = "skipped"
      BY <3>2, <3>3 DEF Skips
    <3> QED  BY <1>2, <3>2, <3>4
  <2> QED  BY <2>1, <2>2
<1> QED  BY <1>1, <1>6, <1>7, <1>8, <1>9 DEF CellInv, InTurn

LEMMA WakeKeeps == ASSUME CellInv, NEW t \in Calls, Wake(t) PROVE CellInv'
<1>1. /\ Due(t) /\ task[t] = "pacing"
      /\ UNCHANGED <<cellStop, cellPhase, reply, saw429, committed, halt, report>>
  BY DEF Wake, Due
<1>2. CASE Skips(t)
  <2>1. task' = [task EXCEPT ![t] = "skipped"]
    BY <1>2 DEF Wake
  <2> QED  BY <1>1, <1>2, <2>1, MoveKeeps DEF Skips, TaskStates
<1>3. CASE ~Skips(t)
  <2>1. \E s \in {"calling", "queued"} : task' = [task EXCEPT ![t] = s]
    BY <1>3 DEF Wake
  <2> QED  BY <1>1, <1>3, <2>1, MoveKeeps DEF TaskStates
<1> QED  BY <1>2, <1>3

LEMMA AdmitKeeps == ASSUME CellInv, NEW t \in Calls, Grant(t) PROVE CellInv'
BY MoveKeeps DEF Grant, TaskStates

LEMMA AnswerKeeps ==
  ASSUME CellInv, NEW t \in Calls, Answer(t)
  PROVE  CellInv'
<1> USE CallsFacts
<1>1. PICK r \in {"ok", "429", "error"} :
        /\ reply' = [reply EXCEPT ![t] = r]
        /\ saw429' = (saw429 \/ (EarlyStop /\ r = "429"))
  BY DEF Answer
<1>2. /\ task[t] = "calling" /\ task' = [task EXCEPT ![t] = "done"]
      /\ UNCHANGED <<cellStop, cellPhase, committed, halt, report>>
  BY DEF Answer
<1>3. /\ CellType /\ task \in [Calls -> TaskStates]
      /\ reply \in [Calls -> {"none", "ok", "429", "error"}]
  BY DEF CellInv, CellType
<1>4. CellType'
  BY <1>1, <1>2, <1>3, CellAssumption DEF CellType, TaskStates
<1>5. /\ \A u \in Calls : u # t => task'[u] = task[u] /\ reply'[u] = reply[u]
      /\ task'[t] = "done" /\ reply'[t] = r
  BY <1>1, <1>2, <1>3
<1>6. /\ Hits429(Calls)' <=> Hits429(Calls) \/ r = "429"
      /\ t \notin Prewarms => (Hits429(Prewarms)' <=> Hits429(Prewarms))
  BY <1>2, <1>5 DEF Hits429
<1>7. cellPhase # "prewarm" => t \notin Prewarms
  BY <1>2 DEF CellInv, Stages
<1>8. cellPhase # "prewarm" => Opened' = Opened
  BY <1>2, <1>6, <1>7 DEF Opened
<1>9. Stages'
  <2>1. \A u \in Calls : task'[u] = "absent" <=> task[u] = "absent"
    BY <1>2, <1>5
  <2>2. (saw429 <=> EarlyStop /\ Hits429(Calls))'
    BY <1>1, <1>6 DEF CellInv, Stages
  <2>3. /\ cellPhase = "prewarm" =>
             /\ committed = Prewarm
             /\ \A u \in Ramps : task[u] = "absent"
        /\ cellPhase # "prewarm" =>
             /\ committed = Prewarm + Opened
             /\ \A u \in Ramps : task[u] = "absent" <=> u > Prewarm + Opened
             /\ \A u \in Prewarms : task[u] = "done"
        /\ cellPhase # "closed" => report = NoReport
        /\ cellPhase = "closed" => report \in Reports(cellStop, EarlyStop)
    BY DEF CellInv, Stages
  <2> HIDE DEF Opened, Hits429
  <2>4. (cellPhase = "prewarm" =>
           committed = Prewarm /\ \A u \in Ramps : task[u] = "absent")'
    BY <1>2, <2>1, <2>3
  <2>5. (cellPhase # "prewarm" =>
           /\ committed = Prewarm + Opened
           /\ \A u \in Ramps : task[u] = "absent" <=> u > Prewarm + Opened)'
    BY <1>2, <1>8, <2>1, <2>3
  <2>6. (cellPhase # "prewarm" => \A u \in Prewarms : task[u] = "done")'
    BY <1>2, <1>5, <2>3
  <2>7. /\ (cellPhase # "closed" => report = NoReport)'
        /\ (cellPhase = "closed" => report \in Reports(cellStop, EarlyStop))'
    BY <1>2, <2>3
  <2> QED  BY <2>2, <2>4, <2>5, <2>6, <2>7 DEF Stages
<1>10. InTurn'
  <2>1. \A s, u \in Ramps : s < u /\ task[s] = "skipped" => u # t
    BY <1>2 DEF CellInv, InTurn, MeasuredPrefix
  <2>2. \A s, u \in Ramps : s < u /\ task[s] = "pacing" => u # t
    BY <1>2 DEF CellInv, InTurn
  <2>3. saw429 => saw429'
    BY <1>1
  <2>4. \A u \in Ramps : task'[u] \in {"pacing", "skipped"} => u # t
    BY <1>5
  <2> QED  BY <1>5, <2>1, <2>2, <2>3, <2>4 DEF CellInv, InTurn, MeasuredPrefix
<1> QED  BY <1>4, <1>9, <1>10 DEF CellInv

LEMMA OpenRampKeeps == ASSUME CellInv, OpenRamp PROVE CellInv'
<1> USE CallsFacts
<1>1. /\ cellPhase = "prewarm" /\ cellPhase' = "ramp"
      /\ \A t \in Prewarms : task[t] = "done"
      /\ task' = [t \in Calls |-> IF t \in Ramps /\ t <= Prewarm + Created
                                  THEN "pacing" ELSE task[t]]
      /\ committed' = committed + Created
      /\ UNCHANGED <<cellStop, reply, saw429, report>>
  BY DEF OpenRamp, InState
<1>2. \A t \in Ramps : task[t] = "absent"
  BY <1>1 DEF CellInv, Stages
<1>3. CellType'
  BY <1>1 DEF CellInv, CellType, TaskStates
<1>4. \A t \in Calls : task'[t] = "done" <=> task[t] = "done"
  BY <1>1, <1>2
<1>5. /\ Hits429(Calls)' <=> Hits429(Calls)
      /\ Hits429(Prewarms)' <=> Hits429(Prewarms)
      /\ Hits429(Calls) <=> Hits429(Prewarms)
  BY <1>1, <1>2, <1>4 DEF Hits429
<1>6. Opened' = Created
  BY <1>1, <1>5 DEF Opened, Created, CellInv, Stages
<1>7. Created \in Nat
  BY RampCallsType, ProbeAssumption DEF Created
<1>8. Stages'
  <2>1. (saw429 <=> EarlyStop /\ Hits429(Calls))'
    BY <1>1, <1>5 DEF CellInv, Stages
  <2>2. committed = Prewarm /\ report = NoReport
    BY <1>1 DEF CellInv, Stages
  <2>3. \A t \in Prewarms : task'[t] = "done"
    BY <1>1
  <2>4. \A t \in Ramps : task'[t] = "absent" <=> t > Prewarm + Created
    BY <1>1, <1>2, <1>7, ProbeAssumption
  <2> QED  BY <1>1, <1>6, <2>1, <2>2, <2>3, <2>4 DEF Stages
<1>9. InTurn'
  <2>1. \A t \in Ramps : task'[t] \in {"pacing", "absent"}
    BY <1>1, <1>2
  <2> QED  BY <2>1 DEF InTurn, MeasuredPrefix
<1> QED  BY <1>3, <1>8, <1>9 DEF CellInv

\* What has been sent when the ramp ends: all of it, or up to a 429 of its own.
LEMMA SentRamp ==
  ASSUME CellInv, Close
  PROVE  /\ Opened \in Nat /\ Opened <= Ramp
         /\ Cardinality(Sent(Ramps)) \in 0..Opened
         /\ Cardinality(Sent(Ramps)) = 0 <=> Opened = 0
         /\ Cardinality(Sent(Ramps)) < Opened => EarlyStop /\ Hits429(Ramps)
<1> USE CallsFacts
<1>1. Opened \in Nat /\ Opened <= Ramp
  BY RampCallsType, ProbeAssumption DEF Opened
<1> DEFINE Made == (Prewarm + 1)..(Prewarm + Opened)
<1>2. \A t \in Ramps : t \in Made => task[t] \in {"done", "skipped"}
  BY <1>1, ProbeAssumption DEF Close, CellInv, CellType, Stages, InState, TaskStates
<1>3. \A t \in Ramps : t \notin Made => task[t] = "absent"
  BY <1>1, ProbeAssumption DEF Close, CellInv, Stages
<1>4. Made \subseteq Ramps
  BY <1>1, ProbeAssumption DEF Ramps
<1>5. Sent(Ramps) \subseteq Made
  BY <1>3 DEF Sent
<1>6. IsFiniteSet(Made) /\ Cardinality(Made) = Opened
  <2>1. Prewarm + 1 \in Int /\ Prewarm + Opened \in Int
    BY <1>1, ProbeAssumption
  <2>2. Cardinality(Made) = IF Prewarm + 1 > Prewarm + Opened THEN 0
                            ELSE (Prewarm + Opened) - (Prewarm + 1) + 1
    BY <2>1, FS_Interval
  <2> QED  BY <1>1, <2>1, <2>2, FS_Interval, ProbeAssumption
<1>7. Cardinality(Sent(Ramps)) \in 0..Opened
  <2>1. IsFiniteSet(Sent(Ramps)) /\ Cardinality(Sent(Ramps)) <= Opened
    <3> HIDE DEF Made
    <3> QED  BY <1>5, <1>6, FS_Subset
  <2>2. Cardinality(Sent(Ramps)) \in Nat
    BY <2>1, FS_CardinalityType
  <2> QED  BY <1>1, <2>1, <2>2
<1>8. Opened # 0 => Cardinality(Sent(Ramps)) # 0
  <2> SUFFICES ASSUME Opened # 0 PROVE Cardinality(Sent(Ramps)) # 0
    OBVIOUS
  <2>1. Prewarm + 1 \in Made
    BY <1>1, ProbeAssumption
  <2>2. task[Prewarm + 1] = "done"
    BY <1>2, <2>1 DEF CellInv, InTurn
  <2>3. Sent(Ramps) # {}
    BY <2>2 DEF Sent
  <2> QED  BY <1>5, <1>6, <2>3, FS_Subset, FS_EmptySet
<1>9. Cardinality(Sent(Ramps)) < Opened => EarlyStop /\ Hits429(Ramps)
  <2> SUFFICES ASSUME Cardinality(Sent(Ramps)) < Opened
               PROVE  EarlyStop /\ Hits429(Ramps)
    OBVIOUS
  <2>1. Sent(Ramps) # Made
    BY <1>1, <1>6
  <2>2. PICK t \in Made : task[t] # "done"
    BY <1>4, <1>5, <2>1 DEF Sent
  <2>3. task[t] = "skipped"
    BY <1>2, <1>4, <2>2
  <2>4. EarlyStop /\ Hits429(Calls)
    BY <1>4, <2>3 DEF CellInv, InTurn, Stages
  <2>5. Opened # 0
    BY <1>1, <2>2, ProbeAssumption
  <2>6. ~Hits429(Prewarms)
    BY <2>4, <2>5 DEF Opened
  <2> QED  BY <2>4, <2>6 DEF Hits429
<1> QED  BY <1>1, <1>7, <1>8, <1>9

LEMMA CloseReports ==
  ASSUME CellInv, Close
  PROVE  /\ report = NoReport /\ report' \in Reports(cellStop, EarlyStop)
         /\ UNCHANGED cellStop
<1> DEFINE n == Cardinality(Sent(Ramps))
<1>1. /\ cellPhase = "ramp" /\ UNCHANGED cellStop
      /\ report' = [pre429  |-> Refusals(Prewarms) # {},
                    ramp429 |-> Refusals(Ramps) # {},
                    ramp    |-> Extent(n), cost |-> committed]
  BY DEF Close
<1>2. report = NoReport /\ committed = Prewarm + Opened
  BY <1>1 DEF CellInv, Stages
<1>3. /\ Refusals(Prewarms) # {} <=> Hits429(Prewarms)
      /\ Refusals(Ramps) # {} <=> Hits429(Ramps)
  BY DEF Refusals, Sent, Hits429
<1>4. /\ Opened \in Nat /\ Opened <= Ramp /\ n \in 0..Opened
      /\ n = 0 <=> Opened = 0
      /\ n < Opened => EarlyStop /\ Hits429(Ramps)
  BY SentRamp
<1>5. Hits429(Ramps) => Opened # 0
  BY <1>1, ProbeAssumption, CallsFacts DEF Hits429, CellInv, Stages
<1> HIDE DEF n
<1>6. /\ Opened = 0 <=> cellStop \/ (EarlyStop /\ Hits429(Prewarms)) \/ RampCalls = 0
      /\ Opened # 0 => Opened = RampCalls
  BY DEF Opened
<1>7. /\ Extent(n) \in {"empty", "thin", "enough"}
      /\ Extent(n) = "empty" <=> n = 0
      /\ Extent(n) = "thin" => n < Required
      /\ Extent(n) = "enough" => n >= Required /\ n # 0
  BY <1>4, ProbeAssumption DEF Extent
<1> DEFINE rep == [pre429  |-> Refusals(Prewarms) # {},
                   ramp429 |-> Refusals(Ramps) # {},
                   ramp    |-> Extent(n), cost |-> Prewarm + Opened]
<1>8. /\ rep.pre429 \in BOOLEAN /\ rep.ramp429 \in BOOLEAN
      /\ rep \in [pre429 : BOOLEAN, ramp429 : BOOLEAN,
                  ramp : {"empty", "thin", "enough"}, cost : Prewarm..(Prewarm + Ramp)]
  BY <1>4, <1>7, ProbeAssumption
<1>9. /\ rep.ramp = Extent(n) /\ rep.cost = Prewarm + Opened
      /\ rep.pre429 <=> Hits429(Prewarms)
      /\ rep.ramp429 <=> Hits429(Ramps)
  BY <1>3
<1>10. report' = rep
  BY <1>1, <1>2
<1> HIDE DEF rep
<1>11. rep.ramp = "empty" <=> cellStop \/ (EarlyStop /\ rep.pre429) \/ RampCalls = 0
  BY <1>4, <1>6, <1>7, <1>9
<1>12. rep.cost = Prewarm + IF rep.ramp = "empty" THEN 0 ELSE RampCalls
  BY <1>4, <1>6, <1>7, <1>9
<1>13. /\ rep.ramp429 => rep.ramp # "empty"
       /\ rep.ramp = "thin" /\ Required <= RampCalls => EarlyStop /\ rep.ramp429
       /\ rep.ramp = "enough" => Required <= RampCalls
  BY <1>4, <1>5, <1>6, <1>7, <1>9, ProbeAssumption, RampCallsType
<1> QED  BY <1>1, <1>2, <1>8, <1>10, <1>11, <1>12, <1>13 DEF Reports

LEMMA CloseKeeps == ASSUME CellInv, Close PROVE CellInv'
<1>1. /\ cellPhase = "ramp" /\ cellPhase' = "closed"
      /\ UNCHANGED <<cellStop, task, reply, saw429, committed>>
      /\ report' \in Reports(cellStop, EarlyStop)
  BY CloseReports DEF Close
<1>2. CellType' /\ InTurn'
  BY <1>1 DEF CellInv, CellType, InTurn, MeasuredPrefix
<1>3. Opened' = Opened /\ (Hits429(Calls)' <=> Hits429(Calls))
  BY <1>1 DEF Opened, Hits429
<1>4. Stages'
  BY <1>1, <1>3 DEF CellInv, Stages
<1> QED  BY <1>2, <1>4 DEF CellInv

LEMMA CellNext ==
  CellInv /\ [PNext]_pvars => CellInv'
<1> SUFFICES ASSUME CellInv, [PNext]_pvars PROVE CellInv'
  OBVIOUS
<1>1. CASE UNCHANGED pvars
  BY <1>1 DEF pvars, CellInv, CellType, Stages, InTurn, MeasuredPrefix, Opened, Hits429
<1>2. CASE PNext
  BY <1>2, WakeKeeps, AdmitKeeps, AnswerKeeps, OpenRampKeeps, CloseKeeps DEF PNext
<1> QED  BY <1>1, <1>2

LEMMA CellHolds == PSpec => []CellInv
<1>1. CellInv /\ [PNext]_pvars => CellInv'
  BY CellNext
<1> QED  BY <1>1, CellInit, PTL DEF PSpec

(* Every reachable state of a cell is type correct; what it has reported is *)
(* a report its callers reckon with.                                        *)
THEOREM CellTypeCorrect == PSpec => []PTypeOK
<1>1. CellInv => PTypeOK
  <2> SUFFICES ASSUME CellInv PROVE PTypeOK
    OBVIOUS
  <2>1. Opened \in 0..Ramp
    BY RampCallsType, ProbeAssumption DEF Opened
  <2>2. committed = Prewarm \/ committed = Prewarm + Opened
    BY DEF CellInv, CellType, Stages
  <2>3. committed \in Prewarm..(Prewarm + Ramp)
    BY <2>1, <2>2, ProbeAssumption
  <2>4. report = NoReport \/ report \in Reports(cellStop, EarlyStop)
    BY DEF CellInv, Stages
  <2> QED  BY <2>3, <2>4 DEF PTypeOK, CellInv, CellType, TaskStates
<1> QED  BY <1>1, CellHolds, PTL

(* Whatever the order of answers, an early-stopped cell of any size has     *)
(* measured a prefix of its schedule.                                       *)
THEOREM RampIsMeasuredInOrder == PSpec => []MeasuredPrefix
<1>1. CellInv => MeasuredPrefix
  BY DEF CellInv, InTurn
<1> QED  BY <1>1, CellHolds, PTL

(* A cell begins as the contract says, and each of its steps is the report  *)
(* of the contract or unseen by its callers.                                *)
THEOREM ImplementsContract ==
  PSpec => Contract!Init /\ [][Contract!Finish]_<<cellStop, report>>
<1>1. PInit => Contract!Init
  BY DEF PInit, Contract!Init, NoReport, Contract!NoReport
<1>2. CellInv /\ [PNext]_pvars => [Contract!Finish]_<<cellStop, report>>
  <2> SUFFICES ASSUME CellInv, [PNext]_pvars
               PROVE  [Contract!Finish]_<<cellStop, report>>
    OBVIOUS
  <2>1. CASE Close
    <3>1. /\ report = NoReport /\ report' \in Reports(cellStop, EarlyStop)
          /\ UNCHANGED cellStop
      BY <2>1, CloseReports
    <3> QED  BY <3>1 DEF Contract!Finish, NoReport, Contract!NoReport, Reports,
               Contract!Reports, RampCalls, Contract!RampCalls
  <2>2. CASE ~Close
    BY <2>2 DEF PNext, pvars, Wake, Grant, Answer, OpenRamp
  <2> QED  BY <2>1, <2>2
<1> QED  BY <1>1, <1>2, CellHolds, PTL DEF PSpec

\* How far a call of the probe, and the probe itself, have come.
Stage(state) ==
  CASE state = "pacing" -> 1 [] state = "queued" -> 2 [] state = "calling" -> 3
    [] state \in {"done", "skipped"} -> 4 [] OTHER -> 0
Turn(ph) == CASE ph = "ramp" -> 1 [] ph = "closed" -> 2 [] OTHER -> 0

CellAdvances ==
  /\ \A t \in Calls : Stage(task[t]) <= Stage(task'[t])
  /\ \/ Turn(cellPhase) < Turn(cellPhase')
     \/ cellPhase' = cellPhase /\ \E t \in Calls : Stage(task[t]) < Stage(task'[t])

(* A probe only advances: no call of it goes back, none is sent twice, and  *)
(* every step takes a call or the probe itself further, so that a probe is  *)
(* over after at most four steps for each of its calls and two of its own.  *)
THEOREM ProbeOnlyAdvances ==
  PSpec => [][CellAdvances]_pvars
<1>1. CellInv /\ [PNext]_pvars => [CellAdvances]_pvars
  <2> SUFFICES ASSUME CellInv, PNext PROVE CellAdvances
    OBVIOUS
  <2>1. task \in [Calls -> TaskStates]
    BY DEF CellInv, CellType
  <2>2. ASSUME NEW t \in Calls, NEW s \in TaskStates,
               task' = [task EXCEPT ![t] = s], Stage(task[t]) < Stage(s), cellPhase' = cellPhase
        PROVE  CellAdvances
    <3>1. \A u \in Calls : task'[u] = IF u = t THEN s ELSE task[u]
      BY <2>1, <2>2
    <3>2. \A x : Stage(x) \in 0..4
      BY DEF Stage
    <3> QED  BY <2>2, <3>1, <3>2 DEF CellAdvances
  <2>3. ASSUME NEW t \in Calls, Wake(t) PROVE CellAdvances
    <3>1. PICK s \in {"skipped", "calling", "queued"} : task' = [task EXCEPT ![t] = s]
      BY <2>3 DEF Wake
    <3>2. task[t] = "pacing" /\ cellPhase' = cellPhase
      BY <2>3 DEF Wake, Due
    <3>3. s \in TaskStates /\ Stage(task[t]) < Stage(s)
      BY <3>1, <3>2 DEF Stage, TaskStates
    <3> QED  BY <2>2, <3>1, <3>2, <3>3
  <2>4. ASSUME NEW t \in Calls, Grant(t) PROVE CellAdvances
    <3>1. /\ task' = [task EXCEPT ![t] = "calling"] /\ cellPhase' = cellPhase
          /\ task[t] = "queued"
      BY <2>4 DEF Grant
    <3>2. "calling" \in TaskStates /\ Stage(task[t]) < Stage("calling")
      BY <3>1 DEF Stage, TaskStates
    <3> QED  BY <2>2, <3>1, <3>2
  <2>5. ASSUME NEW t \in Calls, Answer(t) PROVE CellAdvances
    <3>1. /\ task' = [task EXCEPT ![t] = "done"] /\ cellPhase' = cellPhase
          /\ task[t] = "calling"
      BY <2>5 DEF Answer
    <3>2. "done" \in TaskStates /\ Stage(task[t]) < Stage("done")
      BY <3>1 DEF Stage, TaskStates
    <3> QED  BY <2>2, <3>1, <3>2
  <2>6. CASE OpenRamp
    <3>1. cellPhase = "prewarm" /\ cellPhase' = "ramp"
      BY <2>6 DEF OpenRamp
    <3>2. ASSUME NEW t \in Calls PROVE Stage(task[t]) <= Stage(task'[t])
      <4>1. CASE t \in Ramps
        <5>1. task[t] = "absent" /\ task'[t] \in {"pacing", "absent"}
          BY <2>6, <3>1, <3>2, <4>1 DEF OpenRamp, CellInv, Stages
        <5> QED  BY <5>1 DEF Stage
      <4>2. CASE t \notin Ramps
        <5>1. task'[t] = task[t]
          BY <2>6, <3>2, <4>2 DEF OpenRamp
        <5> QED  BY <5>1 DEF Stage
      <4> QED  BY <4>1, <4>2
    <3> QED  BY <3>1, <3>2 DEF CellAdvances, Turn
  <2>7. CASE Close
    <3>1. cellPhase = "ramp" /\ cellPhase' = "closed" /\ task' = task
      BY <2>7 DEF Close
    <3>2. \A x : Stage(x) <= Stage(x)
      BY DEF Stage
    <3> QED  BY <3>1, <3>2 DEF CellAdvances, Turn
  <2> QED  BY <2>3, <2>4, <2>5, <2>6, <2>7 DEF PNext
<1> QED  BY <1>1, CellHolds, PTL DEF PSpec

----------------------------------------------------------------------------
\* What the decisions of the search use of a probe.
LEMMA ProbeFacts ==
  ASSUME stop \in BOOLEAN, NEW r \in Roles, NEW a \in Aggregates[stop][Early(r)]
  PROVE  /\ a.report.cost \in Nat
         /\ a.report.cost <= Prewarm + RampCalls
         /\ stop => a.report.cost = Prewarm
         /\ a.paced => a.report.ramp = "enough"
         /\ Hit(a) \in BOOLEAN
<1>1. Early(r) \in BOOLEAN
  BY SearchAssumption DEF Early
<1>2. /\ a.report \in Reports(stop, Early(r))
      /\ a.paced => a.report.ramp = "enough"
  BY <1>1 DEF Aggregates
<1>3. /\ a.report.cost \in Prewarm..(Prewarm + Ramp)
      /\ a.report.cost = Prewarm + IF a.report.ramp = "empty" THEN 0 ELSE RampCalls
      /\ stop => a.report.ramp = "empty"
      /\ a.report.pre429 \in BOOLEAN /\ a.report.ramp429 \in BOOLEAN
  BY <1>2 DEF Reports
<1> QED  BY <1>2, <1>3, RampCallsType, ProbeAssumption DEF Hit

----------------------------------------------------------------------------
Searching == phase \in {"A", "B"}

\* What a set of probes shows of the largest cell at a rate.
PassedAt(ps, t) == \E p \in ps : p.tps = t /\ p.role = "largest" /\ ~p.hit /\ p.enough
HitAt(ps, t)    == \E p \in ps : p.tps = t /\ p.role = "largest" /\ p.hit

\* Every rate of the grids behind the search was passed by the largest cell.
Behind ==
  Searching =>
    /\ outcome = "none"
    /\ phase = "B" => \A i \in DOMAIN GridA : PassedAt(probes, GridA[i])
    /\ \A i \in DOMAIN Grid(phase) : i < idx => PassedAt(probes, Grid(phase)[i])
    /\ role = "control" => HitAt(probes, Tps)

\* A search under way has passed the threshold only by the throttled probe of
\* a bracket, after which the control runs at once.
Budget ==
  /\ stop <=> spent >= Threshold
  /\ Searching /\ stop =>
       /\ role = "control" /\ ~retry /\ depth # 0
       /\ spent < Threshold + (Prewarm + RampCalls)

\* The second half of EscalatedFromPassing.
EndpointPassed ==
  outcome = "endpoint_not_throttling" =>
    \A i \in DOMAIN GridB : PassedAt(probes, GridB[i])

SearchInv == /\ TypeOK /\ Behind /\ Budget
             /\ SelectedOnContrast /\ EndpointPassed /\ OvershootBounded

\* The rate of the next probe is a number.
LEMMA TpsType == ASSUME TypeOK, Searching PROVE Tps \in Nat
<1>1. CASE depth = 0
  BY <1>1, SearchAssumption DEF TypeOK, Searching, Tps, Grid
<1>2. CASE depth # 0
  <2>1. low + high \in Nat
    BY DEF TypeOK
  <2> QED  BY <1>2, <2>1 DEF Tps
<1> QED  BY <1>1, <1>2

\* The step of a probe before anything is decided from it.
LEMMA Measured ==
  ASSUME SearchInv, NEW a, SearchStep(a)
  PROVE  /\ Searching /\ Tps \in Nat
         /\ a.paced => a.report.ramp = "enough"
         /\ Hit(a) \in BOOLEAN
         /\ spent' \in Nat /\ stop' \in BOOLEAN
         /\ stop' <=> OverBudget
         /\ OverBudget <=> spent' >= Threshold
         /\ spent' < Threshold + (Prewarm + RampCalls) + Prewarm
         /\ role = "largest" => spent' < Threshold + (Prewarm + RampCalls)
         /\ probes \subseteq probes'
         /\ probes' \subseteq [tps : Nat, role : Roles, hit : BOOLEAN, enough : BOOLEAN]
         /\ ~ScheduleFault(a) /\ Classify(a) = "eligible" =>
              [tps |-> Tps, role |-> role, hit |-> Hit(a),
               enough |-> a.report.ramp = "enough"] \in probes'
<1>1. Searching /\ Measures(role, a)
  BY DEF SearchStep, Searching
<1>2. /\ stop \in BOOLEAN /\ role \in Roles /\ spent \in Nat
      /\ probes \subseteq [tps : Nat, role : Roles, hit : BOOLEAN, enough : BOOLEAN]
      /\ Tps \in Nat
  BY <1>1, TpsType DEF SearchInv, TypeOK
<1>3. a \in Aggregates[stop][Early(role)]
  BY <1>1 DEF Measures
<1>4. /\ a.report.cost \in Nat
      /\ a.report.cost <= Prewarm + RampCalls
      /\ stop => a.report.cost = Prewarm
      /\ a.paced => a.report.ramp = "enough"
      /\ Hit(a) \in BOOLEAN
  BY <1>2, <1>3, ProbeFacts
<1>5. /\ spent' = spent + a.report.cost
      /\ stop' = (stop \/ spent' >= Threshold)
  BY <1>1 DEF Measures
<1>6. /\ stop <=> spent >= Threshold
      /\ stop => role = "control" /\ spent < Threshold + (Prewarm + RampCalls)
  BY <1>1 DEF SearchInv, Budget
<1>7. Threshold \in Nat \ {0} /\ Prewarm \in Nat \ {0} /\ RampCalls \in Nat
  BY SearchAssumption, ProbeAssumption, RampCallsType
<1>8. /\ spent' \in Nat /\ stop' \in BOOLEAN
      /\ stop' <=> spent' >= Threshold
      /\ spent' < Threshold + (Prewarm + RampCalls) + Prewarm
      /\ role = "largest" => spent' < Threshold + (Prewarm + RampCalls)
  <2> DEFINE cost == a.report.cost
  <2>1. cost \in Nat /\ cost <= Prewarm + RampCalls /\ spent' = spent + cost
    BY <1>4, <1>5
  <2>2. stop => cost = Prewarm
    BY <1>4
  <2> HIDE DEF cost
  <2>3. spent' \in Nat /\ spent' >= spent
    BY <1>2, <2>1
  <2>4. stop' \in BOOLEAN /\ (stop' <=> spent' >= Threshold)
    <3>1. CASE stop
      <4>1. spent' >= Threshold
        BY <1>2, <1>6, <1>7, <2>3, <3>1
      <4> QED  BY <1>5, <3>1, <4>1
    <3>2. CASE ~stop
      BY <1>5, <3>2
    <3> QED  BY <3>1, <3>2
  <2>5. CASE stop
    BY <1>2, <1>6, <1>7, <2>1, <2>2, <2>3, <2>4, <2>5
  <2>6. CASE ~stop
    <3>1. spent < Threshold
      BY <1>2, <1>6, <1>7, <2>6
    <3> QED  BY <1>2, <1>7, <2>1, <2>3, <2>4, <3>1
  <2> QED  BY <2>5, <2>6
<1> DEFINE p == [tps |-> Tps, role |-> role, hit |-> Hit(a), enough |-> a.report.ramp = "enough"]
<1>9. p \in [tps : Nat, role : Roles, hit : BOOLEAN, enough : BOOLEAN]
  BY <1>2, <1>4
<1>10. probes' = IF ScheduleFault(a) \/ Classify(a) # "eligible" THEN probes
                 ELSE probes \union {p}
  BY DEF SearchStep
<1> HIDE DEF p
<1>11. /\ probes \subseteq probes'
       /\ probes' \subseteq [tps : Nat, role : Roles, hit : BOOLEAN, enough : BOOLEAN]
       /\ ~ScheduleFault(a) /\ Classify(a) = "eligible" => p \in probes'
  BY <1>2, <1>9, <1>10
<1> QED  BY <1>1, <1>2, <1>4, <1>8, <1>11 DEF OverBudget, p

\* What was measured stays measured.
LEMMA MeasuredStays ==
  ASSUME probes \subseteq probes', NEW t
  PROVE  /\ PassedAt(probes, t) => PassedAt(probes', t)
         /\ HitAt(probes, t) => HitAt(probes', t)
BY DEF PassedAt, HitAt

----------------------------------------------------------------------------
\* A step that ends the search, by an outcome or by an exception.
LEMMA StoppedKeeps ==
  ASSUME SearchInv, NEW a, SearchStep(a),
         phase' \in {"done", "fault"}, UNCHANGED <<idx, depth, role, retry, low, high>>,
         outcome' \in Outcomes, selected' \in Nat,
         outcome' = "selected" =>
           Throttled(selected, "largest")' /\ Clean(selected, "control")',
         outcome' = "endpoint_not_throttling" =>
           \A i \in DOMAIN GridB : PassedAt(probes', GridB[i])
  PROVE  SearchInv'
<1> USE Measured
<1>1. TypeOK'
  BY DEF SearchInv, TypeOK
<1>2. ~Searching'
  BY DEF Searching
<1>3. Behind' /\ Budget'
  BY <1>2 DEF Behind, Budget, OverBudget
<1>4. SelectedOnContrast' /\ EndpointPassed'
  BY DEF SelectedOnContrast, EndpointPassed
<1>5. OvershootBounded'
  BY DEF OvershootBounded
<1> QED  BY <1>1, <1>3, <1>4, <1>5 DEF SearchInv

LEMMA EndKeeps ==
  ASSUME SearchInv, NEW a, SearchStep(a), NEW o \in Outcomes \ {"selected"}, NEW t \in Nat, NEW why,
         End(o, t, why),
         o = "endpoint_not_throttling" =>
           \A i \in DOMAIN GridB : PassedAt(probes', GridB[i])
  PROVE  SearchInv'
<1>1. /\ phase' = "done" /\ outcome' = o /\ selected' = t
      /\ UNCHANGED <<idx, depth, role, retry, low, high>>
  BY DEF End
<1> QED  BY <1>1, StoppedKeeps

\* The head of a loop: the next rate, or the end for want of budget.
LEMMA PointKeeps ==
  ASSUME SearchInv, NEW a, SearchStep(a),
         NEW ph \in {"A", "B"}, NEW i \in DOMAIN Grid(ph), NEW d \in 0..MaxDepth,
         NEW lo \in Nat, NEW hi \in Nat, Point(ph, i, d, lo, hi),
         ph = "B" => \A j \in DOMAIN GridA : PassedAt(probes', GridA[j]),
         \A j \in DOMAIN Grid(ph) : j < i => PassedAt(probes', Grid(ph)[j])
  PROVE  SearchInv'
<1>1. CASE OverBudget
  <2>1. \/ End("exhausted", 0, "budget")
        \/ End("no_contrast", 0, "budget")
    BY <1>1 DEF Point
  <2> QED  BY <2>1, EndKeeps DEF Outcomes
<1>2. CASE ~OverBudget
  <2>1. /\ phase' = ph /\ idx' = i /\ depth' = d /\ low' = lo /\ high' = hi
        /\ role' = "largest" /\ retry' = FALSE
        /\ UNCHANGED <<outcome, selected, detail>>
    BY <1>2 DEF Point, Stay
  <2>2. /\ Searching /\ outcome = "none"
        /\ spent' \in Nat /\ stop' \in BOOLEAN /\ (stop' <=> OverBudget)
        /\ OverBudget <=> spent' >= Threshold
        /\ spent' < Threshold + (Prewarm + RampCalls) + Prewarm
        /\ probes' \subseteq [tps : Nat, role : Roles, hit : BOOLEAN, enough : BOOLEAN]
    BY Measured DEF SearchInv, Behind
  <2>3. i \in Nat \ {0} /\ i <= Len(Grid(ph))
    BY SearchAssumption DEF Grid
  <2>4. TypeOK'
    BY <2>1, <2>2, <2>3 DEF SearchInv, TypeOK, Roles, Grid
  <2>5. Behind'
    BY <2>1, <2>2 DEF Behind, Grid
  <2>6. Budget'
    BY <1>2, <2>2 DEF Budget
  <2>7. SelectedOnContrast' /\ EndpointPassed' /\ OvershootBounded'
    BY <2>1, <2>2 DEF SelectedOnContrast, EndpointPassed, OvershootBounded
  <2> QED  BY <2>4, <2>5, <2>6, <2>7 DEF SearchInv
<1> QED  BY <1>1, <1>2

\* The rates behind the search, after a further probe.
LEMMA StillBehind ==
  ASSUME SearchInv, NEW a, SearchStep(a)
  PROVE  /\ phase \in {"A", "B"} /\ idx \in DOMAIN Grid(phase) /\ idx \in Nat
         /\ phase = "B" => \A j \in DOMAIN GridA : PassedAt(probes', GridA[j])
         /\ \A j \in DOMAIN Grid(phase) : j < idx => PassedAt(probes', Grid(phase)[j])
<1>1. /\ Searching /\ probes \subseteq probes'
  BY Measured
<1>2. idx \in DOMAIN Grid(phase) /\ idx \in Nat
  BY <1>1, SearchAssumption DEF SearchInv, TypeOK, Grid, Searching
<1>3. /\ phase = "B" => \A j \in DOMAIN GridA : PassedAt(probes, GridA[j])
      /\ \A j \in DOMAIN Grid(phase) : j < idx => PassedAt(probes, Grid(phase)[j])
  BY <1>1 DEF SearchInv, Behind
<1>4. \A t : PassedAt(probes, t) => PassedAt(probes', t)
  BY <1>1, MeasuredStays
<1> QED  BY <1>1, <1>2, <1>3, <1>4 DEF Searching

LEMMA DeeperKeeps ==
  ASSUME SearchInv, NEW a, SearchStep(a), NEW lo \in Nat, NEW hi \in Nat, Deeper(lo, hi)
  PROVE  SearchInv'
<1>1. CASE depth = MaxDepth
  <2>1. End("no_contrast", 0, "bracket_exhausted")
    BY <1>1 DEF Deeper
  <2> QED  BY <2>1, EndKeeps DEF Outcomes
<1>2. CASE depth # MaxDepth
  <2>1. Point(phase, idx, depth + 1, lo, hi)
    BY <1>2 DEF Deeper
  <2>2. depth + 1 \in 0..MaxDepth
    BY <1>2, SearchAssumption DEF SearchInv, TypeOK
  <2>3. /\ phase \in {"A", "B"} /\ idx \in DOMAIN Grid(phase)
        /\ phase = "B" => \A j \in DOMAIN GridA : PassedAt(probes', GridA[j])
        /\ \A j \in DOMAIN Grid(phase) : j < idx => PassedAt(probes', Grid(phase)[j])
    BY StillBehind
  <2> QED  BY <2>1, <2>2, <2>3, PointKeeps
<1> QED  BY <1>1, <1>2

\* An end without a rate and without the claim about the whole grid.
LEMMA HaltedKeeps ==
  ASSUME SearchInv, NEW a, SearchStep(a), NEW why,
         NEW o \in Outcomes \ {"selected", "endpoint_not_throttling"}, Halted(o, why)
  PROVE  SearchInv'
<1>1. End(o, 0, why) \/ End("no_contrast", 0, why)
  BY DEF Halted
<1> QED  BY <1>1, EndKeeps DEF Outcomes

LEMMA ClassifyType == ASSUME NEW a PROVE
  Classify(a) \in Outcomes \ {"selected", "endpoint_not_throttling"} \/ Classify(a) = "eligible"
BY DEF Classify, Outcomes

----------------------------------------------------------------------------
LEMMA RetriesKeep == ASSUME SearchInv, NEW a, SearchStep(a), Retries(a) PROVE SearchInv'
<1>1. CASE OverBudget
  <2>1. Halted("exhausted", "budget")
    BY <1>1 DEF Retries
  <2> QED  BY <2>1, HaltedKeeps DEF Outcomes
<1>2. CASE ~OverBudget
  <2>1. /\ retry' = TRUE
        /\ UNCHANGED <<phase, idx, depth, role, low, high, outcome, selected, detail>>
    BY <1>2 DEF Retries, Stay
  <2>2. /\ Searching /\ outcome = "none" /\ ~stop'
        /\ spent' \in Nat /\ stop' \in BOOLEAN /\ (stop' <=> spent' >= Threshold)
        /\ spent' < Threshold + (Prewarm + RampCalls) + Prewarm
        /\ probes \subseteq probes'
        /\ probes' \subseteq [tps : Nat, role : Roles, hit : BOOLEAN, enough : BOOLEAN]
    BY <1>2, Measured DEF SearchInv, Behind
  <2>3. TypeOK'
    BY <2>1, <2>2 DEF SearchInv, TypeOK, Grid
  <2>4. Behind'
    <3>1. Tps' = Tps /\ Grid(phase)' = Grid(phase)
      BY <2>1 DEF Tps, Grid
    <3>2. role = "control" => HitAt(probes', Tps)
      BY <2>2, MeasuredStays DEF SearchInv, Behind
    <3>3. role = "control" => HitAt(probes, Tps)'
      BY <3>1, <3>2 DEF HitAt
    <3> QED  BY <2>1, <2>2, <3>1, <3>3, StillBehind DEF Behind, Searching
  <2>5. Budget'
    BY <2>2 DEF Budget
  <2>6. SelectedOnContrast' /\ EndpointPassed' /\ OvershootBounded'
    BY <2>1, <2>2 DEF SelectedOnContrast, EndpointPassed, OvershootBounded
  <2> QED  BY <2>3, <2>4, <2>5, <2>6 DEF SearchInv
<1> QED  BY <1>1, <1>2

\* What the record of an eligible probe shows from then on.
LEMMA Recorded ==
  ASSUME SearchInv, NEW a, SearchStep(a), ~ScheduleFault(a), Classify(a) = "eligible"
  PROVE  /\ Hit(a) =>
              \E p \in probes' : p.tps = Tps /\ p.role = role /\ p.hit
         /\ ~Hit(a) =>
              \E p \in probes' : p.tps = Tps /\ p.role = role /\ ~p.hit /\ p.enough
<1> DEFINE p == [tps |-> Tps, role |-> role, hit |-> Hit(a), enough |-> a.report.ramp = "enough"]
<1>1. /\ p \in probes' /\ Hit(a) \in BOOLEAN
      /\ a.paced => a.report.ramp = "enough"
  BY Measured
<1>2. p.tps = Tps /\ p.role = role /\ p.hit = Hit(a) /\ p.enough = (a.report.ramp = "enough")
  OBVIOUS
<1>3. ~Hit(a) => a.paced
  BY DEF Classify, PressurePassed
<1> HIDE DEF p
<1> QED  BY <1>1, <1>2, <1>3

LEMMA LargestPassesKeeps ==
  ASSUME SearchInv, NEW a, SearchStep(a), LargestPasses(a)
  PROVE  SearchInv'
<1>1. /\ role = "largest" /\ ~ScheduleFault(a) /\ Classify(a) = "eligible" /\ ~Hit(a)
  BY DEF LargestPasses
<1>2. \E p \in probes' : p.tps = Tps /\ p.role = "largest" /\ ~p.hit /\ p.enough
  BY <1>1, Recorded
<1>3. Tps \in Nat /\ idx \in Nat /\ phase \in {"A", "B"} /\ idx \in DOMAIN Grid(phase)
  BY Measured, StillBehind
<1>4. CASE depth # 0
  <2>1. Deeper(Tps, high)
    BY <1>4 DEF LargestPasses
  <2> QED  BY <1>3, <2>1, DeeperKeeps DEF SearchInv, TypeOK
<1>5. CASE depth = 0
  <2>1. Ahead
    BY <1>5 DEF LargestPasses
  <2>2. \A j \in DOMAIN Grid(phase) : j <= idx => PassedAt(probes', Grid(phase)[j])
    <3>1. Tps = Grid(phase)[idx]
      BY <1>5 DEF Tps
    <3>2. ASSUME NEW j \in DOMAIN Grid(phase), j <= idx
          PROVE  PassedAt(probes', Grid(phase)[j])
      <4>1. CASE j < idx
        BY <4>1, StillBehind
      <4>2. CASE j = idx
        BY <4>2, <1>2, <3>1 DEF PassedAt
      <4> QED  BY <1>3, <3>2, <4>1, <4>2, SearchAssumption DEF Grid
    <3> QED  BY <3>2
  <2>3. CASE idx < Len(Grid(phase))
    <3>1. Point(phase, idx + 1, 0, Tps, 0)
      BY <2>1, <2>3 DEF Ahead
    <3>2. idx + 1 \in DOMAIN Grid(phase) /\ 0 \in 0..MaxDepth /\ 0 \in Nat
      BY <1>3, <2>3, SearchAssumption DEF Grid
    <3>3. \A j \in DOMAIN Grid(phase) : j < idx + 1 => PassedAt(probes', Grid(phase)[j])
      BY <1>3, <2>2, SearchAssumption DEF Grid
    <3>4. phase = "B" => \A j \in DOMAIN GridA : PassedAt(probes', GridA[j])
      BY StillBehind
    <3> QED  BY <1>3, <3>1, <3>2, <3>3, <3>4, PointKeeps
  <2>4. CASE idx = Len(Grid(phase))
    <3>1. \A j \in DOMAIN Grid(phase) : PassedAt(probes', Grid(phase)[j])
      BY <2>2, <2>4, SearchAssumption DEF Grid
    <3>2. CASE phase = "A"
      <4>1. Point("B", 1, 0, 0, 0)
        BY <2>1, <2>4, <3>2 DEF Ahead
      <4>2. 1 \in DOMAIN Grid("B") /\ 0 \in 0..MaxDepth /\ 0 \in Nat
        BY SearchAssumption DEF Grid
      <4>3. \A j \in DOMAIN GridA : PassedAt(probes', GridA[j])
        BY <3>1, <3>2 DEF Grid
      <4>4. \A j \in DOMAIN Grid("B") : j < 1 => PassedAt(probes', Grid("B")[j])
        BY SearchAssumption DEF Grid
      <4> QED  BY <4>1, <4>2, <4>3, <4>4, PointKeeps
    <3>3. CASE phase = "B"
      <4>1. End("endpoint_not_throttling", 0, "grid_exhausted")
        BY <2>1, <2>4, <3>3 DEF Ahead
      <4>2. \A j \in DOMAIN GridB : PassedAt(probes', GridB[j])
        BY <3>1, <3>3 DEF Grid
      <4> QED  BY <4>1, <4>2, EndKeeps DEF Outcomes
    <3> QED  BY <1>3, <3>2, <3>3
  <2> QED  BY <1>3, <2>3, <2>4, SearchAssumption DEF Grid
<1> QED  BY <1>4, <1>5

LEMMA LargestHitsKeeps ==
  ASSUME SearchInv, NEW a, SearchStep(a), LargestHits(a)
  PROVE  SearchInv'
<1>1. /\ role = "largest" /\ ~ScheduleFault(a) /\ Classify(a) = "eligible" /\ Hit(a)
  BY DEF LargestHits
<1>2. \E p \in probes' : p.tps = Tps /\ p.role = "largest" /\ p.hit
  BY <1>1, Recorded
<1>3. CASE depth = 0 /\ OverBudget
  <2>1. Halted("exhausted", "budget")
    BY <1>3 DEF LargestHits
  <2> QED  BY <2>1, HaltedKeeps DEF Outcomes
<1>4. CASE ~(depth = 0 /\ OverBudget)
  <2>1. /\ role' = "control" /\ retry' = FALSE
        /\ UNCHANGED <<phase, idx, depth, low, high, outcome, selected, detail>>
    BY <1>4 DEF LargestHits, Stay
  <2>2. /\ Searching /\ outcome = "none"
        /\ spent' \in Nat /\ stop' \in BOOLEAN /\ (stop' <=> OverBudget)
        /\ OverBudget <=> spent' >= Threshold
        /\ spent' < Threshold + (Prewarm + RampCalls) + Prewarm
        /\ spent' < Threshold + (Prewarm + RampCalls)
        /\ probes' \subseteq [tps : Nat, role : Roles, hit : BOOLEAN, enough : BOOLEAN]
    BY <1>1, Measured DEF SearchInv, Behind
  <2>3. TypeOK'
    BY <2>1, <2>2 DEF SearchInv, TypeOK, Roles, Grid
  <2>4. Behind'
    <3>1. Tps' = Tps /\ Grid(phase)' = Grid(phase)
      BY <2>1 DEF Tps, Grid
    <3>2. HitAt(probes, Tps)'
      BY <1>2, <3>1 DEF HitAt
    <3> QED  BY <2>1, <2>2, <3>1, <3>2, StillBehind DEF Behind, Searching
  <2>5. Budget'
    BY <1>4, <2>1, <2>2 DEF Budget
  <2>6. SelectedOnContrast' /\ EndpointPassed' /\ OvershootBounded'
    BY <2>1, <2>2 DEF SelectedOnContrast, EndpointPassed, OvershootBounded
  <2> QED  BY <2>3, <2>4, <2>5, <2>6 DEF SearchInv
<1> QED  BY <1>3, <1>4

LEMMA ControlPassesKeeps ==
  ASSUME SearchInv, NEW a, SearchStep(a), ControlPasses(a)
  PROVE  SearchInv'
<1>1. role = "control" /\ ~ScheduleFault(a) /\ Classify(a) = "eligible" /\ ~Hit(a)
  BY DEF ControlPasses
<1>2. Tps \in Nat /\ probes \subseteq probes' /\ Searching
  BY Measured
<1>3. \E p \in probes' : p.tps = Tps /\ p.role = "control" /\ ~p.hit /\ p.enough
  BY <1>1, Recorded
<1>4. HitAt(probes, Tps)
  BY <1>1, <1>2 DEF SearchInv, Behind
<1>5. /\ phase' = "done" /\ outcome' = "selected" /\ selected' = Tps
      /\ UNCHANGED <<idx, depth, role, retry, low, high>>
  BY DEF ControlPasses, End
<1>6. Throttled(selected, "largest")' /\ Clean(selected, "control")'
  BY <1>2, <1>3, <1>4, <1>5 DEF HitAt, Throttled, Clean
<1> QED  BY <1>2, <1>5, <1>6, StoppedKeeps DEF Outcomes

LEMMA ControlHitsKeeps ==
  ASSUME SearchInv, NEW a, SearchStep(a), ControlHits(a)
  PROVE  SearchInv'
<1>1. CASE depth = 0 /\ low = 0
  <2>1. End("no_contrast", 0, "no_t_low")
    BY <1>1 DEF ControlHits
  <2> QED  BY <2>1, EndKeeps DEF Outcomes
<1>2. CASE ~(depth = 0 /\ low = 0)
  <2>1. Deeper(low, Tps)
    BY <1>2 DEF ControlHits
  <2>2. low \in Nat /\ Tps \in Nat
    BY Measured DEF SearchInv, TypeOK
  <2> QED  BY <2>1, <2>2, DeeperKeeps
<1> QED  BY <1>1, <1>2

LEMMA StepKeeps == SearchInv /\ [Next]_vars => SearchInv'
<1> SUFFICES ASSUME SearchInv, [Next]_vars PROVE SearchInv'
  OBVIOUS
<1>1. CASE Next
  <2>1. PICK a : SearchStep(a)
    BY <1>1 DEF Next
  <2>2. CASE Faults(a)
    <3>1. /\ phase' = "fault" /\ outcome' = "none" /\ selected' \in Nat
          /\ UNCHANGED <<idx, depth, role, retry, low, high>>
      BY <2>1, <2>2, Measured DEF Faults, Stay, SearchInv, TypeOK, Behind
    <3> QED  BY <2>1, <3>1, StoppedKeeps DEF Outcomes
  <2>3. CASE Retries(a)
    BY <2>1, <2>3, RetriesKeep
  <2>4. CASE GivesUp(a)
    <3>1. Classify(a) # "eligible" /\ Halted(Classify(a), "ineligible")
      BY <2>4 DEF GivesUp
    <3> QED  BY <2>1, <3>1, ClassifyType, HaltedKeeps
  <2>5. CASE LargestPasses(a)
    BY <2>1, <2>5, LargestPassesKeeps
  <2>6. CASE LargestHits(a)
    BY <2>1, <2>6, LargestHitsKeeps
  <2>7. CASE ControlPasses(a)
    BY <2>1, <2>7, ControlPassesKeeps
  <2>8. CASE ControlHits(a)
    BY <2>1, <2>8, ControlHitsKeeps
  <2> QED  BY <2>1, <2>2, <2>3, <2>4, <2>5, <2>6, <2>7, <2>8 DEF SearchStep, Decides
<1>2. CASE UNCHANGED vars
  BY <1>2 DEF vars, where, SearchInv, TypeOK, Behind, Budget, SelectedOnContrast,
     EndpointPassed, OvershootBounded, Searching, Grid, Tps, Clean, Throttled,
     PassedAt, HitAt
<1> QED  BY <1>1, <1>2

LEMMA InitHolds == Init => SearchInv
<1> SUFFICES ASSUME Init PROVE SearchInv
  OBVIOUS
<1> USE SearchAssumption, ProbeAssumption, RampCallsType DEF Init
<1>1. TypeOK
  <2>1. 1 <= Len(GridA)
    OBVIOUS
  <2>2. probes \subseteq [tps : Nat, role : Roles, hit : BOOLEAN, enough : BOOLEAN]
    OBVIOUS
  <2>3. Grid(phase) = GridA /\ 0 \in 0..MaxDepth
    BY DEF Grid
  <2>4. /\ phase \in {"A", "B", "done", "fault"} /\ idx \in Nat \ {0}
        /\ phase \in {"A", "B"} => idx <= Len(Grid(phase))
    BY <2>1, <2>3
  <2>5. /\ depth \in 0..MaxDepth /\ role \in Roles /\ retry \in BOOLEAN
    BY <2>3 DEF Roles
  <2>6. /\ low \in Nat /\ high \in Nat /\ selected \in Nat /\ spent \in Nat
    OBVIOUS
  <2>7. /\ stop \in BOOLEAN /\ outcome \in Outcomes
    BY DEF Outcomes
  <2> QED  BY <2>2, <2>4, <2>5, <2>6, <2>7 DEF TypeOK
<1>2. Behind
  BY DEF Behind, Searching, Grid
<1>3. Budget
  BY DEF Budget, Searching
<1>4. SelectedOnContrast /\ EndpointPassed /\ OvershootBounded
  BY DEF SelectedOnContrast, EndpointPassed, OvershootBounded
<1> QED  BY <1>1, <1>2, <1>3, <1>4 DEF SearchInv

LEMMA Invariant == Spec => []SearchInv
BY InitHolds, StepKeeps, PTL DEF Spec

----------------------------------------------------------------------------
(* Every reachable state of the search is type correct.                     *)
THEOREM TypeCorrect == Spec => []TypeOK
<1>1. SearchInv => TypeOK
  BY DEF SearchInv
<1> QED  BY <1>1, Invariant, PTL

(* A rate is selected only on a throttled largest cell and a control that   *)
(* met no 429 over at least the records the last window must have intended, *)
(* whatever the caps cut and whatever ends the other probes of the search.  *)
THEOREM SelectionIsMeasured == Spec => []SelectedOnContrast
<1>1. SearchInv => SelectedOnContrast
  BY DEF SearchInv
<1> QED  BY <1>1, Invariant, PTL

(* No rate of a grid is skipped on the way to the second phase and to the   *)
(* verdict that the endpoint does not throttle.                             *)
THEOREM NoRateIsSkipped == Spec => []EscalatedFromPassing
<1>1. SearchInv => (phase = "B" => \A i \in DOMAIN GridA : PassedAt(probes, GridA[i]))
  BY DEF SearchInv, Behind, Searching
<1>2. SearchInv => EscalatedFromPassing
  BY <1>1 DEF SearchInv, EndpointPassed, EscalatedFromPassing, PassedAt, Clean
<1> QED  BY <1>2, Invariant, PTL

(* For any prices the committed spend passes the threshold by less than one *)
(* probe and one warm-up.                                                   *)
THEOREM OvershootIsOneProbe == Spec => []OvershootBounded
<1>1. SearchInv => OvershootBounded
  BY DEF SearchInv
<1> QED  BY <1>1, Invariant, PTL

----------------------------------------------------------------------------
(* The search runs down: a rate costs four probes at most, two of each role, *)
(* and from a bracket it never returns to the grid.                          *)
RatesLeft == IF phase = "A" THEN (Len(GridA) - idx) + Len(GridB) ELSE Len(GridB) - idx

LaterProbes == 4 * (RatesLeft + (MaxDepth - depth))
ProbesHere  == (IF role = "largest" THEN 2 ELSE 0) + (IF retry THEN 1 ELSE 2)
ProbesLeft  == IF Searching THEN LaterProbes + ProbesHere ELSE 0

MostProbes == 4 * (Len(GridA) + Len(GridB) + MaxDepth)

LEMMA LengthFacts ==
  /\ Len(GridA) \in Nat \ {0} /\ Len(GridB) \in Nat \ {0} /\ MaxDepth \in Nat
  /\ MostProbes \in Nat
BY SearchAssumption DEF MostProbes

LEMMA FourMore == ASSUME NEW x \in Int, NEW y \in Int, x + 1 = y PROVE 4 * x + 4 = 4 * y
OBVIOUS

LEMMA ProbesLeftBound ==
  ASSUME TypeOK
  PROVE  /\ ProbesLeft \in 0..MostProbes
         /\ Searching => ProbesLeft > 0
<1>1. CASE ~Searching
  BY <1>1, LengthFacts DEF ProbesLeft
<1>2. CASE Searching
  <2>1. /\ idx \in Nat \ {0} /\ depth \in 0..MaxDepth
        /\ phase = "A" => idx <= Len(GridA)
        /\ phase # "A" => idx <= Len(GridB)
    BY <1>2 DEF TypeOK, Searching, Grid
  <2>2. RatesLeft \in Nat /\ RatesLeft + 1 <= Len(GridA) + Len(GridB)
    BY <2>1, LengthFacts DEF RatesLeft
  <2>3. MaxDepth - depth \in Nat /\ MaxDepth - depth <= MaxDepth
    BY <2>1, LengthFacts
  <2>4. LaterProbes \in Nat /\ LaterProbes + 4 <= MostProbes
    BY <2>2, <2>3, LengthFacts DEF LaterProbes, MostProbes
  <2> QED  BY <1>2, <2>4, LengthFacts DEF ProbesLeft, ProbesHere
<1> QED  BY <1>1, <1>2

\* The same of the state after a step.
LEMMA ProbesLeftBoundNext == TypeOK' => (ProbesLeft \in 0..MostProbes)'
<1>1. TypeOK => ProbesLeft \in 0..MostProbes
  BY ProbesLeftBound
<1> QED  BY <1>1, PTL

LEMMA StepRunsDown == ASSUME SearchInv, Next PROVE ProbesLeft' < ProbesLeft
<1>1. PICK a : SearchStep(a)
  BY DEF Next
<1>2. TypeOK /\ TypeOK' /\ Searching
  BY <1>1, StepKeeps, Measured DEF SearchInv
<1>3. /\ ProbesLeft \in Nat /\ ProbesLeft > 0
      /\ ~Searching' => ProbesLeft' = 0
  BY <1>2, ProbesLeftBound, LengthFacts DEF ProbesLeft
<1>4. /\ idx \in Nat \ {0} /\ depth \in 0..MaxDepth /\ retry \in BOOLEAN /\ role \in Roles
      /\ phase \in {"A", "B"} /\ idx <= Len(Grid(phase))
  BY <1>2 DEF TypeOK, Searching
<1>r. /\ RatesLeft \in Nat /\ LaterProbes \in Nat /\ ProbesLeft = LaterProbes + ProbesHere
      /\ ProbesHere \in 1..4
  <2>1. RatesLeft \in Nat /\ MaxDepth - depth \in Nat
    BY <1>4, LengthFacts DEF RatesLeft, Grid
  <2> QED  BY <1>2, <2>1 DEF LaterProbes, ProbesLeft, ProbesHere
<1>s. (Searching' /\ UNCHANGED <<phase, idx, depth>>) => ProbesLeft' = LaterProbes + ProbesHere'
  BY DEF ProbesLeft, LaterProbes, RatesLeft
<1> USE LengthFacts
<1>5. ASSUME NEW o, NEW t, NEW why, End(o, t, why) PROVE ProbesLeft' < ProbesLeft
  BY <1>3, <1>5 DEF End, Searching
<1>6. ASSUME NEW ph \in {"A", "B"}, NEW i \in Nat \ {0}, NEW d \in 0..MaxDepth, NEW lo, NEW hi,
             Point(ph, i, d, lo, hi),
             \/ ph = phase /\ i = idx + 1 /\ d = depth
             \/ ph = phase /\ i = idx /\ d = depth + 1
             \/ ph = "B" /\ i = 1 /\ phase = "A" /\ d = depth /\ idx = Len(GridA)
      PROVE  ProbesLeft' < ProbesLeft
  <2>1. CASE OverBudget
    BY <1>5, <1>6, <2>1 DEF Point
  <2>2. CASE ~OverBudget
    <3>1. /\ phase' = ph /\ idx' = i /\ depth' = d
          /\ role' = "largest" /\ retry' = FALSE
      BY <1>6, <2>2 DEF Point
    <3> DEFINE Before == RatesLeft + (MaxDepth - depth)
               After  == RatesLeft' + (MaxDepth - depth')
    <3>2. Before \in Int /\ After \in Int /\ After + 1 = Before
      BY <1>4, <1>6, <3>1 DEF RatesLeft, Grid
    <3>3. LaterProbes' \in Int /\ LaterProbes' + 4 = LaterProbes
      <4>1. LaterProbes = 4 * Before /\ LaterProbes' = 4 * After
        BY DEF LaterProbes
      <4> HIDE DEF Before, After
      <4>2. 4 * After + 4 = 4 * Before
        BY <3>2, FourMore
      <4> QED  BY <3>2, <4>1, <4>2
    <3>4. ProbesLeft' = LaterProbes' + 4
      BY <1>6, <3>1, <3>3 DEF ProbesLeft, ProbesHere, Searching
    <3>5. ProbesLeft > LaterProbes
      BY <1>r
    <3>6. ProbesLeft' = LaterProbes
      BY <3>3, <3>4
    <3> QED  BY <3>5, <3>6
  <2> QED  BY <2>1, <2>2
<1>7. ASSUME NEW lo, NEW hi, Deeper(lo, hi) PROVE ProbesLeft' < ProbesLeft
  BY <1>4, <1>5, <1>6, <1>7 DEF Deeper
<1>8. ASSUME depth = 0, Ahead PROVE ProbesLeft' < ProbesLeft
  <2>1. CASE idx < Len(Grid(phase))
    BY <1>4, <1>6, <1>8, <2>1 DEF Ahead
  <2>2. CASE idx = Len(Grid(phase)) /\ phase = "A"
    BY <1>4, <1>6, <1>8, <2>2 DEF Ahead, Grid
  <2>3. CASE idx = Len(Grid(phase)) /\ phase # "A"
    BY <1>5, <1>8, <2>3 DEF Ahead
  <2> QED  BY <1>4, <2>1, <2>2, <2>3 DEF Grid
<1>9. CASE Faults(a)
  BY <1>3, <1>9 DEF Faults, Searching
<1>10. CASE Retries(a)
  <2>1. CASE OverBudget
    BY <1>5, <1>10, <2>1 DEF Retries, Halted
  <2>2. CASE ~OverBudget
    BY <1>2, <1>r, <1>s, <1>10, <2>2 DEF Retries, ProbesHere, Searching
  <2> QED  BY <2>1, <2>2
<1>11. CASE GivesUp(a)
  BY <1>5, <1>11 DEF GivesUp, Halted
<1>12. CASE LargestPasses(a)
  BY <1>7, <1>8, <1>12 DEF LargestPasses
<1>13. CASE LargestHits(a)
  <2>1. CASE depth = 0 /\ OverBudget
    BY <1>5, <1>13, <2>1 DEF LargestHits, Halted
  <2>2. CASE ~(depth = 0 /\ OverBudget)
    BY <1>2, <1>r, <1>s, <1>13, <2>2 DEF LargestHits, ProbesHere, Searching
  <2> QED  BY <2>1, <2>2
<1>14. CASE ControlPasses(a)
  BY <1>5, <1>14 DEF ControlPasses
<1>15. CASE ControlHits(a)
  BY <1>5, <1>7, <1>15 DEF ControlHits
<1> QED
  BY <1>1, <1>9, <1>10, <1>11, <1>12, <1>13, <1>14, <1>15 DEF SearchStep, Decides

\* The search awaits at most four probes for each rate of its grids and each
\* level of a bracket, whatever they report: none is followed by another unless
\* the number of those still possible has fallen.
THEOREM SearchIsBounded ==
  Spec => [](ProbesLeft \in 0..MostProbes) /\ [][ProbesLeft' < ProbesLeft]_vars
<1>1. SearchInv => ProbesLeft \in 0..MostProbes
  BY ProbesLeftBound DEF SearchInv
<1>2. SearchInv /\ [Next]_vars => [ProbesLeft' < ProbesLeft]_vars
  BY StepRunsDown
<1> QED  BY <1>1, <1>2, Invariant, PTL DEF Spec

----------------------------------------------------------------------------
\* Widths that halve as a bracket deepens, and start within every grid's gaps.
Width == CHOOSE width \in [0..MaxDepth -> 1..(GridA[Len(GridA)] + GridB[Len(GridB)])] :
           Halves(width)

LEMMA WidthFacts ==
  /\ \A d \in 0..MaxDepth : Width[d] \in Nat /\ Width[d] >= 1
  /\ Halves(Width)
<1> DEFINE Widths == [0..MaxDepth -> 1..(GridA[Len(GridA)] + GridB[Len(GridB)])]
<1>1. \E width \in Widths : Halves(width)
  BY ScaleAssumption
<1>2. Width \in Widths /\ Halves(Width)
  BY <1>1 DEF Width
<1>3. GridA[Len(GridA)] + GridB[Len(GridB)] \in Nat
  BY SearchAssumption
<1> QED  BY <1>2, <1>3

\* The ends of a bracket whose ends were measured in ps.
Straddled(ps, lo, hi) ==
  /\ PassedAt(ps, lo)
  /\ HitAt(ps, hi)
  /\ \E p \in ps : p.tps = hi /\ p.role = "control" /\ p.hit

\* On the grid the rate below is the neighbour; a bracket is as wide as its
\* depth needs.
Straddle ==
  Searching =>
    /\ depth = 0 /\ low # 0 => idx > 1 /\ low = Grid(phase)[idx - 1]
    /\ depth # 0 => high - low >= Width[depth - 1] /\ Straddled(probes, low, high)

LEMMA PointStraddles ==
  ASSUME NEW ph, NEW i, NEW d, NEW lo, NEW hi, Point(ph, i, d, lo, hi),
         d = 0 /\ lo # 0 => i > 1 /\ lo = Grid(ph)[i - 1],
         d # 0 => hi - lo >= Width[d - 1] /\ Straddled(probes', lo, hi)
  PROVE  Straddle'
<1>1. CASE OverBudget
  BY <1>1 DEF Point, End, Straddle, Searching
<1>2. CASE ~OverBudget
  <2>1. phase' = ph /\ idx' = i /\ depth' = d /\ low' = lo /\ high' = hi
    BY <1>2 DEF Point
  <2> QED  BY <2>1 DEF Straddle, Grid, Straddled, PassedAt, HitAt
<1> QED  BY <1>1, <1>2

\* The next bracket is half of the gap it lies in, and still wide enough.
LEMMA DeeperStraddles ==
  ASSUME SearchInv, NEW a, SearchStep(a), NEW lo \in Nat, NEW hi \in Nat,
         hi - lo >= Width[depth], Straddled(probes', lo, hi), Deeper(lo, hi)
  PROVE  Straddle'
<1>1. CASE depth = MaxDepth
  BY <1>1 DEF Deeper, End, Straddle, Searching
<1>2. CASE depth # MaxDepth
  <2>1. depth \in Nat /\ depth + 1 # 0 /\ (depth + 1) - 1 = depth
    BY SearchAssumption DEF SearchInv, TypeOK
  <2>2. Point(phase, idx, depth + 1, lo, hi)
    BY <1>2 DEF Deeper
  <2> QED  BY <2>1, <2>2, PointStraddles
<1> QED  BY <1>1, <1>2

\* Either half of a bracket is wide enough for the next depth.
LEMMA MiddleFits ==
  ASSUME NEW lo \in Nat, NEW hi \in Nat, NEW d \in 1..MaxDepth, hi - lo >= Width[d - 1]
  PROVE  LET mid == (lo + hi) \div 2
         IN  /\ mid \in Nat /\ lo < mid /\ mid < hi
             /\ mid - lo >= Width[d] /\ hi - mid >= Width[d]
<1>1. /\ d \in 0..MaxDepth /\ d - 1 \in 0..MaxDepth
  BY SearchAssumption
<1>2. PICK w \in Nat : w = Width[d] /\ w >= 1 /\ Width[d - 1] >= 2 * w
  BY <1>1, WidthFacts DEF Halves
<1>3. hi - lo >= 2 * w
  BY <1>1, <1>2, WidthFacts
<1> QED  BY <1>2, <1>3

LEMMA StraddledStays ==
  ASSUME probes \subseteq probes', NEW lo, NEW hi, Straddled(probes, lo, hi)
  PROVE  Straddled(probes', lo, hi)
BY DEF Straddled, PassedAt, HitAt

\* What a step finds measured around the rate it has just probed.
LEMMA Around ==
  ASSUME SearchInv, Straddle, NEW a, SearchStep(a)
  PROVE  /\ low \in Nat /\ high \in Nat /\ Tps \in Nat
         /\ depth = 0 /\ low # 0 => PassedAt(probes', low) /\ Tps - low >= Width[0]
         /\ depth # 0 => /\ Straddled(probes', low, high)
                         /\ Tps - low >= Width[depth] /\ high - Tps >= Width[depth]
<1>1. /\ Searching /\ probes \subseteq probes' /\ Tps \in Nat
      /\ low \in Nat /\ high \in Nat /\ depth \in 0..MaxDepth
  BY Measured DEF SearchInv, TypeOK
<1>2. ASSUME depth = 0, low # 0
      PROVE  PassedAt(probes', low) /\ Tps - low >= Width[0]
  <2>1. /\ idx > 1 /\ low = Grid(phase)[idx - 1] /\ Tps = Grid(phase)[idx]
    BY <1>1, <1>2 DEF Straddle, Tps
  <2>2. /\ idx \in DOMAIN Grid(phase) /\ idx \in Nat /\ phase \in {"A", "B"}
        /\ \A j \in DOMAIN Grid(phase) : j < idx => PassedAt(probes', Grid(phase)[j])
    BY StillBehind
  <2>3. idx - 1 \in DOMAIN Grid(phase) /\ idx - 1 < idx
    BY <2>1, <2>2, SearchAssumption DEF Grid
  <2>4. Grid(phase)[idx] - Grid(phase)[idx - 1] >= Width[0]
    BY <2>1, <2>2, WidthFacts DEF Halves, Grid
  <2> QED  BY <2>1, <2>2, <2>3, <2>4
<1>3. ASSUME depth # 0
      PROVE  /\ Straddled(probes', low, high)
             /\ Tps - low >= Width[depth] /\ high - Tps >= Width[depth]
  <2>1. high - low >= Width[depth - 1] /\ Straddled(probes, low, high)
    BY <1>1, <1>3 DEF Straddle
  <2>2. depth \in 1..MaxDepth /\ Tps = (low + high) \div 2
    BY <1>1, <1>3, SearchAssumption DEF Tps
  <2> QED  BY <1>1, <2>1, <2>2, MiddleFits, StraddledStays
<1> QED  BY <1>1, <1>2, <1>3

LEMMA StepStraddles == SearchInv /\ Straddle /\ [Next]_vars => Straddle'
<1> SUFFICES ASSUME SearchInv, Straddle, [Next]_vars PROVE Straddle'
  OBVIOUS
<1>1. CASE Next
  <2>1. PICK a : SearchStep(a)
    BY <1>1 DEF Next
  <2>2. /\ Searching /\ probes \subseteq probes' /\ role \in Roles
    BY <2>1, Measured DEF SearchInv, TypeOK
  \* The search stays where it is.
  <2>3. CASE UNCHANGED <<phase, idx, depth, low, high>>
    BY <2>2, <2>3, StraddledStays DEF Straddle, Grid, Searching
  \* It ends.
  <2>4. CASE phase' \in {"done", "fault"}
    BY <2>4 DEF Straddle, Searching
  <2>5. CASE LargestPasses(a)
    <3>1. /\ ~ScheduleFault(a) /\ Classify(a) = "eligible" /\ ~Hit(a) /\ role = "largest"
      BY <2>5 DEF LargestPasses
    <3>2. PassedAt(probes', Tps)
      BY <2>1, <3>1, Recorded DEF PassedAt
    <3>3. CASE depth # 0
      <4>1. Deeper(Tps, high)
        BY <2>5, <3>3 DEF LargestPasses
      <4>2. Straddled(probes', Tps, high)
        BY <2>1, <3>2, <3>3, Around DEF Straddled
      <4> QED  BY <2>1, <3>3, <4>1, <4>2, Around, DeeperStraddles
    <3>4. CASE depth = 0
      <4>1. Ahead /\ Tps = Grid(phase)[idx] /\ idx \in Nat \ {0}
        BY <2>5, <3>4 DEF LargestPasses, Tps, SearchInv, TypeOK
      <4>2. \/ Point(phase, idx + 1, 0, Tps, 0)
            \/ Point("B", 1, 0, 0, 0)
            \/ End("endpoint_not_throttling", 0, "grid_exhausted")
        BY <4>1 DEF Ahead
      <4>3. idx + 1 > 1 /\ (idx + 1) - 1 = idx
        BY <4>1
      <4> QED  BY <2>4, <4>1, <4>2, <4>3, PointStraddles DEF End
    <3> QED  BY <3>3, <3>4
  <2>6. CASE ControlHits(a)
    <3>1. /\ ~ScheduleFault(a) /\ Classify(a) = "eligible" /\ Hit(a) /\ role = "control"
      BY <2>6 DEF ControlHits
    <3>2. /\ \E p \in probes' : p.tps = Tps /\ p.role = "control" /\ p.hit
          /\ HitAt(probes', Tps)
      BY <2>1, <2>2, <3>1, Recorded, MeasuredStays DEF SearchInv, Behind
    <3>3. CASE depth = 0 /\ low = 0
      BY <2>4, <2>6, <3>3 DEF ControlHits, End
    <3>4. CASE ~(depth = 0 /\ low = 0)
      <4>1. Deeper(low, Tps)
        BY <2>6, <3>4 DEF ControlHits
      <4>2. Straddled(probes', low, Tps) /\ Tps - low >= Width[depth]
        BY <2>1, <3>2, <3>4, Around DEF Straddled
      <4> QED  BY <2>1, <4>1, <4>2, Around, DeeperStraddles
    <3> QED  BY <3>3, <3>4
  <2>7. CASE Faults(a) \/ Retries(a) \/ GivesUp(a) \/ LargestHits(a) \/ ControlPasses(a)
    BY <2>3, <2>4, <2>7 DEF Faults, Retries, GivesUp, LargestHits, ControlPasses, Halted, End
  <2> QED  BY <2>1, <2>5, <2>6, <2>7 DEF SearchStep, Decides
<1>2. CASE UNCHANGED vars
  BY <1>2 DEF vars, where, Straddle, Straddled, Searching, Grid, PassedAt, HitAt
<1> QED  BY <1>1, <1>2

(* The ends of a bracket were measured, the lower one passed by the largest *)
(* cell and the upper one throttling both, and its middle lies between them *)
(* for as long as the scale can tell neighbouring rates apart.              *)
THEOREM BracketsStraddle == Spec => []BracketStraddlesOnset
<1>1. Init => Straddle
  BY DEF Init, Straddle
<1>2. SearchInv /\ Straddle => BracketStraddlesOnset
  <2> SUFFICES ASSUME SearchInv, Straddle, depth > 0, Searching
               PROVE  /\ low < high /\ low < Tps /\ Tps < high
                      /\ Clean(low, "largest")
                      /\ Throttled(high, "largest") /\ Throttled(high, "control")
    BY DEF BracketStraddlesOnset, Searching
  <2>1. /\ depth \in 1..MaxDepth /\ low \in Nat /\ high \in Nat
        /\ Tps = (low + high) \div 2
    BY SearchAssumption DEF SearchInv, TypeOK, Tps
  <2>2. high - low >= Width[depth - 1] /\ Straddled(probes, low, high)
    BY <2>1 DEF Straddle
  <2>3. low < Tps /\ Tps < high /\ Tps \in Nat
    BY <2>1, <2>2, MiddleFits
  <2> QED  BY <2>1, <2>2, <2>3 DEF Straddled, PassedAt, HitAt, Clean, Throttled
<1> QED  BY <1>1, <1>2, Invariant, StepStraddles, PTL DEF Spec

----------------------------------------------------------------------------
\* A nonempty set of naturals has a least member and, if bounded, a greatest.
LEMMA HasLeast ==
  ASSUME NEW S \in SUBSET Nat, S # {}
  PROVE  \E x \in S : \A y \in S : x <= y
<1>1. PICK x \in S : \A y \in S : ~(<<y, x>> \in OpToRel(<, Nat))
  BY NatLessThanWellFounded, WFMin
<1>2. ASSUME NEW y \in S PROVE x <= y
  <2>1. x \in Nat /\ y \in Nat /\ <<y, x>> \in Nat \X Nat
    OBVIOUS
  <2>2. y < x => <<y, x>> \in OpToRel(<, Nat)
    BY <2>1, Zenon DEF OpToRel
  <2>3. ~(y < x)
    BY <1>1, <2>2, Zenon
  <2> QED  BY <2>1, <2>3
<1> QED  BY <1>2

LEMMA HasGreatest ==
  ASSUME NEW S \in SUBSET Nat, S # {}, NEW B \in Nat, \A x \in S : x <= B
  PROVE  \E x \in S : \A y \in S : x >= y
<1> DEFINE Gaps == {B - x : x \in S}
<1>1. \A x \in S : B - x \in Nat
  OBVIOUS
<1>2. Gaps \in SUBSET Nat /\ Gaps # {}
  BY <1>1
<1>3. PICK g \in Gaps : \A h \in Gaps : g <= h
  BY <1>2, HasLeast
<1>4. PICK x \in S : g = B - x
  OBVIOUS
<1>5. \A y \in S : B - x <= B - y
  BY <1>3, <1>4
<1> QED  BY <1>5

LEMMA MinIsLeast ==
  ASSUME NEW S \in SUBSET Nat, S # {} PROVE Min(S) \in S
BY HasLeast DEF Min

LEMMA MaxIsMember ==
  ASSUME NEW S \in SUBSET Nat, S # {}, NEW B \in Nat, \A x \in S : x <= B
  PROVE  Max(S) \in S
BY HasGreatest DEF Max

LEMMA OfTwo ==
  ASSUME NEW x \in Int, NEW y \in Int
  PROVE  /\ Max({x, y}) \in {x, y} /\ Max({x, y}) >= x /\ Max({x, y}) >= y
         /\ Min({x, y}) \in {x, y}
<1>1. /\ \E m \in {x, y} : \A z \in {x, y} : m >= z
      /\ \E m \in {x, y} : \A z \in {x, y} : m <= z
  <2>1. CASE x <= y
    BY <2>1
  <2>2. CASE y <= x
    BY <2>2
  <2> QED  BY <2>1, <2>2
<1> QED  BY <1>1 DEF Max, Min

----------------------------------------------------------------------------
Adapting == stage \in {"expand", "bracket", "replicate"}

\* What was observed, with a bound, so that the onsets' ends exist.
Observations ==
  /\ onsets \subseteq [tps : Nat, role : Roles, hit : BOOLEAN]
  /\ \E B \in Nat : \A o \in onsets : o.tps <= B

\* Until the stage begins everything is as the search left it; it begins only
\* behind a search that selected nothing.
Handover ==
  /\ stage = "search" =>
       /\ SearchInv
       /\ aspent = 0
  /\ Adapting => outcome \in Triggers
  /\ spent \in Nat /\ stop \in BOOLEAN

\* The stage's budget is used up by the probe that ends it.
AdaptiveBook ==
  /\ stage # "over" => aspent < AdaptiveMax /\ outcome \in Outcomes
  /\ AdaptiveBudgetKept

AdaptiveInv ==
  ATypeOK /\ Observations /\ Handover /\ AdaptiveBook

LEMMA AdaptiveConstants ==
  /\ Total \in Nat \ {0} /\ AdaptiveMax \in Nat \ {0} /\ ExpansionsMax \in Nat \ {0}
  /\ BracketsMax \in Nat \ {0} /\ Factor \in Nat \ {0} /\ HardMin \in Nat \ {0}
  /\ HardMax \in Nat \ {0}
  /\ Max({ExpansionsMax, BracketsMax}) \in Nat
  /\ Max({ExpansionsMax, BracketsMax}) >= ExpansionsMax
  /\ Max({ExpansionsMax, BracketsMax}) >= BracketsMax
<1>1. /\ Total \in Nat \ {0} /\ AdaptiveMax \in Nat \ {0} /\ ExpansionsMax \in Nat \ {0}
      /\ BracketsMax \in Nat \ {0} /\ Factor \in Nat \ {0} /\ HardMin \in Nat \ {0}
      /\ HardMax \in Nat \ {0}
  BY AdaptiveAssumption
<1> QED  BY <1>1, OfTwo

\* The rates the stage probes are numbers, on both ends of an onset.
LEMMA OnsetEnds ==
  ASSUME Observations, NEW r \in Roles
  PROVE  /\ Zeros(r) \subseteq Nat /\ Hits(r) \subseteq Nat
         /\ Lower(r) \in Nat /\ Upper(r) \in Nat
<1>1. \A o \in onsets : o.tps \in Nat
  BY DEF Observations
<1>2. Zeros(r) \subseteq Nat /\ Hits(r) \subseteq Nat
  BY <1>1 DEF Zeros, Hits
<1>3. PICK B \in Nat : \A o \in onsets : o.tps <= B
  BY DEF Observations
<1>4. \A x \in Zeros(r) : x <= B
  BY <1>3 DEF Zeros
<1>5. Lower(r) \in Nat
  BY <1>2, <1>4, MaxIsMember DEF Lower
<1>6. Upper(r) \in Nat
  BY <1>2, MinIsLeast DEF Upper
<1> QED  BY <1>2, <1>5, <1>6

LEMMA RatesAreNumbers ==
  ASSUME Observations, NEW r \in Roles
  PROVE  ExpansionTps(r) \in Nat /\ MiddleTps(r) \in Nat
<1>1. Lower(r) \in Nat /\ Upper(r) \in Nat
  BY OnsetEnds
<1>2. /\ Lower(r) + Factor \in Nat /\ HardMax \in Nat
      /\ Upper(r) - Factor \in Int /\ HardMin \in Nat
  BY <1>1, AdaptiveConstants
<1>3. Min({Lower(r) + Factor, HardMax}) \in Nat
  <2>1. Lower(r) + Factor \in Int /\ HardMax \in Int
    BY <1>2
  <2>2. Min({Lower(r) + Factor, HardMax}) \in {Lower(r) + Factor, HardMax}
    BY <2>1, OfTwo
  <2> QED  BY <1>2, <2>2
<1>4. Max({Upper(r) - Factor, HardMin}) \in Nat
  <2>1. /\ Max({Upper(r) - Factor, HardMin}) \in {Upper(r) - Factor, HardMin}
        /\ Max({Upper(r) - Factor, HardMin}) >= HardMin
    BY <1>2, OfTwo
  <2> QED  BY <1>2, <2>1
<1>5. ExpansionTps(r) \in Nat
  BY <1>3, <1>4 DEF ExpansionTps
<1>6. MiddleTps(r) \in Nat
  BY <1>1 DEF MiddleTps
<1> QED  BY <1>5, <1>6

LEMMA ObservedKeeps ==
  ASSUME Observations, NEW t \in Nat, NEW r \in Roles, NEW a, Hit(a) \in BOOLEAN,
         Observed(t, r, a)
  PROVE  Observations'
<1> DEFINE o == [tps |-> t, role |-> r, hit |-> Hit(a)]
<1>1. onsets' = onsets \/ onsets' = onsets \union {o}
  BY DEF Observed
<1>2. o \in [tps : Nat, role : Roles, hit : BOOLEAN] /\ o.tps = t
  OBVIOUS
<1> HIDE DEF o
<1>3. PICK B \in Nat : \A x \in onsets : x.tps <= B
  BY DEF Observations
<1>4. \A x \in onsets : x.tps \in Nat
  BY DEF Observations
<1>5. B + t \in Nat /\ \A x \in onsets \union {o} : x.tps <= B + t
  BY <1>2, <1>3, <1>4
<1>6. \E C \in Nat : \A x \in onsets' : x.tps <= C
  BY <1>1, <1>5
<1> QED  BY <1>1, <1>2, <1>6 DEF Observations

----------------------------------------------------------------------------
LEMMA FirstSearchKeeps == ASSUME AdaptiveInv, FirstSearch PROVE AdaptiveInv'
<1>1. PICK a \in Aggregates[stop][Early(role)] : SearchStep(a) /\ Observed(Tps, role, a)
  BY DEF FirstSearch
<1>2. stage = "search" /\ UNCHANGED <<stage, arole, count, tstar, aspent, late>>
  BY DEF FirstSearch
<1>3. SearchInv /\ Next
  BY <1>1, <1>2 DEF AdaptiveInv, Handover, Next
<1>4. SearchInv'
  BY <1>3, StepKeeps
<1>5. Tps \in Nat /\ Hit(a) \in BOOLEAN /\ role \in Roles /\ Searching
  BY <1>1, <1>3, Measured DEF SearchInv, TypeOK
<1>6. Observations'
  BY <1>1, <1>5, ObservedKeeps DEF AdaptiveInv
<1>7. outcome' \in Outcomes /\ spent' \in Nat /\ stop' \in BOOLEAN
  BY <1>4 DEF SearchInv, TypeOK
<1>8. ATypeOK'
  BY <1>2, <1>6, <1>7 DEF AdaptiveInv, ATypeOK, AOutcomes, Observations
<1>9. Handover'
  BY <1>2, <1>4, <1>7 DEF AdaptiveInv, Handover, Adapting
<1>10. AdaptiveBook'
  BY <1>2, <1>7 DEF AdaptiveInv, AdaptiveBook, AdaptiveBudgetKept, Outcomes
<1> QED  BY <1>6, <1>8, <1>9, <1>10 DEF AdaptiveInv

LEMMA EnterKeeps == ASSUME AdaptiveInv, Enter PROVE AdaptiveInv'
<1>1. /\ stage = "search"
      /\ stage' = "over" \/ (stage' = "expand" /\ outcome \in Triggers)
      /\ UNCHANGED <<vars, arole, count, tstar, onsets, aspent, late>>
  BY DEF Enter
<1>2. UNCHANGED <<outcome, selected, detail, spent, stop>>
  BY <1>1 DEF vars
<1>3. Observations' /\ ATypeOK'
  BY <1>1, <1>2 DEF AdaptiveInv, Observations, ATypeOK
<1>4. Handover'
  BY <1>1, <1>2 DEF AdaptiveInv, Handover, Adapting
<1>5. AdaptiveBook'
  BY <1>1, <1>2 DEF AdaptiveInv, AdaptiveBook, AdaptiveBudgetKept
<1> QED  BY <1>3, <1>4, <1>5 DEF AdaptiveInv

\* A step of the stage that goes on, with whatever it observed and spent.
LEMMA GoesOn ==
  ASSUME AdaptiveInv, Adapting, Adapting', Observations',
         arole' \in Roles, tstar' \in Nat, aspent' \in Nat, late' \in BOOLEAN,
         count' \in 0..Max({ExpansionsMax, BracketsMax}),
         spent' \in Nat, stop' \in BOOLEAN, outcome' = outcome, aspent' < AdaptiveMax
  PROVE  AdaptiveInv'
<1>1. /\ outcome \in Triggers
      /\ Triggers \subseteq Outcomes \ {"selected", "exhausted"}
      /\ "adaptive_budget_exhausted" \notin Outcomes
  BY DEF AdaptiveInv, Handover, Triggers, Outcomes
<1>2. ATypeOK'
  BY <1>1 DEF ATypeOK, Adapting, AOutcomes, Observations
<1>3. Handover'
  BY <1>1 DEF Handover, Adapting
<1>4. AdaptiveBook'
  <2>1. aspent' < AdaptiveMax + Prewarm + RampCalls
    BY AdaptiveConstants, ProbeAssumption, RampCallsType
  <2>2. ~(aspent' >= AdaptiveMax)
    BY AdaptiveConstants
  <2> QED  BY <1>1, <2>1, <2>2 DEF AdaptiveBook, AdaptiveBudgetKept
<1> QED  BY <1>2, <1>3, <1>4 DEF AdaptiveInv

\* A step that ends the stage.
LEMMA Ends ==
  ASSUME AdaptiveInv, Adapting, stage' = "over", Observations',
         UNCHANGED <<arole, count, tstar, detail>>,
         aspent' \in Nat, late' \in BOOLEAN, spent' \in Nat, stop' \in BOOLEAN,
         outcome' \in AOutcomes,
         aspent' < AdaptiveMax + Prewarm + RampCalls,
         outcome' = "adaptive_budget_exhausted" <=> aspent' >= AdaptiveMax
  PROVE  AdaptiveInv'
<1>1. ATypeOK'
  BY DEF AdaptiveInv, ATypeOK, Observations
<1>2. Handover'
  BY DEF Handover, Adapting
<1>3. AdaptiveBook'
  BY DEF AdaptiveBook, AdaptiveBudgetKept
<1> QED  BY <1>1, <1>2, <1>3 DEF AdaptiveInv

\* A probe of the stage leaves it at its caps or by a fault; or it goes on as
\* the step says.
LEMMA DispatchKeeps ==
  ASSUME AdaptiveInv, Adapting, NEW r \in Roles, NEW t \in Nat,
         NEW ACTION after, Dispatch(r, t, after),
         after => /\ Adapting' /\ arole' \in Roles /\ tstar' = tstar
                  /\ count' \in 0..Max({ExpansionsMax, BracketsMax})
                  /\ UNCHANGED outcome
  PROVE  AdaptiveInv'
<1>1. PICK a \in Aggregates[stop][Early(r)] :
        /\ Measures(r, a) /\ Observed(t, r, a)
        /\ late' \in {late, TRUE}
        /\ UNCHANGED <<where, probes, detail>>
        /\ IF ScheduleFault(a)
             THEN stage' = "over" /\ UNCHANGED <<arole, count, tstar, aspent, outcome, selected>>
             ELSE /\ aspent' = aspent + a.report.cost
                  /\ IF CapHalted THEN Finish(CapOutcome, 0) ELSE after
  BY DEF Dispatch
<1>2. /\ stop \in BOOLEAN /\ spent \in Nat /\ aspent \in Nat /\ late \in BOOLEAN
      /\ tstar \in Nat /\ Observations
      /\ aspent < AdaptiveMax /\ outcome \in Triggers
      /\ aspent < AdaptiveMax + Prewarm + RampCalls
  BY DEF AdaptiveInv, ATypeOK, Handover, AdaptiveBook, AdaptiveBudgetKept, Adapting
<1> DEFINE cost == a.report.cost
<1>3. cost \in Nat /\ cost <= Prewarm + RampCalls /\ Hit(a) \in BOOLEAN
  BY <1>1, <1>2, ProbeFacts
<1>4. Observations'
  BY <1>1, <1>2, <1>3, ObservedKeeps
<1>5. /\ spent' = spent + cost /\ stop' = (stop \/ spent' >= Threshold)
  BY <1>1 DEF Measures
<1> HIDE DEF cost
<1>6. spent' \in Nat /\ stop' \in BOOLEAN /\ late' \in BOOLEAN
  <2>1. spent' \in Nat
    BY <1>2, <1>3, <1>5
  <2>2. stop' \in BOOLEAN
    BY <1>5
  <2>3. late' \in BOOLEAN
    BY <1>1, <1>2
  <2> QED  BY <2>1, <2>2, <2>3
<1>7. outcome \in AOutcomes \ {"selected", "adaptive_budget_exhausted"}
  BY <1>2 DEF Triggers, AOutcomes, Outcomes
<1>8. CASE ScheduleFault(a)
  <2>1. /\ stage' = "over"
        /\ UNCHANGED <<arole, count, tstar, detail, aspent, outcome, selected>>
    BY <1>1, <1>8
  <2>2. ~(aspent >= AdaptiveMax)
    BY <1>2, AdaptiveConstants
  <2> QED  BY <1>2, <1>4, <1>6, <1>7, <2>1, <2>2, Ends
<1>9. CASE ~ScheduleFault(a)
  <2>1. /\ aspent' = aspent + cost
        /\ IF CapHalted THEN Finish(CapOutcome, 0) ELSE after
    BY <1>1, <1>9 DEF cost
  <2>2. aspent' \in Nat /\ aspent' < AdaptiveMax + Prewarm + RampCalls
    BY <1>2, <1>3, <2>1, AdaptiveConstants, ProbeAssumption, RampCallsType
  <2>3. CASE CapHalted
    <3>1. /\ stage' = "over" /\ outcome' = CapOutcome /\ selected' = 0
          /\ UNCHANGED <<arole, count, tstar, detail>>
      BY <1>1, <2>1, <2>3 DEF Finish
    <3>2. /\ outcome' \in AOutcomes \ {"selected"}
          /\ outcome' = "adaptive_budget_exhausted" <=> aspent' >= AdaptiveMax
      BY <3>1 DEF CapOutcome, AOutcomes, Outcomes
    <3> QED  BY <1>4, <1>6, <2>2, <3>1, <3>2, Ends
  <2>4. CASE ~CapHalted
    <3>1. aspent' < AdaptiveMax
      BY <2>2, <2>4, AdaptiveConstants DEF CapHalted
    <3>2. after
      BY <2>1, <2>4
    <3> QED  BY <1>2, <1>4, <1>6, <2>2, <3>1, <3>2, GoesOn
  <2> QED  BY <2>3, <2>4
<1> QED  BY <1>8, <1>9

LEMMA ExpandKeeps == ASSUME AdaptiveInv, Expand PROVE AdaptiveInv'
<1>1. /\ stage = "expand" /\ MayExpand(arole)
      /\ Dispatch(arole, ExpansionTps(arole), Counted)
  BY DEF Expand
<1>2. Adapting /\ arole \in Roles /\ Observations
  BY <1>1 DEF AdaptiveInv, Adapting, ATypeOK
<1>3. ExpansionTps(arole) \in Nat
  BY <1>2, RatesAreNumbers
<1>4. count + 1 \in 0..Max({ExpansionsMax, BracketsMax})
  BY <1>1, AdaptiveConstants DEF AdaptiveInv, ATypeOK, MayExpand
<1>5. Counted => /\ Adapting' /\ arole' \in Roles /\ tstar' = tstar
                 /\ count' \in 0..Max({ExpansionsMax, BracketsMax}) /\ UNCHANGED outcome
  BY <1>2, <1>4 DEF Counted, Adapting
<1> QED  BY <1>1, <1>2, <1>3, <1>5, DispatchKeeps

LEMMA BracketKeeps == ASSUME AdaptiveInv, Bracket PROVE AdaptiveInv'
<1>1. /\ stage = "bracket" /\ MayBracket(arole)
      /\ Dispatch(arole, MiddleTps(arole), Counted)
  BY DEF Bracket
<1>2. Adapting /\ arole \in Roles /\ Observations
  BY <1>1 DEF AdaptiveInv, Adapting, ATypeOK
<1>3. MiddleTps(arole) \in Nat
  BY <1>2, RatesAreNumbers
<1>4. count + 1 \in 0..Max({ExpansionsMax, BracketsMax})
  BY <1>1, AdaptiveConstants DEF AdaptiveInv, ATypeOK, MayBracket
<1>5. Counted => /\ Adapting' /\ arole' \in Roles /\ tstar' = tstar
                 /\ count' \in 0..Max({ExpansionsMax, BracketsMax}) /\ UNCHANGED outcome
  BY <1>2, <1>4 DEF Counted, Adapting
<1> QED  BY <1>1, <1>2, <1>3, <1>5, DispatchKeeps

LEMMA ReplicateKeeps == ASSUME AdaptiveInv, Replicate PROVE AdaptiveInv'
<1> DEFINE after == IF arole = "largest"
         THEN arole' = "control" /\ UNCHANGED <<stage, count, tstar, outcome, selected>>
         ELSE count' = 1 /\ UNCHANGED <<stage, arole, tstar, outcome, selected>>
<1>1. stage = "replicate" /\ count = 0 /\ Dispatch(arole, tstar, after)
  BY DEF Replicate
<1>2. Adapting /\ arole \in Roles /\ tstar \in Nat
      /\ count \in 0..Max({ExpansionsMax, BracketsMax})
  BY <1>1 DEF AdaptiveInv, Adapting, ATypeOK
<1>3. 1 \in 0..Max({ExpansionsMax, BracketsMax}) /\ "control" \in Roles
  BY AdaptiveConstants DEF Roles
<1>4. after => /\ Adapting' /\ arole' \in Roles /\ tstar' = tstar
               /\ count' \in 0..Max({ExpansionsMax, BracketsMax}) /\ UNCHANGED outcome
  BY <1>2, <1>3 DEF Adapting
<1> QED  BY <1>1, <1>2, <1>4, DispatchKeeps

\* A step without a probe.
LEMMA QuietFacts ==
  ASSUME AdaptiveInv, Adapting, Quiet, late' \in {late, TRUE}
  PROVE  /\ Observations' /\ late' \in BOOLEAN
         /\ UNCHANGED <<detail, onsets>>
         /\ aspent' \in Nat /\ aspent' = aspent /\ aspent' < AdaptiveMax
         /\ aspent' < AdaptiveMax + Prewarm + RampCalls /\ ~(aspent' >= AdaptiveMax)
         /\ spent' \in Nat /\ stop' \in BOOLEAN /\ outcome \in Triggers
<1>1. UNCHANGED <<spent, stop, detail, onsets, aspent>>
  BY DEF Quiet
<1>2. /\ aspent \in Nat /\ aspent < AdaptiveMax /\ spent \in Nat /\ stop \in BOOLEAN
      /\ late \in BOOLEAN /\ outcome \in Triggers
      /\ aspent < AdaptiveMax + Prewarm + RampCalls
  BY DEF AdaptiveInv, ATypeOK, Handover, AdaptiveBook, AdaptiveBudgetKept, Adapting
<1>3. Observations'
  BY <1>1 DEF AdaptiveInv, Observations
<1>4. ~(aspent >= AdaptiveMax)
  BY <1>2, AdaptiveConstants
<1> QED  BY <1>1, <1>2, <1>3, <1>4

LEMMA NextRoleKeeps == ASSUME AdaptiveInv, NextRole PROVE AdaptiveInv'
<1>1. /\ stage \in {"expand", "bracket"} /\ stage' \in {"expand", "bracket"}
      /\ count' = 0 /\ arole' \in Roles /\ Quiet /\ UNCHANGED <<tstar, outcome, late>>
  BY DEF NextRole, Roles
<1>2. Adapting /\ Adapting' /\ tstar' \in Nat
  BY <1>1 DEF Adapting, AdaptiveInv, ATypeOK
<1>3. count' \in 0..Max({ExpansionsMax, BracketsMax})
  BY <1>1, AdaptiveConstants
<1> QED  BY <1>1, <1>2, <1>3, QuietFacts, GoesOn

\* A step without a probe that ends the stage.
LEMMA FinishKeeps ==
  ASSUME AdaptiveInv, Adapting, Quiet, late' \in {late, TRUE},
         NEW o \in AOutcomes \ {"adaptive_budget_exhausted"}, NEW t, Finish(o, t)
  PROVE  AdaptiveInv'
<1>1. /\ stage' = "over" /\ outcome' = o /\ selected' = t
      /\ UNCHANGED <<arole, count, tstar>>
  BY DEF Finish
<1> QED  BY <1>1, QuietFacts, Ends

LEMMA ConcludeKeeps ==
  ASSUME AdaptiveInv, Adapting, Quiet, late' \in {late, TRUE}, Conclude
  PROVE  AdaptiveInv'
<1>1. \/ Finish("adaptive_wall_time_exhausted", 0)
      \/ Finish("no_promotable_contrast", 0)
  BY QuietFacts DEF Conclude, CapOutcome
<1> QED  BY <1>1, FinishKeeps DEF AOutcomes

LEMMA EvaluateKeeps == ASSUME AdaptiveInv, Evaluate PROVE AdaptiveInv'
<1>1. stage = "bracket" /\ Quiet /\ late' \in {late, TRUE}
  BY DEF Evaluate
<1>2. Adapting /\ Observations
  BY <1>1 DEF Adapting, AdaptiveInv
<1>3. CASE Paired # {}
  <2>1. Finish("selected", Min(Paired))
    BY <1>3 DEF Evaluate
  <2> QED  BY <1>1, <1>2, <2>1, FinishKeeps DEF AOutcomes, Outcomes
<1>4. CASE Paired = {} /\ Separated
  <2>1. /\ stage' = "replicate" /\ arole' = "largest" /\ count' = 0
        /\ tstar' = (Upper("largest") + Lower("control")) \div 2
        /\ UNCHANGED <<outcome, selected>>
    BY <1>4 DEF Evaluate
  <2>2. Upper("largest") \in Nat /\ Lower("control") \in Nat
    BY <1>2, OnsetEnds DEF Roles
  <2>3. tstar' \in Nat /\ arole' \in Roles /\ Adapting'
    BY <2>1, <2>2 DEF Roles, Adapting
  <2>4. count' \in 0..Max({ExpansionsMax, BracketsMax})
    BY <2>1, AdaptiveConstants
  <2> QED  BY <1>1, <1>2, <2>1, <2>3, <2>4, QuietFacts, GoesOn
<1>5. CASE Paired = {} /\ ~Separated
  <2>1. Conclude
    BY <1>5 DEF Evaluate
  <2> QED  BY <1>1, <1>2, <2>1, ConcludeKeeps
<1> QED  BY <1>3, <1>4, <1>5

LEMMA AdmissionKeeps == ASSUME AdaptiveInv, Admit PROVE AdaptiveInv'
<1>1. stage = "replicate" /\ Quiet /\ late' \in {late, TRUE}
  BY DEF Admit
<1>2. Adapting
  BY <1>1 DEF Adapting
<1>3. CASE PairedAt(tstar)
  <2>1. Finish("selected", tstar)
    BY <1>3 DEF Admit
  <2> QED  BY <1>1, <1>2, <1>3, <2>1, FinishKeeps DEF AOutcomes, Outcomes
<1>4. CASE ~PairedAt(tstar)
  <2>1. Conclude
    BY <1>4 DEF Admit
  <2> QED  BY <1>1, <1>2, <2>1, ConcludeKeeps
<1> QED  BY <1>3, <1>4

LEMMA AdaptiveNext == AdaptiveInv /\ [ANext]_allvars => AdaptiveInv'
<1> SUFFICES ASSUME AdaptiveInv, [ANext]_allvars PROVE AdaptiveInv'
  OBVIOUS
<1>1. CASE ANext
  BY <1>1, FirstSearchKeeps, EnterKeeps, ExpandKeeps, BracketKeeps, NextRoleKeeps,
     EvaluateKeeps, ReplicateKeeps, AdmissionKeeps DEF ANext
<1>2. CASE UNCHANGED allvars
  <2>1. UNCHANGED vars /\ UNCHANGED <<stage, arole, count, tstar, onsets, aspent, late>>
    BY <1>2 DEF allvars, avars
  <2>2. UNCHANGED <<outcome, selected, detail, spent, stop>>
    BY <2>1 DEF vars
  <2>3. SearchInv => SearchInv'
    BY <2>1, StepKeeps
  <2> QED  BY <2>1, <2>2, <2>3 DEF AdaptiveInv, ATypeOK, Observations, Handover,
               AdaptiveBook, AdaptiveBudgetKept, Adapting
<1> QED  BY <1>1, <1>2

LEMMA AdaptiveInit == AInit => AdaptiveInv
<1> SUFFICES ASSUME AInit PROVE AdaptiveInv
  OBVIOUS
<1>1. SearchInv /\ outcome = "none" /\ spent = 0 /\ stop = FALSE
  BY InitHolds DEF AInit, Init
<1>2. /\ stage = "search" /\ arole = "largest" /\ count = 0 /\ tstar = 0
      /\ onsets = {} /\ aspent = 0 /\ late = FALSE
  BY DEF AInit
<1>3. Observations
  BY <1>2 DEF Observations
<1>4. ATypeOK
  <2>1. count \in 0..Max({ExpansionsMax, BracketsMax})
    BY <1>2, AdaptiveConstants
  <2>2. outcome \in AOutcomes /\ arole \in Roles
    BY <1>1, <1>2 DEF AOutcomes, Outcomes, Roles
  <2> QED  BY <1>2, <2>1, <2>2 DEF ATypeOK
<1>5. Handover
  BY <1>1, <1>2 DEF Handover, Adapting
<1>6. AdaptiveBook
  BY <1>1, <1>2, AdaptiveConstants, ProbeAssumption, RampCallsType
     DEF AdaptiveBook, AdaptiveBudgetKept, Outcomes
<1> QED  BY <1>3, <1>4, <1>5, <1>6 DEF AdaptiveInv

LEMMA AdaptiveInvariant == ASpec => []AdaptiveInv
BY AdaptiveInit, AdaptiveNext, PTL DEF ASpec

----------------------------------------------------------------------------
(* Every reachable state of both searches is type correct.                  *)
THEOREM AdaptiveTypeCorrect == ASpec => []ATypeOK
<1>1. AdaptiveInv => ATypeOK
  BY DEF AdaptiveInv
<1> QED  BY <1>1, AdaptiveInvariant, PTL

(* The stage's budget is overshot by less than one probe, and is named as   *)
(* the reason exactly when it is used up.                                   *)
THEOREM AdaptiveOvershootIsOneProbe == ASpec => []AdaptiveBudgetKept
<1>1. AdaptiveInv => AdaptiveBudgetKept
  BY DEF AdaptiveInv, AdaptiveBook
<1> QED  BY <1>1, AdaptiveInvariant, PTL

(* No step takes back or replaces a selection, or probes past a budget stop *)
(* that was reported.                                                       *)
THEOREM SelectionStands == ASpec => NeverOverridden
<1>1. AdaptiveInv /\ [ANext]_allvars =>
        [(outcome \in {"selected", "exhausted"} =>
            UNCHANGED <<outcome, selected, spent>>)]_allvars
  <2> SUFFICES ASSUME AdaptiveInv, ANext, outcome \in {"selected", "exhausted"}
               PROVE  UNCHANGED <<outcome, selected, spent>>
    OBVIOUS
  <2>1. ~Adapting
    BY DEF AdaptiveInv, Handover, Triggers
  <2>2. ~FirstSearch
    BY DEF FirstSearch, SearchStep, AdaptiveInv, Handover, SearchInv, Behind, Searching
  <2>3. Enter
    BY <2>1, <2>2 DEF ANext, Adapting, Expand, Bracket, NextRole, Evaluate, Replicate, Admit
  <2> QED  BY <2>3 DEF Enter, vars
<1> QED  BY <1>1, AdaptiveInvariant, PTL DEF ASpec, NeverOverridden

----------------------------------------------------------------------------
(* The stage runs down as well: a probe of a step counts against the step's  *)
(* limit for its role, and every step is taken once for each role.           *)
CountInv ==
  /\ stage = "search" => count = 0
  /\ stage = "expand" => count <= ExpansionsMax
  /\ stage = "bracket" => count <= BracketsMax
  /\ stage = "replicate" => count = 0 \/ (arole = "control" /\ count = 1)

\* The probes a role may still get in a step, and the turn to what follows.
Turns(most) == (most - count) + 1

AfterBrackets == 3
AfterExpansions == 2 * (BracketsMax + 1) + AfterBrackets
AfterSearch == 2 * (ExpansionsMax + 1) + AfterExpansions

StepsLeft ==
  CASE stage = "search" -> ProbesLeft + 1 + AfterSearch
    [] stage = "expand" ->
         Turns(ExpansionsMax) + (IF arole = "largest" THEN ExpansionsMax + 1 ELSE 0)
           + AfterExpansions
    [] stage = "bracket" ->
         Turns(BracketsMax) + (IF arole = "largest" THEN BracketsMax + 1 ELSE 0)
           + AfterBrackets
    [] stage = "replicate" -> IF arole = "largest" THEN 3 ELSE 2 - count
    [] OTHER -> 0

\* A probe of the stage ends it, or it goes on as the step says.
LEMMA DispatchGoesOn ==
  ASSUME NEW r, NEW t, NEW ACTION after, Dispatch(r, t, after)
  PROVE  stage' = "over" \/ after
BY DEF Dispatch, Finish

LEMMA PlusMonotone ==
  ASSUME NEW x \in Nat, NEW y \in Nat, x < y, NEW k \in Nat
  PROVE  x + (1 + k) < y + (1 + k)
OBVIOUS

LEMMA RunningDown ==
  ASSUME AdaptiveInv, CountInv, ANext
  PROVE  CountInv' /\ StepsLeft' < StepsLeft
<1> USE DEF AfterBrackets, AfterExpansions, AfterSearch
<1>1. /\ ExpansionsMax \in Nat \ {0} /\ BracketsMax \in Nat \ {0}
      /\ count \in Nat /\ arole \in Roles
      /\ stage \in {"search", "expand", "bracket", "replicate", "over"}
  BY AdaptiveConstants DEF AdaptiveInv, ATypeOK
<1>s. AfterSearch \in Nat
  BY <1>1
<1>2. stage \in {"expand", "bracket", "replicate"} => StepsLeft \in Nat \ {0}
  BY <1>1 DEF CountInv, StepsLeft, Turns
<1>3. CASE FirstSearch
  <2>1. stage = "search" /\ stage' = "search" /\ SearchInv /\ Next
    BY <1>3 DEF FirstSearch, Next, AdaptiveInv, Handover
  <2>2. ProbesLeft' < ProbesLeft /\ ProbesLeft \in Nat /\ ProbesLeft' \in Nat
    <3>1. SearchInv /\ TypeOK /\ TypeOK'
      BY <2>1, StepKeeps DEF SearchInv
    <3>2. ProbesLeft \in 0..MostProbes /\ ProbesLeft' \in 0..MostProbes
      BY <3>1, ProbesLeftBound, ProbesLeftBoundNext
    <3> QED  BY <2>1, <3>1, <3>2, StepRunsDown, LengthFacts
  <2>3. StepsLeft = ProbesLeft + (1 + AfterSearch) /\ StepsLeft' = ProbesLeft' + (1 + AfterSearch)
    BY <1>1, <2>1, <2>2 DEF StepsLeft
  <2>4. CountInv'
    BY <1>1, <1>3, <2>1 DEF CountInv, FirstSearch
  <2> HIDE DEF AfterSearch
  <2>5. ProbesLeft' + (1 + AfterSearch) < ProbesLeft + (1 + AfterSearch)
    BY <1>s, <2>2, PlusMonotone
  <2> QED  BY <1>s, <2>3, <2>4, <2>5
<1>4. CASE Enter
  <2>1. /\ stage = "search" /\ stage' \in {"expand", "over"} /\ UNCHANGED <<arole, count>>
        /\ ProbesLeft \in Nat
    BY <1>4, ProbesLeftBound, LengthFacts DEF Enter, AdaptiveInv, Handover, SearchInv
  <2>2. StepsLeft = ProbesLeft + (1 + AfterSearch)
    BY <1>1, <2>1 DEF StepsLeft
  <2>3. CASE stage' = "over"
    BY <1>s, <2>1, <2>2, <2>3 DEF CountInv, StepsLeft
  <2>4. CASE stage' = "expand"
    <3>1. count' = 0 /\ arole' \in Roles
      BY <1>1, <2>1 DEF CountInv
    <3>2. StepsLeft' <= AfterSearch
      BY <1>1, <2>4, <3>1 DEF StepsLeft, Turns
    <3>3. CountInv'
      BY <1>1, <2>4, <3>1 DEF CountInv
    <3>4. StepsLeft' \in Int
      BY <1>1, <2>4, <3>1 DEF StepsLeft, Turns
    <3> HIDE DEF AfterSearch
    <3> QED  BY <1>s, <2>1, <2>2, <3>2, <3>3, <3>4
  <2> QED  BY <2>1, <2>3, <2>4
<1>5. ASSUME stage' = "over", Adapting PROVE CountInv' /\ StepsLeft' < StepsLeft
  BY <1>2, <1>5 DEF Adapting, CountInv, StepsLeft
<1>6. CASE Expand
  <2>1. stage = "expand" /\ count < ExpansionsMax /\ (stage' = "over" \/ Counted)
    BY <1>6, DispatchGoesOn DEF Expand, MayExpand
  <2>2. CASE Counted
    BY <1>1, <2>1, <2>2 DEF Counted, CountInv, StepsLeft, Turns
  <2> QED  BY <1>5, <2>1, <2>2 DEF Adapting
<1>7. CASE Bracket
  <2>1. stage = "bracket" /\ count < BracketsMax /\ (stage' = "over" \/ Counted)
    BY <1>7, DispatchGoesOn DEF Bracket, MayBracket
  <2>2. CASE Counted
    BY <1>1, <2>1, <2>2 DEF Counted, CountInv, StepsLeft, Turns
  <2> QED  BY <1>5, <2>1, <2>2 DEF Adapting
<1>8. CASE NextRole
  BY <1>1, <1>8 DEF NextRole, CountInv, StepsLeft, Turns, Roles
<1>9. CASE Evaluate
  <2>1. stage = "bracket" /\ arole = "control"
    BY <1>9 DEF Evaluate
  <2>2. \/ stage' = "over"
        \/ stage' = "replicate" /\ arole' = "largest" /\ count' = 0
    BY <1>9 DEF Evaluate, Conclude, Finish
  <2> QED  BY <1>1, <1>5, <2>1, <2>2 DEF Adapting, CountInv, StepsLeft, Turns
<1>10. CASE Replicate
  <2>1. /\ stage = "replicate" /\ count = 0
        /\ \/ stage' = "over"
           \/ stage' = stage /\ arole = "largest" /\ arole' = "control" /\ count' = count
           \/ stage' = stage /\ arole # "largest" /\ arole' = arole /\ count' = 1
    <3> DEFINE After == IF arole = "largest"
                        THEN arole' = "control" /\ UNCHANGED <<stage, count, tstar, outcome, selected>>
                        ELSE count' = 1 /\ UNCHANGED <<stage, arole, tstar, outcome, selected>>
    <3>1. stage = "replicate" /\ count = 0 /\ Dispatch(arole, tstar, After)
      BY <1>10 DEF Replicate
    <3>2. stage' = "over" \/ After
      BY <3>1, DispatchGoesOn
    <3> QED  BY <3>1, <3>2
  <2> QED  BY <1>1, <1>5, <2>1 DEF Adapting, CountInv, StepsLeft, Roles
<1>11. CASE Admit
  BY <1>5, <1>11 DEF Admit, Conclude, Finish, Adapting
<1> QED
  BY <1>3, <1>4, <1>6, <1>7, <1>8, <1>9, <1>10, <1>11 DEF ANext

LEMMA CountInvariant == ASpec => [](AdaptiveInv /\ CountInv)
<1>1. AInit => CountInv
  BY DEF AInit, CountInv
<1>2. AdaptiveInv /\ CountInv /\ [ANext]_allvars => CountInv'
  BY RunningDown DEF CountInv, allvars, avars
<1> QED  BY <1>1, <1>2, AdaptiveInvariant, PTL DEF ASpec

\* Both searches together take at most the steps that the grids, the bracket and
\* the stage's limits allow, whatever the probes report and the budgets leave.
THEOREM SweepIsBounded ==
  ASpec => [](StepsLeft \in 0..(MostProbes + 1 + AfterSearch)) /\ [][StepsLeft' < StepsLeft]_allvars
<1>1. ASSUME AdaptiveInv, CountInv PROVE StepsLeft \in 0..(MostProbes + 1 + AfterSearch)
  <2>1. /\ ExpansionsMax \in Nat \ {0} /\ BracketsMax \in Nat \ {0}
        /\ count \in Nat /\ arole \in Roles
        /\ stage \in {"search", "expand", "bracket", "replicate", "over"}
        /\ MostProbes \in Nat
    BY <1>1, AdaptiveConstants, LengthFacts DEF AdaptiveInv, ATypeOK
  <2>2. stage = "search" => ProbesLeft \in 0..MostProbes
    BY <1>1, ProbesLeftBound DEF AdaptiveInv, Handover, SearchInv
  <2> QED  BY <1>1, <2>1, <2>2
           DEF CountInv, StepsLeft, Turns, AfterBrackets, AfterExpansions, AfterSearch
<1>2. AdaptiveInv /\ CountInv /\ [ANext]_allvars => [StepsLeft' < StepsLeft]_allvars
  BY RunningDown
<1> QED  BY <1>1, <1>2, CountInvariant, PTL DEF ASpec

----------------------------------------------------------------------------
(* The total budget.  A probe awaited under the stop event costs a warm-up, *)
(* so that what the stage may still spend is known from its limits alone.   *)
ProbesToCome ==
  CASE stage = "expand" ->
         (ExpansionsMax - count) + (IF arole = "largest" THEN ExpansionsMax ELSE 0)
           + 2 * BracketsMax + 2
    [] stage = "bracket" ->
         (BracketsMax - count) + (IF arole = "largest" THEN BracketsMax ELSE 0) + 2
    [] stage = "replicate" -> IF arole = "largest" THEN 2 ELSE 1 - count
    [] OTHER -> 0

MostTotal == Threshold + (Prewarm + RampCalls) + Prewarm * (1 + StageProbes)

StopBook ==
  /\ ~stop => spent < Threshold
  /\ stage = "search" => spent < Threshold + (Prewarm + RampCalls) + Prewarm
  /\ stage # "search" => spent + Prewarm * ProbesToCome < MostTotal

LEMMA WarmUps ==
  ASSUME NEW p \in Nat, NEW m \in Nat, NEW n \in Nat
  PROVE  /\ p * m \in Nat
         /\ m <= n => p * m <= p * n
         /\ m < n => p * m + p <= p * n
         /\ p * (1 + n) = p + p * n
<1>1. p * m \in Nat /\ p * n \in Nat /\ p * (1 + n) = p + p * n
  OBVIOUS
<1>2. ASSUME m <= n PROVE p * m <= p * n
  <2>1. n - m \in Nat /\ n = m + (n - m)
    BY <1>2
  <2>2. p * (n - m) \in Nat
    BY <2>1
  <2>3. p * n = p * m + p * (n - m)
    BY <2>1
  <2> QED  BY <1>1, <2>2, <2>3
<1>3. ASSUME m < n PROVE p * m + p <= p * n
  <2>1. n - (m + 1) \in Nat /\ n = (m + 1) + (n - (m + 1))
    BY <1>3
  <2>2. p * (n - (m + 1)) \in Nat
    BY <2>1
  <2>3. p * n = p * m + p + p * (n - (m + 1))
    BY <2>1
  <2> QED  BY <1>1, <2>2, <2>3
<1> QED  BY <1>1, <1>2, <1>3

LEMMA ToComeBound ==
  ASSUME AdaptiveInv, CountInv PROVE ProbesToCome \in 0..StageProbes
<1>1. /\ ExpansionsMax \in Nat \ {0} /\ BracketsMax \in Nat \ {0}
      /\ count \in Nat /\ arole \in Roles
      /\ stage \in {"search", "expand", "bracket", "replicate", "over"}
  BY AdaptiveConstants DEF AdaptiveInv, ATypeOK
<1> QED  BY <1>1 DEF CountInv, ProbesToCome, StageProbes

LEMMA StageConstants ==
  /\ Threshold \in Nat /\ Prewarm \in Nat /\ RampCalls \in Nat /\ StageProbes \in Nat
  /\ MostTotal = Threshold + (Prewarm + RampCalls) + (Prewarm + Prewarm * StageProbes)
  /\ Prewarm * StageProbes \in Nat
<1>1. /\ Threshold \in Nat /\ Prewarm \in Nat /\ RampCalls \in Nat /\ StageProbes \in Nat
  BY SearchAssumption, ProbeAssumption, RampCallsType, AdaptiveConstants DEF StageProbes
<1>2. Prewarm * (1 + StageProbes) = Prewarm + Prewarm * StageProbes
      /\ Prewarm * StageProbes \in Nat
  BY <1>1, WarmUps
<1> QED  BY <1>1, <1>2 DEF MostTotal

\* A probe of the stage uses one of those to come, and pays for a ramp only
\* while the event is not set.
LEMMA StageProbePays ==
  ASSUME AdaptiveInv, CountInv, StopBook, Adapting, NEW r \in Roles, NEW t,
         NEW ACTION after, Dispatch(r, t, after),
         stage' # "search", ProbesToCome' \in Nat, ProbesToCome' < ProbesToCome
  PROVE  StopBook'
<1>1. PICK a \in Aggregates[stop][Early(r)] : Measures(r, a)
  BY DEF Dispatch
<1>2. stop \in BOOLEAN /\ spent \in Nat
  BY DEF AdaptiveInv, Handover
<1> DEFINE cost == a.report.cost
<1>3. cost \in Nat /\ cost <= Prewarm + RampCalls /\ (stop => cost = Prewarm)
  BY <1>1, <1>2, ProbeFacts
<1>4. spent' = spent + cost /\ stop' = (stop \/ spent' >= Threshold)
  BY <1>1 DEF Measures
<1> HIDE DEF cost
<1> DEFINE m == ProbesToCome' n == ProbesToCome
<1>5. m \in Nat /\ n \in 0..StageProbes /\ m < n
  BY ToComeBound
<1>6. /\ spent + Prewarm * n < MostTotal
      /\ ~stop => spent < Threshold
  BY DEF StopBook, Adapting
<1>7. spent' + Prewarm * m < MostTotal
  <2> HIDE DEF m, n
  <2>1. /\ Prewarm * m \in Nat /\ Prewarm * n \in Nat
        /\ Prewarm * m + Prewarm <= Prewarm * n
        /\ Prewarm * m <= Prewarm * StageProbes
    BY <1>5, StageConstants, WarmUps
  <2> DEFINE pm == Prewarm * m pn == Prewarm * n ps == Prewarm * StageProbes
  <2>2. /\ pm \in Nat /\ pn \in Nat /\ ps \in Nat /\ pm + Prewarm <= pn /\ pm <= ps
        /\ spent + pn < MostTotal
        /\ MostTotal = Threshold + (Prewarm + RampCalls) + (Prewarm + ps)
    BY <1>6, <2>1, StageConstants
  <2> HIDE DEF pm, pn, ps
  <2>3. spent' + pm < MostTotal
    BY <1>2, <1>3, <1>4, <1>6, <2>2, StageConstants
  <2> QED  BY <2>3 DEF pm
<1>8. ~stop' => spent' < Threshold
  <2>1. spent' \in Nat
    BY <1>2, <1>3, <1>4
  <2>2. ~stop' => ~(spent' >= Threshold)
    BY <1>4, Zenon
  <2>3. ~(spent' >= Threshold) => spent' < Threshold
    BY <2>1, StageConstants
  <2> QED  BY <2>2, <2>3
<1> QED  BY <1>7, <1>8 DEF StopBook

\* A step without a probe leaves the books, and no more probes to come.
LEMMA QuietPays ==
  ASSUME AdaptiveInv, CountInv, StopBook, Adapting, Quiet,
         stage' # "search", ProbesToCome' \in Nat, ProbesToCome' <= ProbesToCome
  PROVE  StopBook'
<1> DEFINE m == ProbesToCome' n == ProbesToCome
<1>1. m \in Nat /\ n \in Nat /\ m <= n
  BY ToComeBound
<1>2. /\ spent \in Nat /\ UNCHANGED <<spent, stop>>
      /\ spent + Prewarm * n < MostTotal /\ (~stop => spent < Threshold)
  BY DEF AdaptiveInv, Handover, Quiet, StopBook, Adapting
<1>3. spent' + Prewarm * m < MostTotal
  <2> HIDE DEF m, n
  <2> DEFINE pm == Prewarm * m pn == Prewarm * n
  <2>1. pm \in Nat /\ pn \in Nat /\ pm <= pn
    BY <1>1, StageConstants, WarmUps
  <2>2. spent + pn < MostTotal /\ spent \in Nat /\ spent' = spent /\ MostTotal \in Nat
    BY <1>2, StageConstants
  <2> HIDE DEF pm, pn
  <2>3. spent' + pm < MostTotal
    BY <2>1, <2>2
  <2> QED  BY <2>3 DEF pm
<1> QED  BY <1>2, <1>3 DEF StopBook

LEMMA StopBookKeeps ==
  ASSUME AdaptiveInv, CountInv, StopBook, ANext PROVE StopBook'
<1>1. /\ ExpansionsMax \in Nat \ {0} /\ BracketsMax \in Nat \ {0}
      /\ count \in Nat /\ arole \in Roles
      /\ stage \in {"search", "expand", "bracket", "replicate", "over"}
  BY AdaptiveConstants DEF AdaptiveInv, ATypeOK
<1>2. CASE FirstSearch
  <2>1. stage = "search" /\ stage' = "search" /\ SearchInv /\ Next
    BY <1>2 DEF FirstSearch, Next, AdaptiveInv, Handover
  <2>2. SearchInv'
    BY <2>1, StepKeeps
  <2>3. (~stop => spent < Threshold)' /\ OvershootBounded' /\ spent' \in Nat
    BY <2>2, StageConstants DEF SearchInv, Budget, TypeOK
  <2> QED  BY <2>1, <2>3 DEF StopBook, OvershootBounded
<1>3. CASE Enter
  <2>1. /\ stage = "search" /\ stage' \in {"expand", "over"} /\ UNCHANGED <<arole, count>>
        /\ UNCHANGED <<spent, stop>> /\ count = 0 /\ spent \in Nat
    BY <1>3 DEF Enter, vars, CountInv, AdaptiveInv, Handover
  <2>2. ProbesToCome' \in 0..StageProbes
    BY <1>1, <2>1 DEF ProbesToCome, StageProbes
  <2> DEFINE m == ProbesToCome'
  <2>3. Prewarm * m \in Nat /\ Prewarm * m <= Prewarm * StageProbes
    <3>1. m \in Nat /\ m <= StageProbes
      BY <2>2, StageConstants
    <3> HIDE DEF m
    <3> QED  BY <3>1, StageConstants, WarmUps
  <2>4. spent' + Prewarm * m < MostTotal
    <3> DEFINE pm == Prewarm * m ps == Prewarm * StageProbes
    <3>1. /\ pm \in Nat /\ ps \in Nat /\ pm <= ps /\ spent' = spent
          /\ spent < Threshold + (Prewarm + RampCalls) + Prewarm
          /\ MostTotal = Threshold + (Prewarm + RampCalls) + (Prewarm + ps)
      BY <2>1, <2>3, StageConstants DEF StopBook
    <3> HIDE DEF pm, ps
    <3>2. spent' + pm < MostTotal
      BY <2>1, <3>1, StageConstants
    <3> QED  BY <3>2 DEF pm
  <2> QED  BY <2>1, <2>4 DEF StopBook
<1>4. CASE Expand
  <2>1. /\ stage = "expand" /\ count < ExpansionsMax /\ (stage' = "over" \/ Counted)
        /\ \E t : Dispatch(arole, t, Counted)
    BY <1>4, DispatchGoesOn DEF Expand, MayExpand
  <2>2. stage' # "search" /\ ProbesToCome' \in Nat /\ ProbesToCome' < ProbesToCome
    BY <1>1, <2>1 DEF Counted, ProbesToCome
  <2> QED  BY <1>1, <2>1, <2>2, StageProbePays DEF Adapting
<1>5. CASE Bracket
  <2>1. /\ stage = "bracket" /\ count < BracketsMax /\ (stage' = "over" \/ Counted)
        /\ \E t : Dispatch(arole, t, Counted)
    BY <1>5, DispatchGoesOn DEF Bracket, MayBracket
  <2>2. stage' # "search" /\ ProbesToCome' \in Nat /\ ProbesToCome' < ProbesToCome
    BY <1>1, <2>1 DEF Counted, ProbesToCome
  <2> QED  BY <1>1, <2>1, <2>2, StageProbePays DEF Adapting
<1>6. CASE NextRole
  <2>1. stage' # "search" /\ ProbesToCome' \in Nat /\ ProbesToCome' <= ProbesToCome
    BY <1>1, <1>6 DEF NextRole, CountInv, ProbesToCome, Roles
  <2> QED  BY <1>6, <2>1, QuietPays DEF NextRole, Adapting
<1>7. CASE Evaluate
  <2>1. stage = "bracket" /\ arole = "control" /\ Quiet
    BY <1>7 DEF Evaluate
  <2>2. \/ stage' = "over"
        \/ stage' = "replicate" /\ arole' = "largest" /\ count' = 0
    BY <1>7 DEF Evaluate, Conclude, Finish
  <2>3. stage' # "search" /\ ProbesToCome' \in Nat /\ ProbesToCome' <= ProbesToCome
    BY <1>1, <2>1, <2>2 DEF CountInv, ProbesToCome
  <2> QED  BY <2>1, <2>3, QuietPays DEF Adapting
<1>8. CASE Replicate
  <2> DEFINE After == IF arole = "largest"
                      THEN arole' = "control" /\ UNCHANGED <<stage, count, tstar, outcome, selected>>
                      ELSE count' = 1 /\ UNCHANGED <<stage, arole, tstar, outcome, selected>>
  <2>1. stage = "replicate" /\ count = 0 /\ Dispatch(arole, tstar, After)
    BY <1>8 DEF Replicate
  <2>2. stage' = "over" \/ After
    BY <2>1, DispatchGoesOn
  <2>3. stage' # "search" /\ ProbesToCome' \in Nat /\ ProbesToCome' < ProbesToCome
    BY <1>1, <2>1, <2>2 DEF ProbesToCome, Roles
  <2> QED  BY <1>1, <2>1, <2>3, StageProbePays DEF Adapting
<1>9. CASE Admit
  <2>1. stage = "replicate" /\ count = 1 /\ Quiet /\ stage' = "over"
    BY <1>9 DEF Admit, Conclude, Finish
  <2>2. stage' # "search" /\ ProbesToCome' \in Nat /\ ProbesToCome' <= ProbesToCome
    BY <1>1, <2>1 DEF CountInv, ProbesToCome
  <2> QED  BY <2>1, <2>2, QuietPays DEF Adapting
<1> QED
  BY <1>2, <1>3, <1>4, <1>5, <1>6, <1>7, <1>8, <1>9 DEF ANext

(* The total budget is passed by one probe and one warm-up for each of those *)
(* the limits leave, for any prices, limits and shares of the budget: the    *)
(* stop event does what the stage's stale reading of the total does not.     *)
THEOREM TotalOvershootIsWarmUps == ASpec => []TotalOvershootBounded
<1>1. AInit => StopBook
  BY StageConstants, SearchAssumption, ProbeAssumption DEF AInit, Init, StopBook
<1>2. AdaptiveInv /\ CountInv /\ StopBook /\ [ANext]_allvars => StopBook'
  <2> SUFFICES ASSUME AdaptiveInv, CountInv, StopBook, UNCHANGED allvars PROVE StopBook'
    BY StopBookKeeps
  <2>1. UNCHANGED <<stage, arole, count, spent, stop>>
    BY DEF allvars, avars, vars
  <2> QED  BY <2>1 DEF StopBook, ProbesToCome
<1>3. ASSUME AdaptiveInv, CountInv, StopBook PROVE TotalOvershootBounded
  <2>1. spent \in Nat /\ ProbesToCome \in Nat
    BY <1>3, ToComeBound, StageConstants DEF AdaptiveInv, Handover
  <2>2. CASE stage = "search"
    BY <1>3, <2>1, <2>2, StageConstants DEF StopBook, TotalOvershootBounded, MostTotal
  <2>3. CASE stage # "search"
    <3> DEFINE pn == Prewarm * ProbesToCome
    <3>1. pn \in Nat /\ spent + pn < MostTotal /\ MostTotal \in Nat
      BY <1>3, <2>1, <2>3, StageConstants, WarmUps DEF StopBook
    <3> HIDE DEF pn
    <3>2. spent < MostTotal
      BY <2>1, <3>1
    <3> QED  BY <3>2 DEF MostTotal, TotalOvershootBounded
  <2> QED  BY <2>2, <2>3
<1> QED  BY <1>1, <1>2, <1>3, CountInvariant, PTL DEF ASpec
=============================================================================
