------------------------------ MODULE ProbeCell -----------------------------
(* The dispatcher of one cell of scripts/measure_max_output_tokens_sweep.py *)
(* (_run_cell): a task per scheduled call sleeps until its time, queues on  *)
(* the semaphore, calls once without retry and records.  The warm-up is     *)
(* gathered before the ramp; the ramp's tasks are all created in one go,    *)
(* without an await, so that only the tasks themselves can see a 429.       *)
EXTENDS ProbeResults, FiniteSets

CONSTANTS
  Concurrency,  \* permits of the semaphore
  EarlyStop     \* early_stop_on_first_429 of the probe's role

ASSUME CellAssumption ==
  Concurrency \in Nat \ {0} /\ EarlyStop \in BOOLEAN

VARIABLES
  cellStop,   \* total_max_usd_stop_event; only set between probes
  cellPhase,  \* "prewarm", "ramp" or "closed"
  task,       \* state of each scheduled call
  reply,      \* answer of each call that was sent
  saw429,     \* early_stop_429_event
  committed,  \* calls paid for, answered or not
  halt,       \* halt_reason
  report      \* what the caller gets

pvars == <<cellStop, cellPhase, task, reply, saw429, committed, halt, report>>

Prewarms == 1..Prewarm
Ramps    == (Prewarm + 1)..(Prewarm + Ramp)
Calls    == Prewarms \union Ramps

InState(s) == {t \in Calls : task[t] = s}
Sent(s)    == {t \in s : task[t] = "done"}
Refusals(s) == {t \in Sent(s) : reply[t] = "429"}

PInit ==
  /\ cellStop \in BOOLEAN
  /\ cellPhase = "prewarm"
  /\ task = [t \in Calls |-> IF t \in Prewarms THEN "pacing" ELSE "absent"]
  /\ reply = [t \in Calls |-> "none"]
  /\ saw429 = FALSE
  /\ committed = Prewarm
  /\ halt = "none"
  /\ report = NoReport

----------------------------------------------------------------------------
\* A ramp task that wakes after a 429 was seen leaves without a record.
Skips(t) == EarlyStop /\ t \in Ramps /\ saw429

\* Timers fire in schedule order; the semaphore serves its waiters in turn
\* and lets nobody past them.
Due(t) == task[t] = "pacing" /\ \A u \in InState("pacing") : t <= u

\* Deviation: a call that waits already counts against the limit.
HasPermitCountingWaiters ==
  Cardinality(InState("calling") \union InState("queued")) < Concurrency

HasPermit == Cardinality(InState("calling")) < Concurrency

Wake(t) ==
  /\ Due(t)
  /\ task' = [task EXCEPT ![t] =
       IF Skips(t) THEN "skipped"
       ELSE IF HasPermit /\ InState("queued") = {} THEN "calling" ELSE "queued"]
  /\ UNCHANGED <<cellStop, cellPhase, reply, saw429, committed, halt, report>>

Grant(t) ==
  /\ task[t] = "queued" /\ \A u \in InState("queued") : t <= u
  /\ HasPermit
  /\ task' = [task EXCEPT ![t] = "calling"]
  /\ UNCHANGED <<cellStop, cellPhase, reply, saw429, committed, halt, report>>

\* Deviation: a later answer takes the early-stop signal back.
AnswerClears(t) ==
  /\ task[t] = "calling"
  /\ \E r \in {"ok", "429", "error"} :
       /\ reply' = [reply EXCEPT ![t] = r]
       /\ saw429' = (EarlyStop /\ r = "429")
  /\ task' = [task EXCEPT ![t] = "done"]
  /\ UNCHANGED <<cellStop, cellPhase, committed, halt, report>>

\* The provider answers, refuses with a 429, or the transport fails; each of
\* them leaves a record and gives the permit back.
Answer(t) ==
  /\ task[t] = "calling"
  /\ \E r \in {"ok", "429", "error"} :
       /\ reply' = [reply EXCEPT ![t] = r]
       /\ saw429' = (saw429 \/ (EarlyStop /\ r = "429"))
  /\ task' = [task EXCEPT ![t] = "done"]
  /\ UNCHANGED <<cellStop, cellPhase, committed, halt, report>>

\* The dispatch loop's checks, in its order, before each create_task: call
\* cap, spend cap, total budget, first 429.  None of them can change while
\* the loop runs.
Created == IF cellStop \/ (EarlyStop /\ saw429) THEN 0 ELSE RampCalls

LoopHalt == IF Prewarm >= Cap          THEN "probe_max_usd_hit"
            ELSE IF cellStop           THEN "total_max_usd_stop_event_set"
            ELSE IF EarlyStop /\ saw429    THEN "first_429_observed"
            ELSE IF Created = Ramp     THEN "none"
            ELSE IF Created = CallCap  THEN "probe_max_calls_hit"
            ELSE "probe_max_usd_hit"

OpenRamp ==
  /\ cellPhase = "prewarm" /\ Prewarms \subseteq InState("done")
  /\ cellPhase' = "ramp"
  /\ task' = [t \in Calls |-> IF t \in Ramps /\ t <= Prewarm + Created
                              THEN "pacing" ELSE task[t]]
  /\ committed' = committed + Created
  /\ halt' = LoopHalt
  /\ UNCHANGED <<cellStop, reply, saw429, report>>

\* After the gather: the late halt reason, the records that are not None and
\* what _aggregate_cell counts over them, warm-up included.
Close ==
  /\ cellPhase = "ramp" /\ InState("pacing") \union InState("queued")
                         \union InState("calling") = {}
  /\ cellPhase' = "closed"
  /\ halt' = IF halt = "none" /\ EarlyStop /\ saw429 THEN "first_429_observed" ELSE halt
  /\ report' = [pre429  |-> Refusals(Prewarms) # {},
                ramp429 |-> Refusals(Ramps) # {},
                ramp    |-> Extent(Cardinality(Sent(Ramps))),
                cost    |-> committed]
  /\ UNCHANGED <<cellStop, task, reply, saw429, committed>>

PNext == \/ \E t \in Calls : Wake(t) \/ Grant(t) \/ Answer(t)
        \/ OpenRamp
        \/ Close

\* The event loop serves every timer and every permit, and the client's own
\* timeout ends every call.
Fairness == /\ \A t \in Calls : WF_pvars(Wake(t)) /\ WF_pvars(Grant(t)) /\ WF_pvars(Answer(t))
            /\ WF_pvars(OpenRamp) /\ WF_pvars(Close)

PSpec == PInit /\ [][PNext]_pvars /\ Fairness

----------------------------------------------------------------------------
PTypeOK ==
  /\ cellStop \in BOOLEAN /\ saw429 \in BOOLEAN
  /\ cellPhase \in {"prewarm", "ramp", "closed"}
  /\ task \in [Calls -> {"absent", "pacing", "queued", "calling", "done", "skipped"}]
  /\ reply \in [Calls -> {"none", "ok", "429", "error"}]
  /\ committed \in Prewarm..(Prewarm + Ramp)
  /\ report = NoReport \/ report \in Reports(cellStop, EarlyStop)

(* The cell keeps the contract its callers rely on: it ends, once, in a     *)
(* report that the stop event, the caps and the early stop explain.         *)
Contract == INSTANCE ProbeContract WITH stop <- cellStop, report <- report
KeepsContract == Contract!Spec

(* Whatever the order of answers, an early-stopped cell has measured a      *)
(* prefix of its schedule: once a call was skipped no later one is sent, so *)
(* the window the rates are computed over has no holes.                     *)
MeasuredPrefix ==
  \A s, t \in Ramps : s < t /\ task[s] = "skipped" => task[t] \in {"absent", "pacing", "skipped"}
=============================================================================
