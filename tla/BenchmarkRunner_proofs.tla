----------------------- MODULE BenchmarkRunner_proofs -----------------------
(***************************************************************************)
(* Proofs about BenchmarkRunner for any number of launches, cells, slots,  *)
(* attempts and iterations, any prices and any ceiling.                    *)
(***************************************************************************)
EXTENDS BenchmarkRunner, FiniteSetTheorems, TLAPS

\* Products of naturals, stated once for the provers.
LEMMA Products ==
  ASSUME NEW a \in Nat, NEW b \in Nat, NEW m \in Nat
  PROVE  /\ a * m \in Nat
         /\ (a + 1) * m = a * m + m
         /\ a <= b => a * m <= b * m
<1>1. a * m \in Nat /\ b * m \in Nat
  OBVIOUS
<1>2. (a + 1) * m = a * m + m
  OBVIOUS
<1>3. ASSUME a <= b PROVE a * m <= b * m
  <2>1. PICK d \in Nat : b = a + d
    BY <1>3
  <2>2. b * m = a * m + d * m
    BY <2>1
  <2>3. d * m \in Nat
    BY <2>1
  <2> QED  BY <1>1, <2>2, <2>3
<1> QED  BY <1>1, <1>2, <1>3

\* A file opened under a free name leaves the others in place.
LEMMA FiledKeeps ==
  ASSUME NEW c, NEW t, NEW live, NEW whole, ~Taken(c, t)
  PROVE  files \subseteq Filed(c, t, live, whole)
  BY DEF Taken, Filed

LEMMA FiledIsTyped ==
  ASSUME TypeOK, NEW c \in Cells, NEW t \in 0..MaxClock,
         NEW live \in BOOLEAN, NEW whole \in BOOLEAN
  PROVE  Filed(c, t, live, whole) \subseteq Record
  BY DEF TypeOK, Filed, Record

-----------------------------------------------------------------------------
(* Types. *)

LEMMA CellStates ==
  /\ \A p \in Places : Parked(p) \in CellState
  /\ \A n \in 1..MaxIterations + 1, owed \in Nat, t \in 0..MaxClock :
        Sending(n, owed, t) \in CellState
  BY BenchmarkAssumption DEF Parked, Sending, CellState, Places

LEMMA MoveIsTyped ==
  ASSUME TypeOK, NEW r \in Runs, NEW c \in Cells, NEW to \in CellState, Move(r, c, to)
  PROVE  cell' \in [Runs -> [Cells -> CellState]]
  BY DEF TypeOK, Move

LEMMA WriteIsTyped ==
  ASSUME TypeOK, NEW r \in Runs, NEW c \in Cells, NEW t \in 0..MaxClock,
         NEW live \in BOOLEAN, WriteRecord(r, c, t, live)
  PROVE  /\ files' \subseteq Record
         /\ cell' \in [Runs -> [Cells -> CellState]]
<1>1. Parked("failed") \in CellState /\ Parked("written") \in CellState
  BY CellStates DEF Places
<1>2. CASE Taken(c, t)
  BY <1>1, <1>2, MoveIsTyped DEF WriteRecord, TypeOK
<1>3. CASE ~Taken(c, t)
  BY <1>1, <1>3, MoveIsTyped, FiledIsTyped DEF WriteRecord
<1> QED  BY <1>2, <1>3

LEMMA EndIsTyped ==
  ASSUME TypeOK, NEW r \in Runs, NEW how \in Ended, End(r, how)
  PROVE  /\ status' \in [Runs -> {"off", "up"} \cup Ended]
         /\ existing' \in [Runs -> SUBSET Cells]
         /\ total' \in [Runs -> Nat]
         /\ cell' \in [Runs -> [Cells -> CellState]]
<1>1. Parked("queued") \in CellState
  BY CellStates DEF Places
<1> QED  BY <1>1 DEF TypeOK, End

LEMMA TypeInit == Init => TypeOK
<1>1. Parked("queued") \in CellState
  BY CellStates DEF Places
<1> QED  BY <1>1, BenchmarkAssumption DEF Init, TypeOK, Record

LEMMA TypeStep == TypeOK /\ [Next]_vars => TypeOK'
<1> SUFFICES ASSUME TypeOK, [Next]_vars PROVE TypeOK'
  OBVIOUS
<1>0. CASE UNCHANGED vars
  BY <1>0 DEF vars, TypeOK
<1>1. CASE Tick
  BY <1>1, BenchmarkAssumption DEF Tick, TypeOK, launch
<1>2. ASSUME NEW r \in Runs, Launch(r) PROVE TypeOK'
  <2>1. \A s \in BOOLEAN : Index(s) \in SUBSET Cells
    BY DEF Index, WholeCells, TypeOK, Record
  <2> QED  BY <1>2, <2>1 DEF Launch, TypeOK
<1>3. ASSUME NEW r \in Runs, Finish(r) PROVE TypeOK'
  <2>1. Outcome(r) \in Ended
    BY DEF Outcome, Ended
  <2> QED  BY <1>3, <2>1, EndIsTyped DEF Finish, TypeOK
<1>4. ASSUME NEW r \in Runs, Crash(r) PROVE TypeOK'
  <2>1. "dead" \in Ended
    BY DEF Ended
  <2> QED  BY <1>4, <2>1, EndIsTyped DEF Crash, TypeOK
<1>5. ASSUME NEW r \in Runs, NEW c \in Cells, CrashWriting(r, c) PROVE TypeOK'
  <2>1. "dead" \in Ended
    BY DEF Ended
  <2>2. clock \in 0..MaxClock /\ cell[r][c].stamp \in 0..MaxClock
    BY DEF TypeOK, CellState
  <2>3. files' \subseteq Record
    BY <1>5, <2>2, FiledIsTyped DEF CrashWriting
  <2> QED  BY <1>5, <2>1, <2>3, EndIsTyped DEF CrashWriting, TypeOK
<1>6. ASSUME NEW r \in Runs, NEW c \in Cells, CellStep(r, c) PROVE TypeOK'
  <2> DEFINE here == cell[r][c]
  <2>1. /\ here \in CellState /\ here.request \in 0..MaxIterations + 1
        /\ here.attempt \in 0..MaxAttempts - 1 /\ here.owed \in Nat
        /\ here.stamp \in 0..MaxClock /\ clock \in 0..MaxClock
    BY DEF TypeOK, CellState
  <2>2. Costs \subseteq Nat /\ MaxIterations \in Nat /\ MaxAttempts \in Nat
    BY BenchmarkAssumption
  <2>3. \A p \in Places : Parked(p) \in CellState
    BY CellStates
  <2>4. CASE SkipCell(r, c)
    BY <2>3, <2>4, MoveIsTyped DEF SkipCell, TypeOK, launch, Places
  <2>5. CASE RefuseCell(r, c)
    BY <2>3, <2>5, MoveIsTyped DEF RefuseCell, TypeOK, launch, Places
  <2>6. CASE DryCell(r, c)
    BY <2>1, <2>6, WriteIsTyped DEF DryCell, TypeOK, launch
  <2>7. CASE SendFirst(r, c)
    <3>1. Sending(1, 0, clock) \in CellState
      BY <2>1, <2>2, CellStates
    <3> QED  BY <2>7, <3>1, MoveIsTyped DEF SendFirst, TypeOK, launch
  <2>8. CASE RateLimited(r, c)
    <3>0. here.attempt + 1 \in 0..MaxAttempts - 1
      BY <2>1, <2>2, <2>8 DEF RateLimited, RetriesLeft
    <3> HIDE DEF here
    <3>1. [here EXCEPT !.at = "backoff", !.attempt = @ + 1] \in CellState
      BY <2>1, <3>0 DEF CellState, Places
    <3> USE DEF here
    <3> QED  BY <2>8, <3>1, MoveIsTyped DEF RateLimited, TypeOK, launch
  <2>9. CASE SendAgain(r, c)
    <3>1. [here EXCEPT !.at = "calling"] \in CellState
      BY <2>1 DEF CellState, Places
    <3> QED  BY <2>9, <3>1, MoveIsTyped DEF SendAgain, TypeOK, launch
  <2>10. CASE CallFails(r, c)
    BY <2>3, <2>10, MoveIsTyped DEF CallFails, TypeOK, launch, Places
  <2>11. CASE ToolCalls(r, c)
    <3>1. PICK usd \in Costs : Move(r, c, Sending(here.request + 1, here.owed + usd, here.stamp))
      BY <2>11 DEF ToolCalls
    <3>2. here.request + 1 \in 1..MaxIterations + 1
      BY <2>1, <2>2, <2>11 DEF ToolCalls
    <3>3. here.owed + usd \in Nat
      BY <2>1, <2>2
    <3>4. Sending(here.request + 1, here.owed + usd, here.stamp) \in CellState
      BY <2>1, <3>2, <3>3, CellStates
    <3> QED  BY <2>11, <3>1, <3>4, MoveIsTyped DEF ToolCalls, TypeOK, launch
  <2>12. CASE Answer(r, c)
    <3>1. total' \in [Runs -> Nat]
      BY <2>1, <2>2, <2>12 DEF Answer, TypeOK
    <3> QED  BY <2>1, <2>12, <3>1, WriteIsTyped DEF Answer, TypeOK, launch
  <2> QED
    BY <1>6, <2>4, <2>5, <2>6, <2>7, <2>8, <2>9, <2>10, <2>11, <2>12 DEF CellStep
<1> QED
  BY <1>0, <1>1, <1>2, <1>3, <1>4, <1>5, <1>6 DEF Next

\* Every state the launches reach is well typed: attempts and requests stay
\* within their caps.
THEOREM TypeCorrect == Spec => []TypeOK
  BY TypeInit, TypeStep, PTL DEF Spec

-----------------------------------------------------------------------------
(* The records. *)

LEMMA WriteKeeps ==
  ASSUME NEW r \in Runs, NEW c \in Cells, NEW t, NEW live, WriteRecord(r, c, t, live)
  PROVE  files \subseteq files'
  BY FiledKeeps DEF WriteRecord

LEMMA StepKeepsFiles == [Next]_vars => files \subseteq files'
<1> SUFFICES ASSUME [Next]_vars PROVE files \subseteq files'
  OBVIOUS
<1>1. ASSUME NEW r \in Runs, NEW c \in Cells, CellStep(r, c) PROVE files \subseteq files'
  <2>1. CASE DryCell(r, c)
    BY <2>1, WriteKeeps DEF DryCell
  <2>2. CASE Answer(r, c)
    BY <2>2, WriteKeeps DEF Answer
  <2>3. CASE \/ SkipCell(r, c) \/ RefuseCell(r, c) \/ SendFirst(r, c) \/ RateLimited(r, c)
             \/ SendAgain(r, c) \/ CallFails(r, c) \/ ToolCalls(r, c)
    BY <2>3 DEF SkipCell, RefuseCell, SendFirst, RateLimited, SendAgain, CallFails, ToolCalls
  <2> QED  BY <1>1, <2>1, <2>2, <2>3 DEF CellStep
<1>2. ASSUME NEW r \in Runs, NEW c \in Cells, CrashWriting(r, c) PROVE files \subseteq files'
  BY <1>2, FiledKeeps DEF CrashWriting
<1>3. ASSUME NEW r \in Runs, Launch(r) \/ Finish(r) \/ Crash(r) PROVE files \subseteq files'
  BY <1>3 DEF Launch, Finish, Crash
<1>4. CASE Tick \/ UNCHANGED vars
  BY <1>4 DEF Tick, vars
<1> QED  BY <1>1, <1>2, <1>3, <1>4 DEF Next

\* The runs directory is append-only, however launches overlap.
THEOREM RecordsStay == Spec => RecordsAreKept
<1>1. [Next]_vars => [files \subseteq files']_vars
  BY StepKeepsFiles
<1> QED  BY <1>1, PTL DEF Spec, RecordsAreKept

-----------------------------------------------------------------------------
(* What one step of a cell may do. *)

MoveEffect(r, c) ==
  \A q \in Runs, d \in Cells : (q # r \/ d # c) => cell'[q][d] = cell[q][d]

LEMMA MoveIsLocal ==
  ASSUME TypeOK, NEW r \in Runs, NEW c \in Cells, NEW to, Move(r, c, to)
  PROVE  cell'[r][c] = to /\ MoveEffect(r, c)
  BY DEF TypeOK, Move, MoveEffect

LEMMA WriteEffect ==
  ASSUME TypeOK, NEW r \in Runs, NEW c \in Cells, NEW t, NEW live, WriteRecord(r, c, t, live)
  PROVE  /\ MoveEffect(r, c)
         /\ cell'[r][c] \in {Parked("failed"), Parked("written")}
         /\ cell'[r][c].at = "written" =>
                \E f \in files' : f.cell = c /\ f.whole /\ f.live = live
         /\ \A f \in files' \ files : f.cell = c
<1>1. CASE Taken(c, t)
  BY <1>1, MoveIsLocal DEF WriteRecord, Parked
<1>2. CASE ~Taken(c, t)
  <2> DEFINE new == [cell |-> c, time |-> t, live |-> live, whole |-> TRUE]
  <2>1. files' = Filed(c, t, live, TRUE) /\ Move(r, c, Parked("written"))
    BY <1>2 DEF WriteRecord
  <2>2. cell'[r][c] = Parked("written") /\ MoveEffect(r, c)
    BY <2>1, MoveIsLocal
  <2>3. new \in files' /\ new.cell = c /\ new.whole /\ new.live = live
    BY <2>1 DEF Filed
  <2>4. \A f \in files' \ files : f = new
    BY <2>1 DEF Filed
  <2> QED  BY <2>2, <2>3, <2>4
<1> QED  BY <1>1, <1>2

InCall == {"calling", "backoff"}

CellEffect(r, c) ==
  LET old == cell[r][c]
      new == cell'[r][c]
  IN /\ status[r] = "up" /\ launch' = launch /\ MoveEffect(r, c)
     /\ \A q \in Runs \ {r} : total'[q] = total[q]
     /\ total'[r] >= total[r]
     /\ \A f \in files' \ files : f.cell = c
     /\ old.at \in InCall \cup {"queued"} /\ new.at # "queued"
     /\ new.at = "skipped" => Halted(r) \/ c \in existing[r]
     /\ new.at = "written" => \E f \in files' : /\ f.cell = c /\ f.whole
                                               /\ f.live = (old.at \in InCall)
     /\ new.at = "written" /\ old.at = "queued" => dry[r]
     /\ new.at \in InCall /\ old.at = "queued" => ~dry[r] /\ c \notin existing[r]

LEMMA CellStepEffect ==
  ASSUME TypeOK, NEW r \in Runs, NEW c \in Cells, CellStep(r, c)
  PROVE  CellEffect(r, c)
<1> USE DEF CellEffect, InCall
<1>0. total[r] \in Nat
  BY DEF TypeOK
<1>1. CASE SkipCell(r, c)
  BY <1>0, <1>1, MoveIsLocal DEF SkipCell, Admitted, Parked, launch
<1>2. CASE RefuseCell(r, c)
  BY <1>0, <1>2, MoveIsLocal DEF RefuseCell, Fresh, Admitted, Parked, launch
<1>3. CASE DryCell(r, c)
  <2>1. /\ MoveEffect(r, c)
        /\ cell'[r][c] \in {Parked("failed"), Parked("written")}
        /\ cell'[r][c].at = "written" =>
              \E f \in files' : f.cell = c /\ f.whole /\ f.live = FALSE
        /\ \A f \in files' \ files : f.cell = c
    BY <1>3, WriteEffect DEF DryCell
  <2>2. /\ status[r] = "up" /\ cell[r][c].at = "queued" /\ dry[r]
        /\ launch' = launch /\ total' = total
    BY <1>3 DEF DryCell, Fresh, Admitted, launch
  <2>3. cell'[r][c].at \in {"failed", "written"}
    BY <2>1 DEF Parked
  <2>4. (cell[r][c].at \in InCall) = FALSE
    BY <2>2
  <2>5. cell'[r][c].at = "written" =>
          \E f \in files' : f.cell = c /\ f.whole /\ f.live = (cell[r][c].at \in InCall)
    BY <2>1, <2>4, Zenon
  <2>6. \A q \in Runs \ {r} : total'[q] = total[q]
    BY <2>2
  <2>7. total'[r] >= total[r]
    BY <1>0, <2>2
  <2> HIDE DEF InCall
  <2>8. cell[r][c].at \in InCall \cup {"queued"}
    BY <2>2
  <2>9. cell'[r][c].at \notin InCall /\ cell'[r][c].at # "queued" /\ cell'[r][c].at # "skipped"
    BY <2>3 DEF InCall
  <2> QED  BY <2>1, <2>2, <2>5, <2>6, <2>7, <2>8, <2>9
<1>4. CASE SendFirst(r, c)
  BY <1>0, <1>4, MoveIsLocal DEF SendFirst, Fresh, Admitted, Sending, launch
<1>5. CASE RateLimited(r, c)
  <2>1. /\ cell'[r][c] = [cell[r][c] EXCEPT !.at = "backoff", !.attempt = @ + 1]
        /\ MoveEffect(r, c)
    BY <1>5, MoveIsLocal DEF RateLimited
  <2>2. cell'[r][c].at = "backoff"
    BY <2>1 DEF TypeOK, CellState
  <2> QED  BY <1>0, <1>5, <2>1, <2>2 DEF RateLimited, Awaiting, launch
<1>6. CASE SendAgain(r, c)
  <2>1. cell'[r][c] = [cell[r][c] EXCEPT !.at = "calling"] /\ MoveEffect(r, c)
    BY <1>6, MoveIsLocal DEF SendAgain
  <2>2. cell'[r][c].at = "calling"
    BY <2>1 DEF TypeOK, CellState
  <2> QED  BY <1>0, <1>6, <2>1, <2>2 DEF SendAgain, launch
<1>7. CASE CallFails(r, c)
  BY <1>0, <1>7, MoveIsLocal DEF CallFails, Awaiting, Parked, launch
<1>8. CASE ToolCalls(r, c)
  <2>1. PICK usd \in Costs : Move(r, c, Sending(cell[r][c].request + 1,
                                              cell[r][c].owed + usd, cell[r][c].stamp))
    BY <1>8 DEF ToolCalls
  <2>2. cell'[r][c].at = "calling" /\ MoveEffect(r, c)
    BY <2>1, MoveIsLocal DEF Sending
  <2> QED  BY <1>0, <1>8, <2>2 DEF ToolCalls, Awaiting, launch
<1>9. CASE Answer(r, c)
  <2>1. /\ MoveEffect(r, c)
        /\ cell'[r][c] \in {Parked("failed"), Parked("written")}
        /\ cell'[r][c].at = "written" =>
              \E f \in files' : f.cell = c /\ f.whole /\ f.live = TRUE
        /\ \A f \in files' \ files : f.cell = c
    BY <1>9, WriteEffect DEF Answer
  <2>2. PICK usd \in Costs : total' = [total EXCEPT ![r] = @ + cell[r][c].owed + usd]
    BY <1>9 DEF Answer
  <2>3. cell[r][c].owed \in Nat /\ usd \in Nat
    BY BenchmarkAssumption DEF TypeOK, CellState
  <2>4. total'[r] >= total[r] /\ \A q \in Runs \ {r} : total'[q] = total[q]
    BY <1>0, <2>2, <2>3 DEF TypeOK
  <2>5. status[r] = "up" /\ cell[r][c].at = "calling" /\ launch' = launch
    BY <1>9 DEF Answer, Awaiting, launch
  <2>6. cell'[r][c].at \in {"failed", "written"}
    BY <2>1 DEF Parked
  <2>7. (cell[r][c].at \in InCall) = TRUE
    BY <2>5
  <2> QED  BY <2>1, <2>4, <2>5, <2>6, <2>7
<1> QED
  BY <1>1, <1>2, <1>3, <1>4, <1>5, <1>6, <1>7, <1>8, <1>9 DEF CellStep

-----------------------------------------------------------------------------
(* A clean exit is complete.  The invariant says what each settled cell of a *)
(* running launch has left behind: a record, or a reason to be skipped that  *)
(* lasts until the launch ends.                                              *)

\* A launch that does not run has no memory.
MemoryInv ==
  \A r \in Runs : status[r] # "up" =>
      total[r] = 0 /\ \A c \in Cells : cell[r][c] = Parked("queued")

Evidence(r, c) ==
  /\ cell[r][c].at \in InCall => ~dry[r]
  /\ cell[r][c].at = "skipped" => Halted(r) \/ c \in existing[r]
  /\ cell[r][c].at = "written" =>
        \E f \in files : f.cell = c /\ f.whole /\ f.live = ~dry[r]

EvidenceInv ==
  \A r \in Runs : status[r] = "up" =>
      /\ existing[r] \subseteq WholeCells
      /\ existing[r] # {} => skip[r]
      /\ \A c \in Cells : Evidence(r, c)

CleanInv == MemoryInv /\ EvidenceInv /\ CleanExitIsComplete

LEMMA WholeCellsGrow ==
  ASSUME files \subseteq files'
  PROVE  WholeCells \subseteq WholeCells'
  BY DEF WholeCells

LEMMA CleanInit == Init => CleanInv
  BY DEF Init, CleanInv, MemoryInv, EvidenceInv, CleanExitIsComplete

\* The invariant under a step of one cell.
LEMMA CleanCellStep ==
  ASSUME TypeOK, CleanInv, NEW r \in Runs, NEW c \in Cells, CellStep(r, c),
         TypeOK', files \subseteq files'
  PROVE  CleanInv'
<1> USE DEF CleanInv
<1>1. CellEffect(r, c)
  BY CellStepEffect
<1>2. /\ status' = status /\ skip' = skip /\ dry' = dry /\ existing' = existing
      /\ status[r] = "up" /\ MoveEffect(r, c)
      /\ total'[r] >= total[r] /\ \A q \in Runs \ {r} : total'[q] = total[q]
  BY <1>1 DEF CellEffect, launch
<1>3. MemoryInv'
  BY <1>2 DEF MemoryInv, MoveEffect, Parked
<1>4. ASSUME NEW q \in Runs PROVE Halted(q) => Halted(q)'
  <2>1. total[r] \in Nat /\ total'[r] \in Nat /\ Ceiling \in Nat
    BY BenchmarkAssumption DEF TypeOK
  <2>2. CASE q = r
    BY <1>2, <2>1, <2>2 DEF Halted
  <2>3. CASE q # r
    BY <1>2, <2>3 DEF Halted
  <2> QED  BY <2>2, <2>3
<1>5. ASSUME NEW q \in Runs, status[q] = "up", NEW d \in Cells PROVE Evidence(q, d)'
  <2>1. Evidence(q, d)
    BY <1>5 DEF EvidenceInv
  <2>2. CASE q # r \/ d # c
    <3>1. cell'[q][d] = cell[q][d]
      BY <1>2, <2>2 DEF MoveEffect
    <3> QED  BY <1>2, <1>4, <2>1, <3>1 DEF Evidence
  <2>3. CASE q = r /\ d = c
    <3>1. cell'[r][c].at \in InCall => ~dry[r]
      BY <1>1, <2>1, <2>3 DEF CellEffect, Evidence
    <3>2. cell'[r][c].at = "skipped" => Halted(r)' \/ c \in existing[r]
      BY <1>1, <1>4 DEF CellEffect
    <3>3. ASSUME cell'[r][c].at = "written"
          PROVE  \E f \in files' : f.cell = c /\ f.whole /\ f.live = ~dry[r]
      <4>1. PICK f \in files' : f.cell = c /\ f.whole /\ f.live = (cell[r][c].at \in InCall)
        BY <1>1, <3>3 DEF CellEffect
      <4>2. CASE cell[r][c].at \in InCall
        <5>1. dry[r] = FALSE
          BY <2>1, <2>3, <4>2 DEF Evidence, TypeOK
        <5>2. (cell[r][c].at \in InCall) = TRUE
          BY <4>2
        <5> QED  BY <4>1, <5>1, <5>2, Zenon
      <4>3. CASE cell[r][c].at \notin InCall
        <5>1. cell[r][c].at = "queued"
          BY <1>1, <4>3 DEF CellEffect
        <5>2. dry[r] = TRUE
          BY <1>1, <3>3, <5>1 DEF CellEffect, TypeOK
        <5>3. (cell[r][c].at \in InCall) = FALSE
          BY <4>3
        <5> QED  BY <4>1, <5>2, <5>3, Zenon
      <4> QED  BY <4>2, <4>3
    <3> QED  BY <1>2, <2>3, <3>1, <3>2, <3>3 DEF Evidence
  <2> QED  BY <2>2, <2>3
<1>6. EvidenceInv'
  <2>1. WholeCells \subseteq WholeCells'
    BY WholeCellsGrow
  <2> QED  BY <1>2, <1>5, <2>1 DEF EvidenceInv
<1>7. CleanExitIsComplete'
  BY <1>2 DEF CleanExitIsComplete
<1> QED  BY <1>3, <1>6, <1>7

\* ... and under a launch, at its end and while time passes.
LEMMA EndKeepsOthers ==
  ASSUME TypeOK, CleanInv, NEW r \in Runs, NEW how \in Ended, End(r, how),
         files \subseteq files', dry' = dry, skip' = skip
  PROVE  MemoryInv' /\ EvidenceInv'
<1>1. /\ status'[r] # "up" /\ total'[r] = 0
      /\ \A c \in Cells : cell'[r][c] = Parked("queued")
  BY DEF End, TypeOK, Ended
<1>2. ASSUME NEW q \in Runs, q # r
      PROVE  /\ status'[q] = status[q] /\ total'[q] = total[q]
             /\ existing'[q] = existing[q] /\ cell'[q] = cell[q]
  BY <1>2 DEF End, TypeOK
<1>3. MemoryInv'
  BY <1>1, <1>2 DEF CleanInv, MemoryInv, Parked
<1>4. ASSUME NEW q \in Runs, status'[q] = "up", NEW c \in Cells PROVE Evidence(q, c)'
  <2>1. q # r /\ Evidence(q, c)
    BY <1>1, <1>2, <1>4 DEF CleanInv, EvidenceInv
  <2> QED  BY <1>2, <2>1 DEF Evidence, Halted
<1>5. WholeCells \subseteq WholeCells'
  BY WholeCellsGrow
<1>6. ASSUME NEW q \in Runs, status'[q] = "up"
      PROVE  existing'[q] \subseteq WholeCells' /\ (existing'[q] # {} => skip'[q])
  BY <1>1, <1>2, <1>5, <1>6 DEF CleanInv, EvidenceInv
<1> QED  BY <1>3, <1>4, <1>6 DEF EvidenceInv

\* gather has returned and nothing failed or crossed the ceiling: what settled
\* the cells is their record or the index.
LEMMA CleanFinish ==
  ASSUME TypeOK, CleanInv, NEW r \in Runs, Finish(r)
  PROVE  CleanExitIsComplete'
<1>1. \A q \in Runs \ {r} : status'[q] = status[q]
  BY DEF Finish, End, TypeOK
<1>2. status'[r] = Outcome(r) /\ status[r] = "up" /\ files' = files /\ skip' = skip /\ dry' = dry
  BY DEF Finish, End, TypeOK
<1>3. ASSUME Outcome(r) = "ok", NEW c \in Cells
      PROVE  \E f \in files : f.cell = c /\ f.whole /\ (skip[r] \/ f.live = ~dry[r])
  <2>1. cell[r][c].at \in {"skipped", "written"} /\ ~Halted(r)
    BY <1>3 DEF Outcome, Finish
  <2>2. Evidence(r, c) /\ existing[r] \subseteq WholeCells /\ (existing[r] # {} => skip[r])
    BY <1>2 DEF CleanInv, EvidenceInv
  <2>3. CASE cell[r][c].at = "written"
    BY <2>2, <2>3 DEF Evidence
  <2>4. CASE cell[r][c].at = "skipped"
    <3>1. c \in WholeCells /\ skip[r]
      BY <2>1, <2>2, <2>4 DEF Evidence
    <3> QED  BY <3>1 DEF WholeCells
  <2> QED  BY <2>1, <2>3, <2>4
<1>4. ASSUME NEW q \in Runs, q # r, status'[q] = "ok", NEW c \in Cells
      PROVE  \E f \in files : f.cell = c /\ f.whole /\ (skip[q] \/ f.live = ~dry[q])
  BY <1>1, <1>4 DEF CleanInv, CleanExitIsComplete
<1> QED  BY <1>2, <1>3, <1>4 DEF CleanExitIsComplete

LEMMA CleanStep == TypeOK /\ CleanInv /\ [Next]_vars => CleanInv'
<1> SUFFICES ASSUME TypeOK, CleanInv, [Next]_vars PROVE CleanInv'
  OBVIOUS
<1>a. files \subseteq files' /\ TypeOK'
  BY StepKeepsFiles, TypeStep
<1>1. ASSUME NEW r \in Runs, NEW c \in Cells, CellStep(r, c) PROVE CleanInv'
  BY <1>a, <1>1, CleanCellStep
<1>2. ASSUME NEW r \in Runs, Launch(r) PROVE CleanInv'
  <2>1. PICK s \in BOOLEAN, d \in BOOLEAN :
          /\ skip' = [skip EXCEPT ![r] = s] /\ dry' = [dry EXCEPT ![r] = d]
          /\ existing' = [existing EXCEPT ![r] = Index(s)]
    BY <1>2 DEF Launch
  <2>2. /\ status[r] = "off" /\ status' = [status EXCEPT ![r] = "up"]
        /\ files' = files /\ total' = total /\ cell' = cell
    BY <1>2 DEF Launch
  <2>3. /\ status'[r] = "up" /\ skip'[r] = s /\ existing'[r] = Index(s)
        /\ \A c \in Cells : cell'[r][c].at = "queued"
    BY <2>1, <2>2 DEF TypeOK, CleanInv, MemoryInv, Parked
  <2>4. ASSUME NEW q \in Runs, q # r
        PROVE  /\ status'[q] = status[q] /\ skip'[q] = skip[q] /\ dry'[q] = dry[q]
               /\ existing'[q] = existing[q]
    BY <2>1, <2>2, <2>4 DEF TypeOK
  <2>5. MemoryInv'
    BY <2>2, <2>3, <2>4 DEF CleanInv, MemoryInv, Parked
  <2>6. ASSUME NEW q \in Runs, status'[q] = "up", NEW c \in Cells PROVE Evidence(q, c)'
    <3>1. CASE q = r
      BY <2>3, <3>1 DEF Evidence, InCall
    <3>2. CASE q # r
      BY <2>2, <2>4, <2>6, <3>2 DEF CleanInv, EvidenceInv, Evidence, Halted
    <3> QED  BY <3>1, <3>2
  <2>7. ASSUME NEW q \in Runs, status'[q] = "up"
        PROVE  existing'[q] \subseteq WholeCells' /\ (existing'[q] # {} => skip'[q])
    <3>1. CASE q = r
      BY <2>2, <2>3, <3>1 DEF Index, WholeCells
    <3>2. CASE q # r
      BY <2>2, <2>4, <2>7, <3>2 DEF CleanInv, EvidenceInv, WholeCells
    <3> QED  BY <3>1, <3>2
  <2>8. CleanExitIsComplete'
    BY <2>2, <2>3, <2>4 DEF CleanInv, CleanExitIsComplete
  <2> QED  BY <2>5, <2>6, <2>7, <2>8 DEF CleanInv, EvidenceInv
<1>3. ASSUME NEW r \in Runs, Finish(r) PROVE CleanInv'
  <2>1. Outcome(r) \in Ended
    BY DEF Outcome, Ended
  <2>2. MemoryInv' /\ EvidenceInv'
    BY <1>a, <1>3, <2>1, EndKeepsOthers DEF Finish
  <2> QED  BY <1>3, <2>2, CleanFinish DEF CleanInv
<1>4. ASSUME NEW r \in Runs, Crash(r) \/ \E c \in Cells : CrashWriting(r, c) PROVE CleanInv'
  <2>1. End(r, "dead") /\ dry' = dry /\ skip' = skip /\ "dead" \in Ended
    BY <1>4 DEF Crash, CrashWriting, Ended
  <2>2. MemoryInv' /\ EvidenceInv'
    BY <1>a, <2>1, EndKeepsOthers
  <2>3. \A q \in Runs : status'[q] = "ok" => status[q] = "ok"
    BY <2>1 DEF End, TypeOK
  <2>4. CleanExitIsComplete'
    BY <1>a, <2>1, <2>3 DEF CleanInv, CleanExitIsComplete
  <2> QED  BY <2>2, <2>4 DEF CleanInv
<1>5. CASE Tick \/ UNCHANGED vars
  <2>1. UNCHANGED <<files, total, cell, launch>>
    BY <1>5 DEF Tick, vars, launch
  <2> QED
    BY <2>1 DEF launch, CleanInv, MemoryInv, EvidenceInv, Evidence, Halted, WholeCells,
                CleanExitIsComplete
<1> QED  BY <1>1, <1>2, <1>3, <1>4, <1>5 DEF Next

\* A launch that exits 0 has left a complete record of every cell.
THEOREM CleanExitsAreComplete == Spec => []CleanExitIsComplete
<1>1. CleanInv => CleanExitIsComplete
  BY DEF CleanInv
<1> QED  BY <1>1, TypeInit, TypeStep, CleanInit, CleanStep, PTL DEF Spec

-----------------------------------------------------------------------------
(* Resuming.  A launch that is alone is the only writer, so what its index   *)
(* misses it has written itself, in cells that no longer wait.               *)

AloneInv ==
  \A r \in Runs : status[r] = "up" /\ alone[r] =>
      /\ \A q \in Runs \ {r} : status[q] # "up"
      /\ skip[r] => \A c \in Cells :
            cell[r][c].at = "queued" /\ c \in WholeCells => c \in existing[r]

LEMMA AloneInit == Init => AloneInv
  BY DEF Init, AloneInv

LEMMA AloneCellStep ==
  ASSUME TypeOK, AloneInv, NEW r \in Runs, NEW c \in Cells, CellStep(r, c)
  PROVE  AloneInv'
<1>1. CellEffect(r, c)
  BY CellStepEffect
<1>2. /\ status' = status /\ skip' = skip /\ existing' = existing /\ alone' = alone
      /\ status[r] = "up" /\ MoveEffect(r, c) /\ cell'[r][c].at # "queued"
      /\ \A f \in files' \ files : f.cell = c
  BY <1>1 DEF CellEffect, launch
<1>3. WholeCells' \subseteq WholeCells \cup {c}
  BY <1>2 DEF WholeCells
<1>4. ASSUME NEW q \in Runs, status[q] = "up", alone[q], skip[q], NEW d \in Cells,
             cell'[q][d].at = "queued", d \in WholeCells'
      PROVE  d \in existing[q]
  <2>1. q = r /\ d # c
    BY <1>2, <1>4 DEF AloneInv
  <2>2. cell[q][d].at = "queued" /\ d \in WholeCells
    BY <1>2, <1>3, <1>4, <2>1 DEF MoveEffect
  <2> QED  BY <1>4, <2>2 DEF AloneInv
<1> QED  BY <1>2, <1>4 DEF AloneInv

LEMMA AloneStep == TypeOK /\ AloneInv /\ [Next]_vars => AloneInv'
<1> SUFFICES ASSUME TypeOK, AloneInv, [Next]_vars PROVE AloneInv'
  OBVIOUS
<1>1. ASSUME NEW r \in Runs, NEW c \in Cells, CellStep(r, c) PROVE AloneInv'
  BY <1>1, AloneCellStep
<1>2. ASSUME NEW r \in Runs, Launch(r) PROVE AloneInv'
  <2>1. PICK s \in BOOLEAN : /\ skip' = [skip EXCEPT ![r] = s]
                             /\ existing' = [existing EXCEPT ![r] = Index(s)]
    BY <1>2 DEF Launch
  <2>2. /\ status' = [status EXCEPT ![r] = "up"] /\ files' = files /\ cell' = cell
        /\ alone' = [q \in Runs |-> IF q = r THEN \A o \in Runs : status[o] # "up"
                                     ELSE alone[q] /\ status[q] # "up"]
    BY <1>2 DEF Launch
  <2>3. ASSUME NEW q \in Runs, status'[q] = "up", alone'[q] PROVE q = r
    BY <2>2, <2>3 DEF TypeOK
  <2>4. ASSUME alone'[r] PROVE \A q \in Runs \ {r} : status'[q] # "up"
    BY <2>2, <2>4 DEF TypeOK
  <2>5. ASSUME skip'[r] PROVE existing'[r] = WholeCells'
    BY <2>1, <2>2, <2>5 DEF TypeOK, Index, WholeCells
  <2> QED  BY <2>3, <2>4, <2>5 DEF AloneInv
<1>3. ASSUME NEW r \in Runs, Finish(r) \/ Crash(r) \/ \E c \in Cells : CrashWriting(r, c)
      PROVE  AloneInv'
  <2>1. PICK how \in Ended : End(r, how)
    BY <1>3 DEF Finish, Crash, CrashWriting, Outcome, Ended
  <2>2. /\ status[r] = "up" /\ skip' = skip /\ alone' = alone
    BY <1>3 DEF Finish, Crash, CrashWriting, Awaiting, Fresh, Admitted
  <2>3. status'[r] # "up"
    BY <2>1 DEF End, TypeOK, Ended
  <2>4. ASSUME NEW q \in Runs, q # r PROVE status'[q] = status[q]
    BY <2>1, <2>4 DEF End, TypeOK
  <2>5. ASSUME NEW q \in Runs, status'[q] = "up" PROVE ~alone'[q]
    BY <2>2, <2>3, <2>4, <2>5 DEF AloneInv
  <2> QED  BY <2>5 DEF AloneInv
<1>4. CASE Tick \/ UNCHANGED vars
  BY <1>4 DEF Tick, vars, launch, AloneInv, WholeCells
<1> QED  BY <1>1, <1>2, <1>3, <1>4 DEF Next

\* Only a cell's own step sends its first request.
LEMMA FirstRequest ==
  ASSUME TypeOK, [Next]_vars, NEW r \in Runs, NEW c \in Cells,
         cell[r][c].at = "queued", cell'[r][c].at = "calling"
  PROVE  status[r] = "up" /\ c \notin existing[r]
<1>1. ASSUME NEW q \in Runs, NEW d \in Cells, CellStep(q, d) PROVE q = r /\ d = c
  <2>1. MoveEffect(q, d)
    BY <1>1, CellStepEffect DEF CellEffect
  <2> QED  BY <2>1 DEF MoveEffect
<1>2. ASSUME NEW q \in Runs, Finish(q) \/ Crash(q) \/ \E d \in Cells : CrashWriting(q, d)
      PROVE  FALSE
  <2>1. cell' = [cell EXCEPT ![q] = [d \in Cells |-> Parked("queued")]]
    BY <1>2 DEF Finish, Crash, CrashWriting, End
  <2> QED  BY <2>1 DEF TypeOK, Parked
<1>3. ASSUME Tick \/ UNCHANGED vars \/ \E q \in Runs : Launch(q) PROVE FALSE
  BY <1>3 DEF Tick, vars, Launch
<1>4. CellStep(r, c)
  BY <1>1, <1>2, <1>3 DEF Next
<1>5. CellEffect(r, c)
  BY <1>4, CellStepEffect
<1> QED  BY <1>5 DEF CellEffect, InCall

\* A resumed launch that is alone sends nothing for a recorded cell.
THEOREM ResumePaysOnce == Spec => ResumeNeverRefires
<1>1. TypeOK /\ AloneInv /\ [Next]_vars =>
        [\A r \in Runs, c \in Cells :
          (skip[r] /\ alone[r] /\ cell[r][c].at = "queued" /\ cell'[r][c].at = "calling")
            => c \notin WholeCells]_vars
  BY FirstRequest DEF AloneInv
<1> QED
  BY <1>1, TypeInit, TypeStep, AloneInit, AloneStep, PTL DEF Spec, ResumeNeverRefires

-----------------------------------------------------------------------------
(* The ceiling.  Each cell in flight reserves the price of a whole loop: the *)
(* ledger and the reservations together never pass the ceiling by more than  *)
(* the slots can reserve.                                                    *)

Reserved(r) == Cardinality(InFlight(r)) * CellCap

SpendInv ==
  \A r \in Runs :
      /\ Cardinality(InFlight(r)) <= Concurrency
      /\ total[r] + Reserved(r) < Ceiling + Concurrency * CellCap

\* What a cell owes leaves room for its current request.
OwedInv ==
  \A r \in Runs, c \in Cells : cell[r][c].at \in InCall =>
      cell[r][c].owed + MaxCost <= cell[r][c].request * MaxCost

LEMMA CapType == CellCap \in Nat /\ Concurrency * CellCap \in Nat
<1>1. CellCap \in Nat
  BY BenchmarkAssumption, Products DEF CellCap
<1> QED  BY <1>1, BenchmarkAssumption, Products

LEMMA FlightIsFinite ==
  ASSUME NEW r \in Runs
  PROVE  /\ IsFiniteSet(InFlight(r)) /\ Cardinality(InFlight(r)) \in Nat
         /\ Reserved(r) \in Nat
<1>1. IsFiniteSet(Cells)
  BY BenchmarkAssumption, FS_Interval DEF Cells
<1>2. IsFiniteSet(InFlight(r)) /\ Cardinality(InFlight(r)) \in Nat
  BY <1>1, FS_Subset, FS_CardinalityType DEF InFlight
<1> QED  BY <1>2, CapType, Products DEF Reserved

\* A cell that neither enters nor leaves its call changes nothing here.
LEMMA OthersFlight ==
  ASSUME NEW r \in Runs, cell'[r] = cell[r]
  PROVE  InFlight(r)' = InFlight(r) /\ Reserved(r)' = Reserved(r)
  BY DEF InFlight, Reserved

\* The steps after which a cell is in no call.
Settles(r, c) ==
  SkipCell(r, c) \/ RefuseCell(r, c) \/ DryCell(r, c) \/ CallFails(r, c) \/ Answer(r, c)

LEMMA SettledIsOut ==
  ASSUME TypeOK, NEW r \in Runs, NEW c \in Cells, Settles(r, c)
  PROVE  cell'[r][c].at \notin InCall
<1>1. ASSUME NEW p \in {"skipped", "failed", "written"}, cell'[r][c] = Parked(p)
      PROVE  cell'[r][c].at \notin InCall
  BY <1>1 DEF Parked, InCall
<1>2. CASE SkipCell(r, c)
  BY <1>1, <1>2, MoveIsLocal DEF SkipCell
<1>3. CASE RefuseCell(r, c)
  BY <1>1, <1>3, MoveIsLocal DEF RefuseCell
<1>4. CASE CallFails(r, c)
  BY <1>1, <1>4, MoveIsLocal DEF CallFails
<1>5. CASE DryCell(r, c)
  BY <1>1, <1>5, WriteEffect DEF DryCell
<1>6. CASE Answer(r, c)
  BY <1>1, <1>6, WriteEffect DEF Answer
<1> QED  BY <1>2, <1>3, <1>4, <1>5, <1>6 DEF Settles

LEMMA SpendInit == Init => SpendInv /\ OwedInv
<1> SUFFICES ASSUME Init PROVE SpendInv /\ OwedInv
  OBVIOUS
<1>1. \A r \in Runs : InFlight(r) = {} /\ total[r] = 0
  BY DEF Init, InFlight, Parked
<1>2. Cardinality({}) = 0 /\ 0 * CellCap = 0
  BY FS_EmptySet, CapType
<1>3. \A r \in Runs : Cardinality(InFlight(r)) = 0 /\ Reserved(r) = 0
  BY <1>1, <1>2 DEF Reserved
<1>4. SpendInv
  BY <1>1, <1>3, CapType, BenchmarkAssumption DEF SpendInv
<1>5. OwedInv
  BY DEF Init, OwedInv, Parked, InCall
<1> QED  BY <1>4, <1>5

\* The prices a call in flight can still add are covered by its request.
LEMMA OwedStep == TypeOK /\ OwedInv /\ [Next]_vars => OwedInv'
<1> SUFFICES ASSUME TypeOK, OwedInv, [Next]_vars PROVE OwedInv'
  OBVIOUS
<1> USE DEF OwedInv, InCall
<1>1. ASSUME NEW r \in Runs, NEW c \in Cells, CellStep(r, c),
             cell'[r][c].at \in InCall
      PROVE  cell'[r][c].owed + MaxCost <= cell'[r][c].request * MaxCost
  <2> DEFINE here == cell[r][c]
  <2>0. here \in CellState
    BY DEF TypeOK
  <2>1. CASE Settles(r, c)
    BY <1>1, <2>1, SettledIsOut
  <2>2. CASE SendFirst(r, c)
    <3>1. cell'[r][c] = Sending(1, 0, clock)
      BY <2>2, MoveIsLocal DEF SendFirst
    <3> QED  BY <3>1, BenchmarkAssumption DEF Sending
  <2>3. CASE RateLimited(r, c) \/ SendAgain(r, c)
    <3>0. \/ cell'[r][c] = [here EXCEPT !.at = "backoff", !.attempt = @ + 1]
          \/ cell'[r][c] = [here EXCEPT !.at = "calling"]
      <4>1. CASE RateLimited(r, c)
        BY <4>1, MoveIsLocal DEF RateLimited
      <4>2. CASE SendAgain(r, c)
        BY <4>2, MoveIsLocal DEF SendAgain
      <4> QED  BY <2>3, <4>1, <4>2
    <3>1. cell'[r][c].owed = here.owed /\ cell'[r][c].request = here.request
      BY <2>0, <3>0 DEF CellState
    <3>2. here.at \in InCall
      BY <2>3 DEF RateLimited, SendAgain, Awaiting
    <3> QED  BY <3>1, <3>2
  <2>4. CASE ToolCalls(r, c)
    <3>1. PICK usd \in Costs : Move(r, c, Sending(here.request + 1, here.owed + usd, here.stamp))
      BY <2>4 DEF ToolCalls
    <3>2. cell'[r][c] = Sending(here.request + 1, here.owed + usd, here.stamp)
      BY <3>1, MoveIsLocal
    <3>3. here.owed + MaxCost <= here.request * MaxCost
      BY <2>4 DEF ToolCalls, Awaiting
    <3>4. usd \in Nat /\ usd <= MaxCost /\ here.owed \in Nat /\ here.request \in Nat /\ MaxCost \in Nat
      BY <2>0, BenchmarkAssumption DEF CellState
    <3>5. (here.request + 1) * MaxCost = here.request * MaxCost + MaxCost /\ here.request * MaxCost \in Nat
      BY <3>4, Products
    <3>6. cell'[r][c].owed = here.owed + usd /\ cell'[r][c].request = here.request + 1
      BY <3>2 DEF Sending
    <3> QED  BY <3>3, <3>4, <3>5, <3>6
  <2> QED  BY <1>1, <2>1, <2>2, <2>3, <2>4 DEF CellStep, Settles
<1>2. ASSUME NEW r \in Runs, NEW c \in Cells, CellStep(r, c) PROVE OwedInv'
  <2>1. MoveEffect(r, c)
    BY <1>2, CellStepEffect DEF CellEffect
  <2> QED  BY <1>1, <1>2, <2>1 DEF MoveEffect
<1>3. ASSUME NEW r \in Runs, Finish(r) \/ Crash(r) \/ \E c \in Cells : CrashWriting(r, c)
      PROVE  OwedInv'
  <2>1. cell' = [cell EXCEPT ![r] = [d \in Cells |-> Parked("queued")]]
    BY <1>3 DEF Finish, Crash, CrashWriting, End
  <2> QED  BY <2>1 DEF TypeOK, Parked
<1>4. CASE Tick \/ UNCHANGED vars \/ \E r \in Runs : Launch(r)
  BY <1>4 DEF Tick, vars, Launch
<1> QED  BY <1>2, <1>3, <1>4 DEF Next

\* A step of a cell: it enters its call under the ceiling, or leaves it and
\* turns its reservation into cost, or neither.
LEMMA SpendCellStep ==
  ASSUME TypeOK, TypeOK', OwedInv, SpendInv, NEW r \in Runs, NEW c \in Cells, CellStep(r, c)
  PROVE  SpendInv'
<1> DEFINE here == cell[r][c]
           K == Cardinality(InFlight(r))
<1>0. /\ IsFiniteSet(InFlight(r)) /\ K \in Nat /\ CellCap \in Nat /\ Concurrency * CellCap \in Nat
      /\ K * CellCap \in Nat /\ Ceiling \in Nat /\ Concurrency \in Nat
      /\ total[r] \in Nat /\ total'[r] \in Nat
      /\ K <= Concurrency /\ total[r] + K * CellCap < Ceiling + Concurrency * CellCap
  BY FlightIsFinite, CapType, BenchmarkAssumption DEF SpendInv, Reserved, TypeOK
<1>1. MoveEffect(r, c) /\ \A q \in Runs \ {r} : total'[q] = total[q]
  BY CellStepEffect DEF CellEffect
<1>2. ASSUME NEW q \in Runs, q # r
      PROVE  /\ Cardinality(InFlight(q)') <= Concurrency
             /\ total'[q] + Reserved(q)' < Ceiling + Concurrency * CellCap
  <2>1. InFlight(q)' = InFlight(q) /\ total'[q] = total[q]
    BY <1>1, <1>2 DEF MoveEffect, InFlight
  <2> QED  BY <2>1 DEF SpendInv, Reserved
<1>3. CASE InFlight(r)' = InFlight(r) /\ total' = total
  BY <1>0, <1>2, <1>3 DEF SpendInv, Reserved
<1>4. CASE SendFirst(r, c)
  <2>1. here.at = "queued" /\ K < Concurrency /\ total[r] < Ceiling /\ total' = total
    BY <1>0, <1>4 DEF SendFirst, Fresh, Admitted, Halted
  <2>2. cell'[r][c].at = "calling"
    BY <1>4, MoveIsLocal DEF SendFirst, Sending
  <2>3. InFlight(r)' = InFlight(r) \cup {c} /\ c \notin InFlight(r)
    BY <1>1, <2>1, <2>2 DEF MoveEffect, InFlight
  <2>4. Cardinality(InFlight(r)') = K + 1
    BY <1>0, <2>3, FS_AddElement
  <2>5. (K + 1) * CellCap <= Concurrency * CellCap /\ (K + 1) * CellCap \in Nat
    BY <1>0, <2>1, Products
  <2> QED  BY <1>0, <1>2, <2>1, <2>4, <2>5 DEF SpendInv, Reserved
<1>5. CASE CallFails(r, c) \/ Answer(r, c)
  <2>1. here.at = "calling" /\ here \in CellState
    <3>1. here.at = "calling"
      BY <1>5 DEF CallFails, Answer, Awaiting
    <3>2. here \in CellState
      BY DEF TypeOK
    <3> QED  BY <3>1, <3>2
  <2>2. cell'[r][c].at \notin InCall
    BY <1>5, SettledIsOut DEF Settles
  <2>3. InFlight(r)' = InFlight(r) \ {c} /\ c \in InFlight(r)
    BY <1>1, <2>1, <2>2 DEF MoveEffect, InFlight, InCall
  <2>4. Cardinality(InFlight(r)') = K - 1 /\ K - 1 \in Nat
    <3>1. IsFiniteSet(InFlight(r) \ {c}) /\ Cardinality(InFlight(r) \ {c}) = K - 1
      BY <1>0, <2>3, FS_RemoveElement
    <3>2. Cardinality(InFlight(r) \ {c}) \in Nat
      BY <3>1, FS_CardinalityType
    <3> QED  BY <2>3, <3>1, <3>2
  <2>5. K * CellCap = (K - 1) * CellCap + CellCap /\ (K - 1) * CellCap \in Nat
    <3>1. ((K - 1) + 1) * CellCap = (K - 1) * CellCap + CellCap /\ (K - 1) * CellCap \in Nat
      BY <1>0, <2>4, Products
    <3>2. (K - 1) + 1 = K
      BY <1>0
    <3> QED  BY <3>1, <3>2
  <2>6. total'[r] <= total[r] + CellCap
    <3>1. CASE CallFails(r, c)
      BY <1>0, <3>1 DEF CallFails
    <3>2. CASE Answer(r, c)
      <4>1. PICK usd \in Costs : total' = [total EXCEPT ![r] = @ + here.owed + usd]
        BY <3>2 DEF Answer
      <4>2. here.owed + MaxCost <= here.request * MaxCost
        BY <2>1 DEF OwedInv, InCall
      <4>3. /\ here.request \in Nat /\ here.request <= MaxIterations + 1 /\ MaxIterations + 1 \in Nat
            /\ here.owed \in Nat /\ usd \in Nat /\ usd <= MaxCost /\ MaxCost \in Nat
        BY <2>1, BenchmarkAssumption DEF CellState
      <4>4. here.request * MaxCost <= CellCap /\ here.request * MaxCost \in Nat
        BY <4>3, Products DEF CellCap
      <4>5. total'[r] = total[r] + here.owed + usd
        BY <4>1 DEF TypeOK
      <4> QED  BY <1>0, <4>2, <4>3, <4>4, <4>5
    <3> QED  BY <1>5, <3>1, <3>2
  <2> QED  BY <1>0, <1>2, <2>4, <2>5, <2>6 DEF SpendInv, Reserved
<1>6. CASE RateLimited(r, c) \/ SendAgain(r, c) \/ ToolCalls(r, c)
  <2>1. here.at \in InCall /\ total' = total
    BY <1>6 DEF RateLimited, SendAgain, ToolCalls, Awaiting, InCall
  <2>2. cell'[r][c].at \in InCall
    <3>1. here \in CellState
      BY DEF TypeOK
    <3>2. CASE RateLimited(r, c)
      <4>1. cell'[r][c] = [here EXCEPT !.at = "backoff", !.attempt = @ + 1]
        BY <3>2, MoveIsLocal DEF RateLimited
      <4> QED  BY <3>1, <4>1 DEF CellState, InCall
    <3>3. CASE SendAgain(r, c)
      <4>1. cell'[r][c] = [here EXCEPT !.at = "calling"]
        BY <3>3, MoveIsLocal DEF SendAgain
      <4> QED  BY <3>1, <4>1 DEF CellState, InCall
    <3>4. CASE ToolCalls(r, c)
      <4>1. PICK usd \in Costs : Move(r, c, Sending(here.request + 1, here.owed + usd, here.stamp))
        BY <3>4 DEF ToolCalls
      <4> QED  BY <4>1, MoveIsLocal DEF Sending, InCall
    <3> QED  BY <1>6, <3>2, <3>3, <3>4
  <2>3. InFlight(r)' = InFlight(r)
    BY <1>1, <2>1, <2>2 DEF MoveEffect, InFlight, InCall
  <2> QED  BY <1>3, <2>1, <2>3
<1>7. CASE SkipCell(r, c) \/ RefuseCell(r, c) \/ DryCell(r, c)
  <2>1. here.at = "queued" /\ total' = total
    BY <1>7 DEF SkipCell, RefuseCell, DryCell, Fresh, Admitted
  <2>2. cell'[r][c].at \notin InCall
    BY <1>7, SettledIsOut DEF Settles
  <2>3. InFlight(r)' = InFlight(r)
    BY <1>1, <2>1, <2>2 DEF MoveEffect, InFlight, InCall
  <2> QED  BY <1>3, <2>1, <2>3
<1> QED  BY <1>4, <1>5, <1>6, <1>7 DEF CellStep

LEMMA SpendStep == TypeOK /\ OwedInv /\ SpendInv /\ [Next]_vars => SpendInv'
<1> SUFFICES ASSUME TypeOK, OwedInv, SpendInv, [Next]_vars PROVE SpendInv'
  OBVIOUS
<1>1. ASSUME NEW r \in Runs, NEW c \in Cells, CellStep(r, c) PROVE SpendInv'
  BY <1>1, TypeStep, SpendCellStep
<1>2. ASSUME NEW r \in Runs, Finish(r) \/ Crash(r) \/ \E c \in Cells : CrashWriting(r, c)
      PROVE  SpendInv'
  <2>1. /\ cell' = [cell EXCEPT ![r] = [d \in Cells |-> Parked("queued")]]
        /\ total' = [total EXCEPT ![r] = 0]
    BY <1>2 DEF Finish, Crash, CrashWriting, End
  <2>2. InFlight(r)' = {} /\ total'[r] = 0
    BY <2>1 DEF TypeOK, Parked, InFlight
  <2>3. Cardinality({}) = 0 /\ 0 * CellCap = 0
    BY FS_EmptySet, CapType
  <2>4. ASSUME NEW q \in Runs, q # r
        PROVE  InFlight(q)' = InFlight(q) /\ Reserved(q)' = Reserved(q) /\ total'[q] = total[q]
    BY <2>1, <2>4, OthersFlight DEF TypeOK
  <2> QED  BY <2>2, <2>3, <2>4, CapType, BenchmarkAssumption DEF SpendInv, Reserved
<1>3. CASE Tick \/ UNCHANGED vars \/ \E r \in Runs : Launch(r)
  BY <1>3 DEF Tick, vars, Launch, SpendInv, Reserved, InFlight
<1> QED  BY <1>1, <1>2, <1>3 DEF Next

\* No ledger passes its ceiling by what the semaphore's slots can cost.
THEOREM OvershootIsBounded == Spec => []OvershootBounded
<1>1. TypeOK /\ SpendInv => OvershootBounded
  BY FlightIsFinite, CapType, BenchmarkAssumption DEF SpendInv, OvershootBounded, TypeOK
<1> QED
  BY <1>1, TypeInit, TypeStep, SpendInit, OwedStep, SpendStep, PTL DEF Spec
=============================================================================
