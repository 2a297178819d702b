--------------------------- MODULE BenchmarkRunner ---------------------------
(***************************************************************************)
(* scripts/run_benchmark.py: launches of one experiment that share its     *)
(* runs directory.  A launch schedules every cell at once under a          *)
(* semaphore; a cell sends its requests, commits their cost to the         *)
(* launch's own ledger and writes one record.  Launches may follow each    *)
(* other, after a crash for instance, or overlap.  A single-shot cell is a *)
(* tool loop of no iteration: its one request is the closing one.          *)
(***************************************************************************)
EXTENDS Integers, FiniteSets

CONSTANTS
    Runs,             \* launches of the command
    NumCells,         \* cells of the experiment, in their scheduling order
    Concurrency,      \* size of the semaphore
    MaxAttempts,      \* RATE_LIMIT_MAX_ATTEMPTS
    MaxIterations,    \* tool-loop cap; 0 is a single-shot experiment
    Costs,            \* what one request may cost
    MaxCost,          \* a bound on Costs
    Ceiling,          \* budget.hard_ceiling_usd
    MaxClock          \* bound: seconds that file names tell apart

ASSUME BenchmarkAssumption ==
    /\ NumCells \in Nat /\ Concurrency \in Nat \ {0}
    /\ MaxAttempts \in Nat \ {0} /\ MaxIterations \in Nat
    /\ MaxCost \in Nat /\ Costs \subseteq 0..MaxCost
    /\ Ceiling \in Nat \ {0} /\ MaxClock \in Nat

Cells == 1..NumCells

VARIABLES
    files,      \* records under runs/, each with the second in its name
    clock,      \* the wall clock, in seconds
    status,     \* status[r]: not launched, running, or how it ended
    skip,       \* skip[r]: launched with --skip-existing
    dry,        \* dry[r]: launched with --dry-run
    existing,   \* existing[r]: cells found on disk at the launch
    total,      \* total[r]: the launch's BudgetTracker
    cell,       \* cell[r][c]: where the cell's coroutine is
    alone       \* alone[r]: history, no other launch ran during r

launch == <<status, skip, dry, existing, alone>>
vars == <<files, clock, status, skip, dry, existing, total, cell, alone>>

Ended == {"ok", "budget", "error", "dead"}
Places == {"queued", "calling", "backoff", "skipped", "failed", "written"}

Record == [cell : Cells, time : 0..MaxClock, live : BOOLEAN, whole : BOOLEAN]
CellState == [at : Places, request : 0..MaxIterations + 1,
              attempt : 0..MaxAttempts - 1, owed : Nat, stamp : 0..MaxClock]

\* A cell that holds no request.
Parked(place) == [at |-> place, request |-> 0, attempt |-> 0, owed |-> 0, stamp |-> 0]
\* The cell's first request of call number n, sent under the given name.
Sending(n, owed, stamp) ==
    [at |-> "calling", request |-> n, attempt |-> 0, owed |-> owed, stamp |-> stamp]

InFlight(r) == {c \in Cells : cell[r][c].at \in {"calling", "backoff"}}
Halted(r) == total[r] >= Ceiling
WholeCells == {f.cell : f \in {g \in files : g.whole}}
Taken(c, t) == \E f \in files : f.cell = c /\ f.time = t

\* What a file opened for cell c under time t leaves in the directory.
Filed(c, t, live, whole) ==
    {f \in files : ~(f.cell = c /\ f.time = t)}
        \cup {[cell |-> c, time |-> t, live |-> live, whole |-> whole]}

Init ==
    /\ files = {} /\ clock = 0
    /\ status = [r \in Runs |-> "off"]
    /\ skip = [r \in Runs |-> FALSE] /\ dry = [r \in Runs |-> FALSE]
    /\ existing = [r \in Runs |-> {}]
    /\ total = [r \in Runs |-> 0]
    /\ cell = [r \in Runs |-> [c \in Cells |-> Parked("queued")]]
    /\ alone = [r \in Runs |-> TRUE]

-----------------------------------------------------------------------------
(* One launch. *)

\* The directory is indexed once, before any cell is scheduled.
Index(s) == IF s THEN WholeCells ELSE {}

Launch(r) ==
    /\ status[r] = "off"
    /\ \E s, d \in BOOLEAN :
        /\ skip' = [skip EXCEPT ![r] = s]
        /\ dry' = [dry EXCEPT ![r] = d]
        /\ existing' = [existing EXCEPT ![r] = Index(s)]
    /\ status' = [status EXCEPT ![r] = "up"]
    /\ alone' = [q \in Runs |-> IF q = r THEN \A o \in Runs : status[o] # "up"
                                ELSE alone[q] /\ status[q] # "up"]
    /\ UNCHANGED <<files, clock, total, cell>>

\* The semaphore lets cells in by their order, one for each free slot.
Admitted(r, c) ==
    /\ status[r] = "up"
    /\ cell[r][c].at = "queued"
    /\ \A d \in Cells : d < c => cell[r][d].at # "queued"
    /\ Cardinality(InFlight(r)) < Concurrency

\* Deviation: a waiting cell does not look at the ledger again.
FreshUnbudgeted(r, c) == Admitted(r, c) /\ c \notin existing[r]

\* Deviation: the index is built and not consulted.
FreshUnindexed(r, c) == Admitted(r, c) /\ ~Halted(r)

Fresh(r, c) == Admitted(r, c) /\ ~Halted(r) /\ c \notin existing[r]

Move(r, c, to) == cell' = [cell EXCEPT ![r][c] = to]

SkipCell(r, c) ==
    /\ Admitted(r, c)
    /\ Halted(r) \/ c \in existing[r]
    /\ Move(r, c, Parked("skipped"))
    /\ UNCHANGED <<files, clock, total, launch>>

RefuseCell(r, c) ==
    /\ Fresh(r, c)
    /\ Taken(c, clock)
    /\ Move(r, c, Parked("failed"))
    /\ UNCHANGED <<files, clock, total, launch>>

\* Deviation: the record is opened with mode "w".
WriteRecordOverwriting(r, c, t, live) ==
    files' = Filed(c, t, live, TRUE) /\ Move(r, c, Parked("written"))

\* The exclusive open refuses a name taken since the cell began.
WriteRecord(r, c, t, live) ==
    IF Taken(c, t)
    THEN files' = files /\ Move(r, c, Parked("failed"))
    ELSE files' = Filed(c, t, live, TRUE) /\ Move(r, c, Parked("written"))

\* A dry cell writes its zero-usage record without leaving the event loop.
DryCell(r, c) ==
    /\ Fresh(r, c) /\ ~Taken(c, clock)
    /\ dry[r]
    /\ WriteRecord(r, c, clock, FALSE)
    /\ UNCHANGED <<clock, total, launch>>

SendFirst(r, c) ==
    /\ Fresh(r, c) /\ ~Taken(c, clock)
    /\ ~dry[r]
    /\ Move(r, c, Sending(1, 0, clock))
    /\ UNCHANGED <<files, clock, total, launch>>

Awaiting(r, c) == status[r] = "up" /\ cell[r][c].at = "calling"

RetriesLeft(n) == n < MaxAttempts - 1

RateLimited(r, c) ==
    /\ Awaiting(r, c)
    /\ RetriesLeft(cell[r][c].attempt)
    /\ Move(r, c, [cell[r][c] EXCEPT !.at = "backoff", !.attempt = @ + 1])
    /\ UNCHANGED <<files, clock, total, launch>>

SendAgain(r, c) ==
    /\ status[r] = "up" /\ cell[r][c].at = "backoff"
    /\ Move(r, c, [cell[r][c] EXCEPT !.at = "calling"])
    /\ UNCHANGED <<files, clock, total, launch>>

\* A 429 on the last attempt, another error, or usage that cannot be priced.
CallFails(r, c) ==
    /\ Awaiting(r, c)
    /\ Move(r, c, Parked("failed"))
    /\ UNCHANGED <<files, clock, total, launch>>

\* The model asks for tools: their results go out with the next request.
ToolCalls(r, c) ==
    /\ Awaiting(r, c)
    /\ cell[r][c].request <= MaxIterations
    /\ \E usd \in Costs :
        Move(r, c, Sending(cell[r][c].request + 1, cell[r][c].owed + usd, cell[r][c].stamp))
    /\ UNCHANGED <<files, clock, total, launch>>

\* budget.record, then the record: a refused one has its cost committed.
Answer(r, c) ==
    /\ Awaiting(r, c)
    /\ \E usd \in Costs : total' = [total EXCEPT ![r] = @ + cell[r][c].owed + usd]
    /\ WriteRecord(r, c, cell[r][c].stamp, TRUE)
    /\ UNCHANGED <<clock, launch>>

\* Deviation: a halted launch exits 0.
OutcomeIgnoringBudget(r) ==
    IF \E c \in Cells : cell[r][c].at = "failed" THEN "error" ELSE "ok"

Outcome(r) == IF \E c \in Cells : cell[r][c].at = "failed" THEN "error"
              ELSE IF Halted(r) THEN "budget" ELSE "ok"

\* The process is gone, and its memory with it.
End(r, how) ==
    /\ status' = [status EXCEPT ![r] = how]
    /\ total' = [total EXCEPT ![r] = 0]
    /\ existing' = [existing EXCEPT ![r] = {}]
    /\ cell' = [cell EXCEPT ![r] = [c \in Cells |-> Parked("queued")]]

\* gather returns once every cell has.
Finish(r) ==
    /\ status[r] = "up"
    /\ \A c \in Cells : cell[r][c].at \in {"skipped", "failed", "written"}
    /\ End(r, Outcome(r))
    /\ UNCHANGED <<files, clock, skip, dry, alone>>

Crash(r) ==
    /\ status[r] = "up"
    /\ End(r, "dead")
    /\ UNCHANGED <<files, clock, skip, dry, alone>>

\* The process dies inside json.dump and leaves part of a record.
CrashWriting(r, c) ==
    /\ \/ /\ Awaiting(r, c) /\ ~Taken(c, cell[r][c].stamp)
          /\ files' = Filed(c, cell[r][c].stamp, TRUE, FALSE)
       \/ /\ Fresh(r, c) /\ dry[r] /\ ~Taken(c, clock)
          /\ files' = Filed(c, clock, FALSE, FALSE)
    /\ End(r, "dead")
    /\ UNCHANGED <<clock, skip, dry, alone>>

Tick ==
    /\ clock < MaxClock
    /\ clock' = clock + 1
    /\ UNCHANGED <<files, total, cell, launch>>

CellStep(r, c) ==
    \/ SkipCell(r, c) \/ RefuseCell(r, c) \/ DryCell(r, c) \/ SendFirst(r, c)
    \/ RateLimited(r, c) \/ SendAgain(r, c) \/ CallFails(r, c)
    \/ ToolCalls(r, c) \/ Answer(r, c)

Next ==
    \/ Tick
    \/ \E r \in Runs : Launch(r) \/ Finish(r) \/ Crash(r)
    \/ \E r \in Runs, c \in Cells : CellStep(r, c) \/ CrashWriting(r, c)

Spec == Init /\ [][Next]_vars

-----------------------------------------------------------------------------
\* The variables hold what the program can put in them; a call's attempts and
\* a loop's requests stay within their caps (1433, range(RATE_LIMIT_MAX_ATTEMPTS);
\* 1705, the iterations and the closing request).
TypeOK ==
    /\ files \subseteq Record /\ clock \in 0..MaxClock
    /\ status \in [Runs -> {"off", "up"} \cup Ended]
    /\ skip \in [Runs -> BOOLEAN] /\ dry \in [Runs -> BOOLEAN]
    /\ existing \in [Runs -> SUBSET Cells]
    /\ total \in [Runs -> Nat]
    /\ cell \in [Runs -> [Cells -> CellState]]
    /\ alone \in [Runs -> BOOLEAN]

\* The ceiling is soft: cells in flight when the ledger crosses it finish and
\* are billed, but no more than the semaphore let in, each for a whole loop.
CellCap == (MaxIterations + 1) * MaxCost
OvershootBounded == \A r \in Runs : total[r] < Ceiling + Concurrency * CellCap

\* A launch that exits 0 leaves a complete record of every cell: its own kind
\* unless it was told to accept what it found (_run_async's result handling).
CleanExitIsComplete ==
    \A r \in Runs : status[r] = "ok" =>
        \A c \in Cells : \E f \in files :
            /\ f.cell = c /\ f.whole
            /\ skip[r] \/ f.live = ~dry[r]

\* The directory is append-only (methodology section 7), even when launches
\* overlap within the second that names their files.
RecordsAreKept == [][files \subseteq files']_vars

\* A resumed launch that has the directory to itself never pays again for a
\* cell with a complete record, although its index dates from the launch.
ResumeNeverRefires ==
    [][\A r \in Runs, c \in Cells :
        (skip[r] /\ alone[r] /\ cell[r][c].at = "queued" /\ cell'[r][c].at = "calling")
            => c \notin WholeCells]_vars
=============================================================================
