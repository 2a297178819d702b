------------------------------ MODULE SampleRuns ------------------------------
(***************************************************************************)
(* The output tree of a sample workspace: runs are staged in a hidden      *)
(* directory, published by one rename and pointed to by latest.json;       *)
(* failed rows of a published run are retried in a child run; the doctor   *)
(* deletes staging a crash left behind.                                    *)
(*                                                                         *)
(* The workspace lock is a variable here (module WorkspaceLock models how  *)
(* it is kept).  One action is one durable change of the tree, so that a   *)
(* crash can fall between any two; a failure is an exception at that point.*)
(***************************************************************************)
EXTENDS Integers, FiniteSets

CONSTANTS
  Runners,       \* processes of sample run and sample retry
  Doctors,       \* processes of sample doctor --repair-stale-lock
  RunIds,        \* bound: the run IDs that can be drawn
  Rows,          \* keys (row id, repeat index)
  Inputs,        \* versions of the input file
  RowsOf,        \* RowsOf[v]: the rows the ledger selects from version v
  NumArtifacts,  \* files of a run besides the marker
  FailsAt,       \* places where a system call or a provider may raise
  MayCrash,      \* whether processes are killed
  Free, Abandoned, None   \* no holder; a dead holder; no run

Processes == Runners \cup Doctors

Places ==
  {"idle", "acquire", "ensure", "openMarker", "writeMarker", "scanOut",
   "scanRuns", "probe", "load", "stage", "execute", "write", "pointer",
   "replace", "delete", "sweep"}

\* Places of an operation that must hold the lock.
Inside == Places \ {"idle", "acquire"}

ASSUME RunsAssumption ==
  /\ Runners \cap Doctors = {}
  /\ Free # Abandoned /\ {Free, Abandoned} \cap Processes = {}
  /\ None \notin RunIds
  /\ {"out", "runs"} \cap RunIds = {}
  /\ NumArtifacts \in Nat \ {0}
  /\ RowsOf \in [Inputs -> SUBSET Rows]
  /\ FailsAt \subseteq Inside
  /\ MayCrash \in BOOLEAN

VARIABLES
  lock,       \* holder of the workspace lock
  dir,        \* directories and their marker; a run ID names its staging directory
  files,      \* files[i]: artifacts in the staging directory of i
  published,  \* published[i]: the run in runs/i
  latest,     \* the run latest.json points to
  newest,     \* history: the run published last
  litter,     \* a temporary file of the runner lies in out
  input,      \* version of the input file
  pc, target, job   \* per process: next step, directory at hand, run at hand

fsVars == <<dir, files, published, latest, newest, litter>>
vars == <<lock, fsVars, input, pc, target, job>>

\* bare: no marker.  torn: a marker without its bytes.  owned: a valid one.
DirStates == {"absent", "bare", "torn", "owned"}
Paths == {"out", "runs"} \cup RunIds

\* parent: run retried, or None.  keys: rows to call.  input: version loaded.
\* failed: rows that ended in an error.
NoJob == [parent |-> None, keys |-> {}, input |-> None, failed |-> {}]

NoRun == [files |-> 0, parent |-> None, keys |-> {}, input |-> None, failed |-> {}]

Complete(i) == published[i].files = NumArtifacts

Init ==
  /\ lock = Free
  /\ dir = [d \in Paths |-> "absent"]
  /\ files = [i \in RunIds |-> 0]
  /\ published = [i \in RunIds |-> NoRun]
  /\ latest = None
  /\ newest = None
  /\ litter = FALSE
  /\ input \in Inputs
  /\ pc = [p \in Processes |-> "idle"]
  /\ target = [p \in Processes |-> "out"]
  /\ job = [p \in Processes |-> NoJob]

GoTo(p, place) == pc' = [pc EXCEPT ![p] = place]

\* Deviation: whoever ends unlinks the lock file, its own or not.
LeaveUnlocking(p) ==
  /\ lock' = Free
  /\ GoTo(p, "idle")
  /\ target' = [target EXCEPT ![p] = "out"]
  /\ job' = [job EXCEPT ![p] = NoJob]

\* The operation ends and gives the lock back.
Leave(p) ==
  /\ lock' = IF lock = p THEN Free ELSE lock
  /\ GoTo(p, "idle")
  /\ target' = [target EXCEPT ![p] = "out"]
  /\ job' = [job EXCEPT ![p] = NoJob]

----------------------------------------------------------------------------
(* Starting an operation.                                                    *)

EditInput ==
  /\ input' \in Inputs \ {input}
  /\ UNCHANGED <<lock, fsVars, pc, target, job>>

StartRun(p) ==
  /\ pc[p] = "idle"
  /\ GoTo(p, "acquire")
  /\ UNCHANGED <<lock, fsVars, input, target, job>>

\* _retry_keys_for_parent, before the lock is taken: the parent is complete,
\* was made from the present input, and has failed rows.
StartRetry(p) ==
  /\ pc[p] = "idle"
  /\ \E i \in RunIds :
       /\ Complete(i)
       /\ published[i].input = input
       /\ published[i].failed # {}
       /\ job' = [job EXCEPT ![p].parent = i, ![p].keys = published[i].failed]
  /\ GoTo(p, "acquire")
  /\ UNCHANGED <<lock, fsVars, input, target>>

\* The doctor removes a lock whose holder is dead, then takes the lock itself.
StartRepair(d) ==
  /\ pc[d] = "idle"
  /\ lock \in {Free, Abandoned}
  /\ lock' = Free
  /\ GoTo(d, "acquire")
  /\ UNCHANGED <<fsVars, input, target, job>>

\* Deviation: the doctor cleans without holding the lock.
AcquireRunnersOnly(p) ==
  /\ pc[p] = "acquire"
  /\ lock = Free \/ p \in Doctors
  /\ lock' = IF p \in Doctors THEN lock ELSE p
  /\ GoTo(p, IF p \in Doctors THEN "sweep" ELSE "ensure")
  /\ UNCHANGED <<fsVars, input, target, job>>

\* Deviation: a lock that exists is taken over.
AcquireShared(p) ==
  /\ pc[p] = "acquire"
  /\ lock' = p
  /\ GoTo(p, IF p \in Doctors THEN "sweep" ELSE "ensure")
  /\ UNCHANGED <<fsVars, input, target, job>>

Acquire(p) ==
  /\ pc[p] = "acquire"
  /\ lock = Free
  /\ lock' = p
  /\ GoTo(p, IF p \in Doctors THEN "sweep" ELSE "ensure")
  /\ UNCHANGED <<fsVars, input, target, job>>

Refused(p) ==
  /\ pc[p] = "acquire"
  /\ lock # Free
  /\ Leave(p)
  /\ UNCHANGED <<fsVars, input>>

----------------------------------------------------------------------------
(* _ensure_owned_directory on target[p]: mkdir, create the marker, write it. *)

AfterOwned(p) ==
  CASE target[p] = "out" -> "scanOut"
    [] target[p] = "runs" -> "scanRuns"
    [] OTHER -> "execute"

\* A directory that is there without a valid marker is taken over only empty.
Ensure(p) ==
  /\ pc[p] = "ensure"
  /\ LET d == target[p] IN
     \/ /\ dir[d] = "absent"
        /\ dir' = [dir EXCEPT ![d] = "bare"]
        /\ GoTo(p, "openMarker")
        /\ UNCHANGED <<lock, target, job>>
     \/ /\ dir[d] = "bare"
        /\ GoTo(p, "openMarker")
        /\ UNCHANGED <<lock, dir, target, job>>
     \/ dir[d] = "torn" /\ Leave(p) /\ UNCHANGED dir
     \/ /\ dir[d] = "owned"
        /\ GoTo(p, AfterOwned(p))
        /\ UNCHANGED <<lock, dir, target, job>>
  /\ UNCHANGED <<files, published, latest, newest, litter, input>>

OpenMarker(p) ==
  /\ pc[p] = "openMarker"
  /\ dir' = [dir EXCEPT ![target[p]] = "torn"]
  /\ GoTo(p, "writeMarker")
  /\ UNCHANGED <<lock, files, published, latest, newest, litter, input, target, job>>

WriteMarker(p) ==
  /\ pc[p] = "writeMarker"
  /\ dir' = [dir EXCEPT ![target[p]] = "owned"]
  /\ GoTo(p, AfterOwned(p))
  /\ UNCHANGED <<lock, files, published, latest, newest, litter, input, target, job>>

----------------------------------------------------------------------------
(* _claim_output_root.                                                       *)

\* Temporary files of an earlier run are deleted.
ScanOut(p) ==
  /\ pc[p] = "scanOut"
  /\ litter' = FALSE
  /\ target' = [target EXCEPT ![p] = "runs"]
  /\ GoTo(p, "ensure")
  /\ UNCHANGED <<lock, dir, files, published, latest, newest, input, job>>

UnownedStaging == {i \in RunIds : dir[i] \in {"bare", "torn"}}

\* Unowned staging, an incomplete run or a pointer to one block the workspace.
TreeIsSound ==
  /\ UnownedStaging = {}
  /\ \A i \in RunIds : published[i] # NoRun => Complete(i)
  /\ latest # None => Complete(latest)

\* The write probe is a temporary file too.
ScanRuns(p) ==
  /\ pc[p] = "scanRuns"
  /\ IF TreeIsSound
     THEN /\ litter' = TRUE
          /\ GoTo(p, "probe")
          /\ UNCHANGED <<lock, target, job>>
     ELSE Leave(p) /\ UNCHANGED litter
  /\ UNCHANGED <<dir, files, published, latest, newest, input>>

RemoveProbe(p) ==
  /\ pc[p] = "probe"
  /\ litter' = FALSE
  /\ GoTo(p, "load")
  /\ UNCHANGED <<lock, dir, files, published, latest, newest, input, target, job>>

----------------------------------------------------------------------------
(* run_ledger.                                                               *)

\* The input is read; a retry whose rows it no longer selects is refused.
LoadInput(p) ==
  /\ pc[p] = "load"
  /\ IF job[p].keys \subseteq RowsOf[input]
     THEN /\ job' = [job EXCEPT
                ![p].input = input,
                ![p].keys = IF job[p].parent = None THEN RowsOf[input] ELSE @]
          /\ GoTo(p, "stage")
          /\ UNCHANGED <<lock, target>>
     ELSE Leave(p)
  /\ UNCHANGED <<fsVars, input>>

\* _create_run_stage: a published ID is refused; a staging name is unique.
ReserveId(p) ==
  /\ pc[p] = "stage"
  /\ \E i \in {j \in RunIds : dir[j] = "absent"} :
       IF published[i] = NoRun
       THEN /\ target' = [target EXCEPT ![p] = i]
            /\ GoTo(p, "ensure")
            /\ UNCHANGED <<lock, job>>
       ELSE Leave(p)
  /\ UNCHANGED <<fsVars, input>>

\* Deviation: a retry calls every row the ledger selects.
CalledAll(p) == RowsOf[job[p].input]

Called(p) == job[p].keys

\* Every row is called once; a provider error makes it a failed row.
Execute(p) ==
  /\ pc[p] = "execute"
  /\ \E failed \in SUBSET Called(p) :
       job' = [job EXCEPT ![p].failed = failed, ![p].keys = Called(p)]
  /\ GoTo(p, "write")
  /\ UNCHANGED <<lock, fsVars, input, target>>

WriteArtifact(p) ==
  /\ pc[p] = "write"
  /\ files[target[p]] < NumArtifacts
  /\ files' = [files EXCEPT ![target[p]] = @ + 1]
  /\ UNCHANGED <<lock, dir, published, latest, newest, litter, input, pc, target, job>>

\* Deviation: the rename does not wait for the last artifact.
StagedEarly(p) == files[target[p]] > 0

Staged(p) == files[target[p]] = NumArtifacts

\* rename of the staging directory onto runs/<run id>.  The path is free: it
\* was when the ID was drawn, under the lock that is still held.
Publish(p) ==
  /\ pc[p] = "write"
  /\ Staged(p)
  /\ published[target[p]] = NoRun
  /\ published' = [published EXCEPT ![target[p]] =
       [files |-> files[target[p]], parent |-> job[p].parent,
        keys |-> job[p].keys, input |-> job[p].input, failed |-> job[p].failed]]
  /\ dir' = [dir EXCEPT ![target[p]] = "absent"]
  /\ files' = [files EXCEPT ![target[p]] = 0]
  /\ newest' = target[p]
  /\ GoTo(p, "pointer")
  /\ UNCHANGED <<lock, latest, litter, input, target, job>>

\* _atomic_write_text of latest.json: a temporary file, then a replace.
WritePointer(p) ==
  /\ pc[p] = "pointer"
  /\ litter' = TRUE
  /\ GoTo(p, "replace")
  /\ UNCHANGED <<lock, dir, files, published, latest, newest, input, target, job>>

ReplaceLatest(p) ==
  /\ pc[p] = "replace"
  /\ latest' = target[p]
  /\ litter' = FALSE
  /\ Leave(p)
  /\ UNCHANGED <<dir, files, published, newest, input>>

----------------------------------------------------------------------------
(* Failures.                                                                 *)

\* Deviation: only errors of the provider clean up, not those of the writes.
CleanedOnFailureExecuteOnly == {"execute"}

\* Inside the try of run_ledger: staging is deleted before the error goes on.
CleanedOnFailure == {"execute", "write"}

\* An exception.  The temporary file of latest.json is unlinked on the way; the
\* probe file is in any case.  Before the try, and in the middle of a deletion,
\* directories stay as they are.
Fail(p) ==
  /\ pc[p] \in FailsAt
  /\ IF pc[p] \in CleanedOnFailure
     THEN GoTo(p, "delete") /\ UNCHANGED <<lock, target, job>>
     ELSE Leave(p)
  /\ litter' = (litter /\ pc[p] \notin {"probe", "replace"})
  /\ UNCHANGED <<dir, files, published, latest, newest, input>>

\* The process is killed; a lock it holds stays behind.
Crash(p) ==
  /\ MayCrash
  /\ pc[p] # "idle"
  /\ lock' = IF lock = p THEN Abandoned ELSE lock
  /\ GoTo(p, "idle")
  /\ target' = [target EXCEPT ![p] = "out"]
  /\ job' = [job EXCEPT ![p] = NoJob]
  /\ UNCHANGED <<fsVars, input>>

\* rmtree of the staging directory target[p]: its entries go one by one in
\* the order the file system lists them, the marker among them.
DeleteEntry(p) ==
  /\ pc[p] = "delete"
  /\ LET i == target[p] IN
     \/ /\ files[i] > 0
        /\ files' = [files EXCEPT ![i] = @ - 1]
        /\ UNCHANGED dir
     \/ /\ dir[i] \in {"owned", "torn"}
        /\ dir' = [dir EXCEPT ![i] = "bare"]
        /\ UNCHANGED files
  /\ UNCHANGED <<lock, published, latest, newest, litter, input, pc, target, job>>

\* The emptied directory goes last; a failed run ends, a doctor looks for more.
DeleteDirectory(p) ==
  /\ pc[p] = "delete"
  /\ dir[target[p]] = "bare"
  /\ files[target[p]] = 0
  /\ dir' = [dir EXCEPT ![target[p]] = "absent"]
  /\ IF p \in Doctors
     THEN GoTo(p, "sweep") /\ UNCHANGED <<lock, target, job>>
     ELSE Leave(p)
  /\ UNCHANGED <<files, published, latest, newest, litter, input>>

----------------------------------------------------------------------------
(* clean_owned_staging_directories.                                          *)

\* Only staging with a valid marker, in directories with one, is deleted.
OwnedStaging ==
  {i \in RunIds : dir[i] = "owned" /\ dir["out"] = "owned" /\ dir["runs"] = "owned"}

Sweep(d) ==
  /\ pc[d] = "sweep"
  /\ \E i \in OwnedStaging : target' = [target EXCEPT ![d] = i]
  /\ GoTo(d, "delete")
  /\ UNCHANGED <<lock, fsVars, input, job>>

SweepDone(d) ==
  /\ pc[d] = "sweep"
  /\ OwnedStaging = {}
  /\ Leave(d)
  /\ UNCHANGED <<fsVars, input>>

----------------------------------------------------------------------------
RunnerStep(p) ==
  \/ StartRun(p) \/ StartRetry(p)
  \/ Ensure(p) \/ OpenMarker(p) \/ WriteMarker(p)
  \/ ScanOut(p) \/ ScanRuns(p) \/ RemoveProbe(p)
  \/ LoadInput(p) \/ ReserveId(p) \/ Execute(p) \/ WriteArtifact(p)
  \/ Publish(p) \/ WritePointer(p) \/ ReplaceLatest(p)

DoctorStep(d) == StartRepair(d) \/ Sweep(d) \/ SweepDone(d)

SharedStep(p) ==
  \/ Acquire(p) \/ Refused(p) \/ Fail(p) \/ Crash(p)
  \/ DeleteEntry(p) \/ DeleteDirectory(p)

Next ==
  \/ EditInput
  \/ \E p \in Runners : RunnerStep(p)
  \/ \E d \in Doctors : DoctorStep(d)
  \/ \E p \in Processes : SharedStep(p)

Spec == Init /\ [][Next]_vars

----------------------------------------------------------------------------
\* Type invariant of the tree and of the processes; a run directory holds all
\* its artifacts or is not there.
TypeOK ==
  /\ lock \in Processes \cup {Free, Abandoned}
  /\ dir \in [Paths -> DirStates]
  /\ files \in [RunIds -> 0 .. NumArtifacts]
  /\ published \in [RunIds ->
       [files : {0, NumArtifacts}, parent : RunIds \cup {None},
        keys : SUBSET Rows, input : Inputs \cup {None}, failed : SUBSET Rows]]
  /\ latest \in RunIds \cup {None}
  /\ newest \in RunIds \cup {None}
  /\ litter \in BOOLEAN
  /\ input \in Inputs
  /\ pc \in [Processes -> Places]
  /\ target \in [Processes -> Paths]
  /\ job \in [Processes ->
       [parent : RunIds \cup {None}, keys : SUBSET Rows,
        input : Inputs \cup {None}, failed : SUBSET Rows]]

\* latest.json never points to a run that is not there in full, whatever
\* crashes, failures and repairs happen.
LatestIsComplete == latest # None => Complete(latest)

\* The pointer only ever moves to the run published last: two runs never
\* advance it in the reverse order of their renames.
PointerMovesToNewest == [][latest' # latest => latest' = newest]_vars

\* The staging directory of a run that is under way stays as the run made it,
\* whatever a doctor does meanwhile.
LiveStagingKept ==
  \A p \in Runners : pc[p] \in {"execute", "write"} => dir[target[p]] = "owned"

\* An operation that gives up after its staging directory was marked takes that
\* directory with it, unless the deletion itself fails.
FailedRunsLeaveNoStaging ==
  [][\A p \in Runners :
       /\ lock = p /\ lock' = Free
       /\ target[p] \in RunIds
       /\ dir'[target[p]] = "owned"
       => pc[p] = "delete"]_vars

\* Rows that succeeded are never called again: along a chain of retries a child
\* calls only rows that failed in its parent.
OnlyFailedRowsRetried ==
  \A i \in RunIds :
    published[i].parent # None =>
      published[i].keys \subseteq published[published[i].parent].failed

\* Whatever fails or dies, operations use the workspace lock only as the lock file
\* provides it (WorkspaceLock): they work inside only from taking it until they
\* give it back, and never free the lock of another.
Exclusive == INSTANCE ExclusiveLock WITH
  locked <- lock # Free,
  holders <- {p \in Processes : lock = p},
  inside <- {p \in Processes : pc[p] \in Inside}
UsesLock == Exclusive!Spec
=============================================================================
