-------------------------- MODULE SampleRuns_proofs --------------------------
(***************************************************************************)
(* Proofs about SampleRuns for any runners and doctors, run IDs, rows,     *)
(* versions of the input and number of artifacts, with failures and        *)
(* crashes wherever the constants allow them.                              *)
(***************************************************************************)
EXTENDS SampleRuns, TLAPS

----------------------------------------------------------------------------
(* An operation inside the tree holds the lock, and no one else does.  What  *)
(* it has at hand at each place follows from the places it came through.     *)
LockInv == \A p \in Processes : pc[p] \in Inside <=> lock = p

Rooted == {"idle", "acquire", "scanOut", "scanRuns", "probe", "load", "stage"}
Staging == {"execute", "write", "pointer", "replace", "delete"}

\* Before a run ID is reserved the directory at hand is no staging directory;
\* from the first row on it is.  Only doctors sweep.
TargetInv ==
  \A p \in Processes :
    /\ pc[p] = "sweep" => p \in Doctors
    /\ pc[p] \in Rooted => target[p] \in {"out", "runs"}
    /\ pc[p] \in Staging => target[p] \in RunIds

PlaceInv == TypeOK /\ LockInv /\ TargetInv

LEMMA PlaceInvInit == Init => PlaceInv
<1> SUFFICES ASSUME Init
             PROVE  PlaceInv
  OBVIOUS
<1> USE RunsAssumption DEF Init
<1>1. /\ NoRun \in [files : {0, NumArtifacts}, parent : RunIds \cup {None},
                   keys : SUBSET Rows, input : Inputs \cup {None}, failed : SUBSET Rows]
      /\ NoJob \in [parent : RunIds \cup {None}, keys : SUBSET Rows,
                   input : Inputs \cup {None}, failed : SUBSET Rows]
  BY DEF NoRun, NoJob
<1>2. 0 \in 0 .. NumArtifacts
  OBVIOUS
<1>3. TypeOK
  BY <1>1, <1>2 DEF TypeOK, Paths, DirStates, Places
<1>4. LockInv /\ TargetInv
  BY DEF LockInv, TargetInv, Inside, Places, Rooted, Staging
<1> QED  BY <1>3, <1>4 DEF PlaceInv

\* An operation that gives up does not hold the lock any more.
LEMMA LeaveKeepsPlaces ==
  ASSUME PlaceInv, NEW p \in Processes, Leave(p),
         dir' \in [Paths -> DirStates],
         files' \in [RunIds -> 0 .. NumArtifacts],
         latest' \in RunIds \cup {None}, litter' \in BOOLEAN,
         UNCHANGED <<published, newest, input>>
  PROVE  PlaceInv'
BY RunsAssumption
DEF PlaceInv, TypeOK, LockInv, TargetInv, Leave, GoTo, NoJob, Paths, Places,
    Inside, Rooted, Staging

\* A step that keeps the lock moves a process that is inside to a place inside
\* where its directory belongs.
LEMMA MoveKeepsPlaces ==
  ASSUME PlaceInv, NEW p \in Processes, NEW place \in Places, GoTo(p, place),
         pc[p] \in Inside <=> place \in Inside,
         target' \in [Processes -> Paths],
         \A q \in Processes : q # p => target'[q] = target[q],
         place = "sweep" => p \in Doctors,
         place \in Rooted => target'[p] \in {"out", "runs"},
         place \in Staging => target'[p] \in RunIds,
         UNCHANGED lock
  PROVE  LockInv' /\ TargetInv' /\ pc' \in [Processes -> Places]
BY DEF PlaceInv, TypeOK, LockInv, TargetInv, GoTo

LEMMA PlaceInvNext == PlaceInv /\ [Next]_vars => PlaceInv'
<1> SUFFICES ASSUME PlaceInv, [Next]_vars
             PROVE  PlaceInv'
  OBVIOUS
<1> USE RunsAssumption DEF fsVars
<1>1. CASE EditInput
  BY <1>1 DEF EditInput, PlaceInv, TypeOK, LockInv, TargetInv
<1>2. ASSUME NEW p \in Runners, StartRun(p)
      PROVE  PlaceInv'
  BY <1>2 DEF StartRun, GoTo, PlaceInv, TypeOK, LockInv, TargetInv, Processes,
              Places, Inside, Rooted, Staging
<1>3. ASSUME NEW p \in Runners, StartRetry(p)
      PROVE  PlaceInv'
  <2>1. p \in Processes
    BY DEF Processes
  <2>2. PICK i \in RunIds :
          job' = [job EXCEPT ![p].parent = i, ![p].keys = published[i].failed]
    BY <1>3 DEF StartRetry
  <2>3. published[i].failed \in SUBSET Rows
    BY DEF PlaceInv, TypeOK
  <2>. DEFINE J == [job[p] EXCEPT !.parent = i, !.keys = published[i].failed]
  <2>6. J \in [parent : RunIds \cup {None}, keys : SUBSET Rows,
               input : Inputs \cup {None}, failed : SUBSET Rows]
    BY <2>1, <2>3 DEF PlaceInv, TypeOK
  <2>7. job' = [job EXCEPT ![p] = J]
    BY <2>1, <2>2 DEF PlaceInv, TypeOK
  <2> HIDE DEF J
  <2>4. TypeOK'
    BY <1>3, <2>1, <2>6, <2>7 DEF StartRetry, GoTo, PlaceInv, TypeOK, Places
  <2>5. LockInv' /\ TargetInv'
    BY <1>3, <2>1 DEF StartRetry, GoTo, PlaceInv, TypeOK, LockInv, TargetInv,
                      Places, Inside, Rooted, Staging
  <2> QED  BY <2>4, <2>5 DEF PlaceInv
<1>4. ASSUME NEW d \in Doctors, StartRepair(d)
      PROVE  PlaceInv'
  BY <1>4 DEF StartRepair, GoTo, PlaceInv, TypeOK, LockInv, TargetInv, Processes,
              Places, Inside, Rooted, Staging
<1>5. ASSUME NEW p \in Processes, Acquire(p)
      PROVE  PlaceInv'
  BY <1>5 DEF Acquire, GoTo, PlaceInv, TypeOK, LockInv, TargetInv, Processes,
              Places, Inside, Rooted, Staging
<1>6. ASSUME NEW p \in Processes, Refused(p)
      PROVE  PlaceInv'
  BY <1>6, LeaveKeepsPlaces DEF Refused, PlaceInv, TypeOK
<1>7. ASSUME NEW p \in Runners, Ensure(p)
      PROVE  PlaceInv'
  <2> DEFINE d == target[p]
  <2>1. p \in Processes /\ d \in Paths
    BY DEF Processes, PlaceInv, TypeOK
  <2>2. CASE Leave(p) /\ UNCHANGED dir
    BY <1>7, <2>1, <2>2, LeaveKeepsPlaces DEF Ensure, PlaceInv, TypeOK
  <2>3. CASE /\ UNCHANGED <<lock, target, job>>
             /\ dir' \in [Paths -> DirStates]
             /\ GoTo(p, "openMarker") \/ GoTo(p, AfterOwned(p))
    <3>1. LockInv' /\ TargetInv' /\ pc' \in [Processes -> Places]
      BY <1>7, <2>1, <2>3, MoveKeepsPlaces
      DEF Ensure, AfterOwned, PlaceInv, TypeOK, Paths, Places, Inside, Rooted, Staging
    <3> QED  BY <1>7, <2>3, <3>1 DEF Ensure, PlaceInv, TypeOK
  <2> QED  BY <1>7, <2>1, <2>2, <2>3 DEF Ensure, PlaceInv, TypeOK, DirStates
<1>8. ASSUME NEW p \in Runners, OpenMarker(p)
      PROVE  PlaceInv'
  BY <1>8 DEF OpenMarker, GoTo, PlaceInv, TypeOK, LockInv, TargetInv, Processes,
              DirStates, Places, Inside, Rooted, Staging
<1>9. ASSUME NEW p \in Runners, WriteMarker(p)
      PROVE  PlaceInv'
  <2>1. p \in Processes
    BY DEF Processes
  <2>2. LockInv' /\ TargetInv' /\ pc' \in [Processes -> Places]
    BY <1>9, <2>1, MoveKeepsPlaces
    DEF WriteMarker, AfterOwned, PlaceInv, TypeOK, Paths, Places, Inside, Rooted, Staging
  <2> QED  BY <1>9, <2>1, <2>2 DEF WriteMarker, PlaceInv, TypeOK, DirStates
<1>10. ASSUME NEW p \in Runners, ScanOut(p) \/ RemoveProbe(p)
       PROVE  PlaceInv'
  <2>1. p \in Processes
    BY DEF Processes
  <2>2. LockInv' /\ TargetInv' /\ pc' \in [Processes -> Places]
    <3>1. CASE ScanOut(p)
      BY <2>1, <3>1 DEF ScanOut, GoTo, PlaceInv, TypeOK, LockInv, TargetInv, Paths,
                        Places, Inside, Rooted, Staging
    <3>2. CASE RemoveProbe(p)
      BY <2>1, <3>2 DEF RemoveProbe, GoTo, PlaceInv, TypeOK, LockInv, TargetInv,
                        Places, Inside, Rooted, Staging
    <3> QED  BY <1>10, <3>1, <3>2
  <2> QED  BY <1>10, <2>1, <2>2 DEF ScanOut, RemoveProbe, PlaceInv, TypeOK, Paths
<1>11. ASSUME NEW p \in Runners, ScanRuns(p)
       PROVE  PlaceInv'
  <2>1. p \in Processes
    BY DEF Processes
  <2>2. CASE Leave(p)
    BY <1>11, <2>1, <2>2, LeaveKeepsPlaces DEF ScanRuns, PlaceInv, TypeOK
  <2>3. CASE GoTo(p, "probe") /\ UNCHANGED <<lock, target, job>>
    BY <1>11, <2>1, <2>3 DEF ScanRuns, GoTo, PlaceInv, TypeOK, LockInv, TargetInv,
                             Places, Inside, Rooted, Staging
  <2> QED  BY <1>11, <2>2, <2>3 DEF ScanRuns
<1>12. ASSUME NEW p \in Runners, LoadInput(p)
       PROVE  PlaceInv'
  <2>1. p \in Processes /\ RowsOf[input] \in SUBSET Rows /\ input \in Inputs
    BY DEF Processes, PlaceInv, TypeOK
  <2>2. CASE Leave(p)
    BY <1>12, <2>1, <2>2, LeaveKeepsPlaces DEF LoadInput, PlaceInv, TypeOK
  <2>3. CASE ~Leave(p)
    <3>1. job' \in [Processes ->
            [parent : RunIds \cup {None}, keys : SUBSET Rows,
             input : Inputs \cup {None}, failed : SUBSET Rows]]
      BY <1>12, <2>1, <2>3 DEF LoadInput, PlaceInv, TypeOK
    <3>2. GoTo(p, "stage") /\ UNCHANGED <<lock, target, dir, files, published,
                                          latest, newest, litter, input>>
      BY <1>12, <2>3 DEF LoadInput
    <3>3. pc[p] = "load"
      BY <1>12 DEF LoadInput
    <3> QED  BY <2>1, <3>1, <3>2, <3>3
             DEF GoTo, PlaceInv, TypeOK, LockInv, TargetInv, Places, Inside, Rooted, Staging
  <2> QED  BY <2>2, <2>3
<1>13. ASSUME NEW p \in Runners, ReserveId(p)
       PROVE  PlaceInv'
  <2>1. p \in Processes
    BY DEF Processes
  <2>2. CASE Leave(p)
    BY <1>13, <2>1, <2>2, LeaveKeepsPlaces DEF ReserveId, PlaceInv, TypeOK
  <2>3. CASE ~Leave(p)
    <3>1. PICK i \in RunIds : target' = [target EXCEPT ![p] = i]
      BY <1>13, <2>3 DEF ReserveId
    <3>2. pc[p] = "stage" /\ GoTo(p, "ensure")
          /\ UNCHANGED <<lock, job, dir, files, published, latest, newest, litter, input>>
      BY <1>13, <2>3 DEF ReserveId
    <3> QED  BY <2>1, <3>1, <3>2
             DEF GoTo, PlaceInv, TypeOK, LockInv, TargetInv, Paths, Places, Inside,
                 Rooted, Staging
  <2> QED  BY <2>2, <2>3
<1>14. ASSUME NEW p \in Runners, Execute(p)
       PROVE  PlaceInv'
  <2>1. p \in Processes /\ Called(p) \in SUBSET Rows
    BY DEF Processes, Called, PlaceInv, TypeOK
  <2>2. PICK failed \in SUBSET Called(p) :
          job' = [job EXCEPT ![p].failed = failed, ![p].keys = Called(p)]
    BY <1>14 DEF Execute
  <2>3. failed \in SUBSET Rows
    BY <2>1
  <2>. DEFINE J == [job[p] EXCEPT !.failed = failed, !.keys = Called(p)]
  <2>6. J \in [parent : RunIds \cup {None}, keys : SUBSET Rows,
               input : Inputs \cup {None}, failed : SUBSET Rows]
    BY <2>1, <2>3 DEF PlaceInv, TypeOK
  <2>7. job' = [job EXCEPT ![p] = J]
    BY <2>1, <2>2 DEF PlaceInv, TypeOK
  <2> HIDE DEF J
  <2>4. TypeOK'
    BY <1>14, <2>1, <2>6, <2>7 DEF Execute, GoTo, PlaceInv, TypeOK, Places
  <2>5. LockInv' /\ TargetInv'
    BY <1>14, <2>1 DEF Execute, GoTo, PlaceInv, TypeOK, LockInv, TargetInv,
                       Places, Inside, Rooted, Staging
  <2> QED  BY <2>4, <2>5 DEF PlaceInv
<1>15. ASSUME NEW p \in Runners, WriteArtifact(p)
       PROVE  PlaceInv'
  <2>1. target[p] \in RunIds
    BY <1>15 DEF WriteArtifact, PlaceInv, TargetInv, Processes, Staging
  <2> QED  BY <1>15, <2>1 DEF WriteArtifact, PlaceInv, TypeOK, LockInv, TargetInv
<1>16. ASSUME NEW p \in Runners, Publish(p)
       PROVE  PlaceInv'
  <2>1. p \in Processes /\ target[p] \in RunIds
    BY <1>16 DEF Publish, PlaceInv, TargetInv, Processes, Staging
  <2>2. published' \in [RunIds ->
          [files : {0, NumArtifacts}, parent : RunIds \cup {None},
           keys : SUBSET Rows, input : Inputs \cup {None}, failed : SUBSET Rows]]
    BY <1>16, <2>1 DEF Publish, Staged, PlaceInv, TypeOK
  <2>3. dir' \in [Paths -> DirStates] /\ files' \in [RunIds -> 0 .. NumArtifacts]
    BY <1>16, <2>1 DEF Publish, PlaceInv, TypeOK, Paths, DirStates
  <2>4. LockInv' /\ TargetInv' /\ pc' \in [Processes -> Places]
    BY <1>16, <2>1, MoveKeepsPlaces
    DEF Publish, PlaceInv, TypeOK, Places, Inside, Rooted, Staging
  <2> QED  BY <1>16, <2>1, <2>2, <2>3, <2>4 DEF Publish, PlaceInv, TypeOK
<1>17. ASSUME NEW p \in Runners, WritePointer(p)
       PROVE  PlaceInv'
  BY <1>17 DEF WritePointer, GoTo, PlaceInv, TypeOK, LockInv, TargetInv, Processes,
               Places, Inside, Rooted, Staging
<1>18. ASSUME NEW p \in Runners, ReplaceLatest(p)
       PROVE  PlaceInv'
  <2>1. p \in Processes /\ target[p] \in RunIds
    BY <1>18 DEF ReplaceLatest, PlaceInv, TargetInv, Processes, Staging
  <2> QED  BY <1>18, <2>1, LeaveKeepsPlaces DEF ReplaceLatest, PlaceInv, TypeOK
<1>19. ASSUME NEW p \in Processes, Fail(p)
       PROVE  PlaceInv'
  <2>1. litter' \in BOOLEAN
    BY <1>19 DEF Fail, PlaceInv, TypeOK
  <2>2. CASE Leave(p)
    BY <1>19, <2>1, <2>2, LeaveKeepsPlaces DEF Fail, PlaceInv, TypeOK
  <2>3. CASE /\ pc[p] \in CleanedOnFailure
             /\ GoTo(p, "delete") /\ UNCHANGED <<lock, target, job>>
    <3>1. LockInv' /\ TargetInv' /\ pc' \in [Processes -> Places]
      BY <2>3, MoveKeepsPlaces
      DEF CleanedOnFailure, PlaceInv, TypeOK, TargetInv, Places, Inside, Rooted, Staging
    <3> QED  BY <1>19, <2>1, <2>3, <3>1 DEF Fail, PlaceInv, TypeOK
  <2> QED  BY <1>19, <2>2, <2>3 DEF Fail
<1>20. ASSUME NEW p \in Processes, Crash(p)
       PROVE  PlaceInv'
  BY <1>20 DEF Crash, GoTo, NoJob, PlaceInv, TypeOK, LockInv, TargetInv, Paths,
               Places, Inside, Rooted, Staging
<1>21. ASSUME NEW p \in Processes, DeleteEntry(p)
       PROVE  PlaceInv'
  <2>1. target[p] \in RunIds
    BY <1>21 DEF DeleteEntry, PlaceInv, TargetInv, Staging
  <2>2. files[target[p]] \in 0 .. NumArtifacts /\ target[p] \in Paths
    BY <2>1 DEF PlaceInv, TypeOK, Paths
  <2>3. CASE files[target[p]] > 0 /\ files' = [files EXCEPT ![target[p]] = @ - 1]
             /\ UNCHANGED dir
    <3>1. files[target[p]] - 1 \in 0 .. NumArtifacts
      BY <2>2, <2>3
    <3>2. files' \in [RunIds -> 0 .. NumArtifacts]
      BY <2>1, <2>3, <3>1 DEF PlaceInv, TypeOK
    <3> QED  BY <1>21, <2>3, <3>2 DEF DeleteEntry, PlaceInv, TypeOK, LockInv, TargetInv
  <2>4. CASE dir' = [dir EXCEPT ![target[p]] = "bare"] /\ UNCHANGED files
    <3>1. dir' \in [Paths -> DirStates]
      BY <2>2, <2>4 DEF PlaceInv, TypeOK, DirStates
    <3> QED  BY <1>21, <2>4, <3>1 DEF DeleteEntry, PlaceInv, TypeOK, LockInv, TargetInv
  <2> QED  BY <1>21, <2>3, <2>4 DEF DeleteEntry
<1>22. ASSUME NEW p \in Processes, DeleteDirectory(p)
       PROVE  PlaceInv'
  <2>1. dir' \in [Paths -> DirStates]
    BY <1>22 DEF DeleteDirectory, PlaceInv, TypeOK, DirStates
  <2>2. CASE Leave(p)
    BY <1>22, <2>1, <2>2, LeaveKeepsPlaces DEF DeleteDirectory, PlaceInv, TypeOK
  <2>3. CASE p \in Doctors /\ GoTo(p, "sweep") /\ UNCHANGED <<lock, target, job>>
    <3>1. LockInv' /\ TargetInv' /\ pc' \in [Processes -> Places]
      BY <1>22, <2>3, MoveKeepsPlaces
      DEF DeleteDirectory, PlaceInv, TypeOK, Places, Inside, Rooted, Staging
    <3> QED  BY <1>22, <2>1, <2>3, <3>1 DEF DeleteDirectory, PlaceInv, TypeOK
  <2> QED  BY <1>22, <2>2, <2>3 DEF DeleteDirectory
<1>23. ASSUME NEW d \in Doctors, Sweep(d)
       PROVE  PlaceInv'
  <2>1. d \in Processes
    BY DEF Processes
  <2>2. PICK i \in RunIds : target' = [target EXCEPT ![d] = i]
    BY <1>23 DEF Sweep, OwnedStaging
  <2> QED  BY <1>23, <2>1, <2>2
           DEF Sweep, GoTo, PlaceInv, TypeOK, LockInv, TargetInv, Paths, Places,
               Inside, Rooted, Staging
<1>24. ASSUME NEW d \in Doctors, SweepDone(d)
       PROVE  PlaceInv'
  BY <1>24, LeaveKeepsPlaces DEF SweepDone, PlaceInv, TypeOK, Processes
<1>25. CASE UNCHANGED vars
  BY <1>25 DEF vars, PlaceInv, TypeOK, LockInv, TargetInv
<1> QED
  BY <1>1, <1>2, <1>3, <1>4, <1>5, <1>6, <1>7, <1>8, <1>9, <1>10, <1>11, <1>12,
     <1>13, <1>14, <1>15, <1>16, <1>17, <1>18, <1>19, <1>20, <1>21, <1>22, <1>23,
     <1>24, <1>25
  DEF Next, RunnerStep, DoctorStep, SharedStep

\* The variables have their types in every reachable state; a run directory
\* holds all its artifacts or is not there.
THEOREM TypeCorrect == Spec => []TypeOK
<1>1. PlaceInv => TypeOK
  BY DEF PlaceInv
<1> QED  BY <1>1, PlaceInvInit, PlaceInvNext, PTL DEF Spec

----------------------------------------------------------------------------
(* The staging directory at hand is as the operation left it, and after the  *)
(* rename the run at hand is the complete one that was published last.       *)
Fits(p) ==
  target[p] \in RunIds =>
    /\ pc[p] = "ensure" => dir[target[p]] = "absent"
    /\ pc[p] = "openMarker" => dir[target[p]] = "bare"
    /\ pc[p] = "writeMarker" => dir[target[p]] = "torn"
    /\ pc[p] \in {"execute", "write"} => dir[target[p]] = "owned"
    /\ pc[p] \in {"pointer", "replace"} =>
         /\ dir[target[p]] = "absent"
         /\ Complete(target[p])
         /\ newest = target[p]

StageInv == \A p \in Processes : Fits(p)

LEMMA StageInvInit == Init => StageInv
BY RunsAssumption DEF Init, StageInv, Fits, Paths

\* A change of the tree by the process that holds the lock disturbs nobody
\* else's directory, and neither does a step that leaves the tree alone.
LEMMA OthersFit ==
  ASSUME PlaceInv, StageInv, NEW p \in Processes, Fits(p)',
         \A q \in Processes : q # p => pc'[q] = pc[q] /\ target'[q] = target[q],
         pc[p] \in Inside \/ UNCHANGED <<dir, published, newest>>
  PROVE  StageInv'
<1> SUFFICES ASSUME NEW q \in Processes, q # p
             PROVE  Fits(q)'
  BY DEF StageInv
<1>1. CASE pc[p] \in Inside
  <2>1. pc'[q] \notin Inside
    BY <1>1 DEF PlaceInv, LockInv
  <2> QED  BY <2>1 DEF Fits, Inside, Places
<1>2. CASE UNCHANGED <<dir, published, newest>>
  BY <1>2 DEF StageInv, Fits, Complete
<1> QED  BY <1>1, <1>2

\* An operation that ends has no directory at hand.
LEMMA LeaveFits ==
  ASSUME PlaceInv, NEW p \in Processes, Leave(p)
  PROVE  /\ Fits(p)'
         /\ \A q \in Processes : q # p => pc'[q] = pc[q] /\ target'[q] = target[q]
BY DEF PlaceInv, TypeOK, Leave, GoTo, Fits

LEMMA StageInvNext == PlaceInv /\ StageInv /\ [Next]_vars => StageInv'
<1> SUFFICES ASSUME PlaceInv, StageInv, [Next]_vars
             PROVE  StageInv'
  OBVIOUS
<1> USE RunsAssumption DEF fsVars
<1>1. CASE EditInput \/ UNCHANGED vars
  BY <1>1 DEF EditInput, vars, StageInv, Fits, Complete
<1>2. ASSUME NEW p \in Processes,
             StartRun(p) \/ StartRetry(p) \/ StartRepair(p) \/ Acquire(p) \/ Crash(p)
      PROVE  StageInv'
  <2>1. \A q \in Processes : q # p => pc'[q] = pc[q] /\ target'[q] = target[q]
    BY <1>2 DEF StartRun, StartRetry, StartRepair, Acquire, Crash, GoTo, PlaceInv, TypeOK
  <2>2. UNCHANGED <<dir, published, newest>>
    BY <1>2 DEF StartRun, StartRetry, StartRepair, Acquire, Crash
  <2>3. pc'[p] \in {"acquire", "idle"} \/ Acquire(p)
    BY <1>2 DEF StartRun, StartRetry, StartRepair, Crash, GoTo, PlaceInv, TypeOK
  <2>4. Acquire(p) => pc'[p] \in {"ensure", "sweep"} /\ target'[p] \in {"out", "runs"}
    BY DEF Acquire, GoTo, PlaceInv, TypeOK, TargetInv, Rooted
  <2>5. Fits(p)'
    BY <2>3, <2>4 DEF Fits
  <2> QED  BY <2>1, <2>2, <2>5, OthersFit
<1>3. ASSUME NEW p \in Processes, Leave(p),
             pc[p] \in Inside \/ UNCHANGED <<dir, published, newest>>
      PROVE  StageInv'
  BY <1>3, LeaveFits, OthersFit
<1>4. ASSUME NEW p \in Processes, NEW place \in Places, GoTo(p, place),
             pc[p] \in Inside, Fits(p)',
             \A q \in Processes : q # p => target'[q] = target[q]
      PROVE  StageInv'
  BY <1>4, OthersFit DEF GoTo, PlaceInv, TypeOK
<1>5. ASSUME NEW p \in Processes, Ensure(p)
      PROVE  StageInv'
  <2>1. pc[p] \in Inside /\ dir[target[p]] \in DirStates /\ target[p] \in Paths
    BY <1>5 DEF Ensure, Inside, Places, PlaceInv, TypeOK
  <2>2. CASE Leave(p)
    BY <1>3, <2>1, <2>2
  <2>3. CASE ~Leave(p) /\ dir[target[p]] \in {"absent", "bare"}
    <3>1. dir'[target[p]] = "bare" /\ GoTo(p, "openMarker") /\ target' = target
      BY <1>5, <2>1, <2>3 DEF Ensure, PlaceInv, TypeOK
    <3>2. Fits(p)'
      BY <3>1 DEF Fits, GoTo, PlaceInv, TypeOK
    <3> QED  BY <1>4, <2>1, <3>1, <3>2 DEF Places
  <2>4. CASE ~Leave(p) /\ dir[target[p]] = "owned"
    <3>1. dir' = dir /\ GoTo(p, AfterOwned(p)) /\ target' = target
      BY <1>5, <2>4 DEF Ensure
    <3>2. AfterOwned(p) \in {"scanOut", "scanRuns", "execute"}
      BY DEF AfterOwned
    <3>3. Fits(p)'
      BY <2>4, <3>1, <3>2 DEF Fits, GoTo, PlaceInv, TypeOK
    <3> QED  BY <1>4, <2>1, <3>1, <3>2, <3>3 DEF Places
  <2> QED  BY <1>5, <2>1, <2>2, <2>3, <2>4 DEF Ensure, DirStates
<1>6. ASSUME NEW p \in Processes, OpenMarker(p)
      PROVE  StageInv'
  <2>1. dir'[target[p]] = "torn" /\ GoTo(p, "writeMarker") /\ target' = target
    BY <1>6 DEF OpenMarker, PlaceInv, TypeOK
  <2>2. Fits(p)'
    BY <2>1 DEF Fits, GoTo, PlaceInv, TypeOK
  <2> QED  BY <1>4, <1>6, <2>1, <2>2 DEF OpenMarker, Inside, Places
<1>7. ASSUME NEW p \in Processes, WriteMarker(p)
      PROVE  StageInv'
  <2>1. dir'[target[p]] = "owned" /\ GoTo(p, AfterOwned(p)) /\ target' = target
    BY <1>7 DEF WriteMarker, PlaceInv, TypeOK
  <2>2. AfterOwned(p) \in {"scanOut", "scanRuns", "execute"}
    BY DEF AfterOwned
  <2>3. Fits(p)'
    BY <2>1, <2>2 DEF Fits, GoTo, PlaceInv, TypeOK
  <2> QED  BY <1>4, <1>7, <2>1, <2>2, <2>3 DEF WriteMarker, Inside, Places
<1>8. ASSUME NEW p \in Processes,
             ScanOut(p) \/ RemoveProbe(p) \/ Sweep(p) \/ (ScanRuns(p) /\ ~Leave(p))
             \/ (LoadInput(p) /\ ~Leave(p))
      PROVE  StageInv'
  <2>1. /\ pc[p] \in {"scanOut", "scanRuns", "probe", "load", "sweep"}
        /\ \/ GoTo(p, "probe") \/ GoTo(p, "load") \/ GoTo(p, "stage") \/ GoTo(p, "delete")
           \/ (GoTo(p, "ensure") /\ target'[p] = "runs")
        /\ \A q \in Processes : q # p => target'[q] = target[q]
    BY <1>8 DEF ScanOut, RemoveProbe, Sweep, ScanRuns, LoadInput, PlaceInv, TypeOK
  <2>2. \/ pc'[p] \in {"probe", "load", "stage", "delete"}
        \/ pc'[p] = "ensure" /\ target'[p] = "runs"
    BY <2>1 DEF GoTo, PlaceInv, TypeOK
  <2>3. Fits(p)'
    BY <2>2 DEF Fits
  <2> QED  BY <1>4, <2>1, <2>3 DEF Inside, Places
<1>9. ASSUME NEW p \in Processes, ReserveId(p), ~Leave(p)
      PROVE  StageInv'
  <2>1. PICK i \in RunIds : dir[i] = "absent" /\ target' = [target EXCEPT ![p] = i]
    BY <1>9 DEF ReserveId
  <2>2. pc[p] = "stage" /\ dir' = dir /\ GoTo(p, "ensure")
    BY <1>9 DEF ReserveId
  <2>3. Fits(p)'
    BY <2>1, <2>2 DEF Fits, GoTo, PlaceInv, TypeOK
  <2> QED  BY <1>4, <2>1, <2>2, <2>3 DEF Inside, Places, PlaceInv, TypeOK
<1>10. ASSUME NEW p \in Processes, Execute(p)
       PROVE  StageInv'
  <2>1. dir' = dir /\ target' = target /\ GoTo(p, "write") /\ pc[p] = "execute"
    BY <1>10 DEF Execute
  <2>2. Fits(p)'
    BY <2>1 DEF StageInv, Fits, GoTo, PlaceInv, TypeOK
  <2> QED  BY <1>4, <2>1, <2>2 DEF Inside, Places
<1>11. ASSUME NEW p \in Processes, WriteArtifact(p)
       PROVE  StageInv'
  BY <1>11 DEF WriteArtifact, StageInv, Fits, Complete
<1>12. ASSUME NEW p \in Processes, Publish(p)
       PROVE  StageInv'
  <2>1. target[p] \in RunIds /\ target[p] \in Paths
    BY <1>12 DEF Publish, PlaceInv, TargetInv, Staging, Paths
  <2>2. dir'[target[p]] = "absent" /\ newest' = target[p] /\ target' = target
        /\ GoTo(p, "pointer") /\ pc[p] = "write"
    BY <1>12, <2>1 DEF Publish, PlaceInv, TypeOK
  <2>3. published'[target[p]].files = NumArtifacts
    BY <1>12, <2>1 DEF Publish, Staged, PlaceInv, TypeOK
  <2>4. Fits(p)'
    BY <2>1, <2>2, <2>3 DEF Fits, Complete, GoTo, PlaceInv, TypeOK
  <2> QED  BY <1>4, <2>2, <2>4 DEF Inside, Places
<1>13. ASSUME NEW p \in Processes, WritePointer(p)
       PROVE  StageInv'
  <2>1. UNCHANGED <<dir, published, newest, target>> /\ GoTo(p, "replace") /\ pc[p] = "pointer"
    BY <1>13 DEF WritePointer
  <2>2. Fits(p)'
    BY <2>1 DEF StageInv, Fits, Complete, GoTo, PlaceInv, TypeOK
  <2> QED  BY <1>4, <2>1, <2>2 DEF Inside, Places
<1>14. ASSUME NEW p \in Processes, Fail(p) \/ DeleteDirectory(p), ~Leave(p)
       PROVE  StageInv'
  <2>1. /\ GoTo(p, "delete") \/ GoTo(p, "sweep")
        /\ pc[p] \in Inside /\ target' = target
    BY <1>14 DEF Fail, DeleteDirectory, Inside, Places
  <2>2. Fits(p)'
    BY <2>1 DEF Fits, GoTo, PlaceInv, TypeOK
  <2> QED  BY <1>4, <2>1, <2>2 DEF Places
<1>15. ASSUME NEW p \in Processes, DeleteEntry(p)
       PROVE  StageInv'
  <2>1. pc[p] = "delete" /\ UNCHANGED <<pc, target>>
    BY <1>15 DEF DeleteEntry
  <2>2. Fits(p)'
    BY <2>1 DEF Fits
  <2> QED  BY <2>1, <2>2, OthersFit DEF Inside, Places
<1>16. ASSUME NEW p \in Processes,
              Refused(p) \/ ReplaceLatest(p) \/ SweepDone(p) \/ ScanRuns(p) \/ LoadInput(p)
              \/ ReserveId(p) \/ Fail(p) \/ DeleteDirectory(p),
              Leave(p)
       PROVE  StageInv'
  <2>1. pc[p] \in Inside \/ UNCHANGED <<dir, published, newest>>
    <3>1. CASE Refused(p)
      BY <3>1 DEF Refused
    <3>2. CASE Fail(p)
      BY <3>2 DEF Fail
    <3>3. CASE ~Refused(p) /\ ~Fail(p)
      BY <1>16, <3>3 DEF ReplaceLatest, SweepDone, ScanRuns, LoadInput, ReserveId,
                         DeleteDirectory, Inside, Places
    <3> QED  BY <3>1, <3>2, <3>3
  <2> QED  BY <1>3, <1>16, <2>1
<1>17. ASSUME NEW p \in Processes, Refused(p) \/ ReplaceLatest(p) \/ SweepDone(p)
       PROVE  Leave(p)
  BY <1>17 DEF Refused, ReplaceLatest, SweepDone
<1> QED
  BY <1>1, <1>2, <1>5, <1>6, <1>7, <1>8, <1>9, <1>10, <1>11, <1>12, <1>13, <1>14,
     <1>15, <1>16, <1>17
  DEF Next, RunnerStep, DoctorStep, SharedStep, Processes

LEMMA Reached == Spec => [](PlaceInv /\ StageInv)
BY PlaceInvInit, PlaceInvNext, StageInvInit, StageInvNext, PTL DEF Spec

\* The staging directory of a run under way keeps its marker, whatever a doctor
\* or another runner does.
THEOREM LiveStagingStays == Spec => []LiveStagingKept
<1>1. PlaceInv /\ StageInv => LiveStagingKept
  BY DEF PlaceInv, StageInv, Fits, TargetInv, Staging, LiveStagingKept, Processes
<1> QED  BY <1>1, Reached, PTL

\* Only the replace of latest.json moves the pointer, and it moves it to the
\* run that was published last.
THEOREM PointerFollowsRenames == Spec => PointerMovesToNewest
<1>1. PlaceInv /\ StageInv /\ [Next]_vars => [latest' # latest => latest' = newest]_vars
  <2> SUFFICES ASSUME PlaceInv, StageInv, [Next]_vars, latest' # latest
               PROVE  latest' = newest
    OBVIOUS
  <2>1. \E p \in Runners : ReplaceLatest(p)
    BY DEF Next, RunnerStep, DoctorStep, SharedStep, fsVars, vars, EditInput, StartRun,
           StartRetry, Ensure, OpenMarker, WriteMarker, ScanOut, ScanRuns, RemoveProbe,
           LoadInput, ReserveId, Execute, WriteArtifact, Publish, WritePointer,
           StartRepair, Sweep, SweepDone, Acquire, Refused, Fail, Crash, DeleteEntry,
           DeleteDirectory
  <2> QED
    BY <2>1 DEF ReplaceLatest, PlaceInv, StageInv, Fits, TargetInv, Staging, Processes
<1> QED  BY <1>1, Reached, PTL DEF Spec, PointerMovesToNewest

----------------------------------------------------------------------------
(* Published runs are never taken back, so that what a retry read of its     *)
(* parent before it took the lock is still true when its child is published. *)
Retries(keys, parent) ==
  parent # None => Complete(parent) /\ keys \subseteq published[parent].failed

RunInv ==
  /\ LatestIsComplete
  /\ \A i \in RunIds : Retries(published[i].keys, published[i].parent)
  /\ \A p \in Processes : Retries(job[p].keys, job[p].parent)

LEMMA RunInvInit == Init => RunInv
BY DEF Init, RunInv, LatestIsComplete, Retries, NoRun, NoJob

\* A step that publishes nothing keeps what is known of parents.
LEMMA RunInvQuiet ==
  ASSUME RunInv, UNCHANGED published, latest' = latest \/ Complete(latest'),
         \A p \in Processes :
           Retries(job'[p].keys, job'[p].parent)
  PROVE  RunInv'
BY DEF RunInv, LatestIsComplete, Retries, Complete

LEMMA NoJobRetries == Retries(NoJob.keys, NoJob.parent)
BY DEF Retries, NoJob

LEMMA LeaveKeepsJobs ==
  ASSUME PlaceInv, RunInv, NEW p \in Processes, Leave(p)
  PROVE  \A q \in Processes : Retries(job'[q].keys, job'[q].parent)
<1>1. job'[p] = NoJob /\ \A q \in Processes : q # p => job'[q] = job[q]
  BY DEF Leave, PlaceInv, TypeOK
<1> QED  BY <1>1, NoJobRetries DEF RunInv

LEMMA RunInvNext == PlaceInv /\ StageInv /\ RunInv /\ [Next]_vars => RunInv'
<1> SUFFICES ASSUME PlaceInv, StageInv, RunInv, [Next]_vars
             PROVE  RunInv'
  OBVIOUS
<1> USE RunsAssumption DEF fsVars
<1>1. CASE UNCHANGED <<published, latest, job>>
  BY <1>1, RunInvQuiet DEF RunInv
<1>2. ASSUME NEW p \in Processes, Leave(p), UNCHANGED <<published, latest>>
      PROVE  RunInv'
  BY <1>2, LeaveKeepsJobs, RunInvQuiet
<1>3. ASSUME NEW p \in Processes, StartRetry(p)
      PROVE  RunInv'
  <2>1. PICK i \in RunIds :
          /\ Complete(i)
          /\ job' = [job EXCEPT ![p].parent = i, ![p].keys = published[i].failed]
    BY <1>3 DEF StartRetry
  <2>2. job'[p].parent = i /\ job'[p].keys = published[i].failed
        /\ \A q \in Processes : q # p => job'[q] = job[q]
    BY <2>1 DEF PlaceInv, TypeOK
  <2>3. \A q \in Processes : Retries(job'[q].keys, job'[q].parent)
    BY <2>1, <2>2 DEF RunInv, Retries
  <2> QED  BY <1>3, <2>3, RunInvQuiet DEF StartRetry
<1>4. ASSUME NEW p \in Processes, LoadInput(p)
      PROVE  RunInv'
  <2>1. UNCHANGED <<published, latest>>
    BY <1>4 DEF LoadInput
  <2>2. CASE Leave(p)
    BY <1>2, <2>1, <2>2
  <2>3. CASE ~Leave(p)
    <3>1. /\ job'[p].parent = job[p].parent
          /\ job[p].parent # None => job'[p].keys = job[p].keys
          /\ \A q \in Processes : q # p => job'[q] = job[q]
      BY <1>4, <2>3 DEF LoadInput, PlaceInv, TypeOK
    <3>2. \A q \in Processes : Retries(job'[q].keys, job'[q].parent)
      BY <3>1 DEF RunInv, Retries
    <3> QED  BY <2>1, <3>2, RunInvQuiet
  <2> QED  BY <2>2, <2>3
<1>5. ASSUME NEW p \in Processes, Execute(p)
      PROVE  RunInv'
  <2>1. UNCHANGED <<published, latest>>
    BY <1>5 DEF Execute
  <2>2. PICK failed \in SUBSET Called(p) :
          job' = [job EXCEPT ![p].failed = failed, ![p].keys = Called(p)]
    BY <1>5 DEF Execute
  <2>3. job'[p].parent = job[p].parent /\ job'[p].keys = job[p].keys
        /\ \A q \in Processes : q # p => job'[q] = job[q]
    BY <2>2 DEF Called, PlaceInv, TypeOK
  <2>4. \A q \in Processes : Retries(job'[q].keys, job'[q].parent)
    BY <2>3 DEF RunInv
  <2> QED  BY <2>1, <2>4, RunInvQuiet
<1>6. ASSUME NEW p \in Processes, Publish(p)
      PROVE  RunInv'
  <2> DEFINE i == target[p]
  <2>1. i \in RunIds
    BY <1>6 DEF Publish, PlaceInv, TargetInv, Staging
  <2>2. ~Complete(i)
    BY <1>6 DEF Publish, Complete, NoRun
  <2>3. \A j \in RunIds : j # i => published'[j] = published[j]
    BY <1>6, <2>1 DEF Publish, PlaceInv, TypeOK
  <2>4. published'[i].parent = job[p].parent /\ published'[i].keys = job[p].keys
    BY <1>6, <2>1 DEF Publish, PlaceInv, TypeOK
  <2>5. ASSUME NEW parent \in RunIds \cup {None}, NEW keys, Retries(keys, parent)
        PROVE  Retries(keys, parent)'
    BY <2>2, <2>3, <2>5 DEF Retries, Complete
  <2>6. \A j \in RunIds : Retries(published[j].keys, published[j].parent)'
    <3> TAKE j \in RunIds
    <3>1. CASE j = i
      BY <2>4, <2>5, <3>1 DEF RunInv, PlaceInv, TypeOK, Retries, Complete
    <3>2. CASE j # i
      BY <2>3, <2>5, <3>2 DEF RunInv, PlaceInv, TypeOK, Retries, Complete
    <3> QED  BY <3>1, <3>2
  <2>7. \A q \in Processes : Retries(job[q].keys, job[q].parent)'
    BY <1>6, <2>5 DEF Publish, RunInv, PlaceInv, TypeOK, Retries, Complete
  <2>8. LatestIsComplete'
    BY <1>6, <2>2, <2>3 DEF Publish, RunInv, LatestIsComplete, Complete, PlaceInv, TypeOK
  <2> QED  BY <2>6, <2>7, <2>8 DEF RunInv
<1>7. ASSUME NEW p \in Processes, ReplaceLatest(p)
      PROVE  RunInv'
  <2>1. Complete(target[p])
    BY <1>7 DEF ReplaceLatest, PlaceInv, TargetInv, Staging, StageInv, Fits
  <2> QED  BY <1>7, <2>1, LeaveKeepsJobs, RunInvQuiet DEF ReplaceLatest
<1>8. ASSUME NEW p \in Processes, Crash(p)
      PROVE  RunInv'
  <2>1. job'[p] = NoJob /\ \A q \in Processes : q # p => job'[q] = job[q]
    BY <1>8 DEF Crash, PlaceInv, TypeOK
  <2>2. \A q \in Processes : Retries(job'[q].keys, job'[q].parent)
    BY <2>1, NoJobRetries DEF RunInv
  <2> QED  BY <1>8, <2>2, RunInvQuiet DEF Crash
<1>9. ASSUME NEW p \in Processes,
             ScanRuns(p) \/ ReserveId(p) \/ Ensure(p) \/ Fail(p) \/ DeleteDirectory(p)
             \/ Refused(p) \/ SweepDone(p)
      PROVE  RunInv'
  <2>1. UNCHANGED <<published, latest>> /\ (Leave(p) \/ UNCHANGED job)
    BY <1>9 DEF ScanRuns, ReserveId, Ensure, Fail, DeleteDirectory, Refused, SweepDone
  <2> QED  BY <1>1, <1>2, <2>1
<1>10. ASSUME NEW p \in Processes,
              StartRun(p) \/ StartRepair(p) \/ Acquire(p) \/ OpenMarker(p) \/ WriteMarker(p)
              \/ ScanOut(p) \/ RemoveProbe(p) \/ WriteArtifact(p) \/ WritePointer(p)
              \/ DeleteEntry(p) \/ Sweep(p)
       PROVE  RunInv'
  BY <1>1, <1>10 DEF StartRun, StartRepair, Acquire, OpenMarker, WriteMarker, ScanOut,
                     RemoveProbe, WriteArtifact, WritePointer, DeleteEntry, Sweep
<1>11. CASE EditInput \/ UNCHANGED vars
  BY <1>1, <1>11 DEF EditInput, vars
<1> QED
  BY <1>3, <1>4, <1>5, <1>6, <1>7, <1>8, <1>9, <1>10, <1>11
  DEF Next, RunnerStep, DoctorStep, SharedStep, Processes

LEMMA RunsReached == Spec => [](PlaceInv /\ StageInv /\ RunInv)
BY PlaceInvInit, PlaceInvNext, StageInvInit, StageInvNext, RunInvInit, RunInvNext, PTL
DEF Spec

\* latest.json points to nothing or to a run that is there in full.
THEOREM PointerIsSound == Spec => []LatestIsComplete
<1>1. RunInv => LatestIsComplete
  BY DEF RunInv
<1> QED  BY <1>1, RunsReached, PTL

\* A child run has called only rows that failed in its parent.
THEOREM SuccessesStay == Spec => []OnlyFailedRowsRetried
<1>1. RunInv => OnlyFailedRowsRetried
  BY DEF RunInv, Retries, OnlyFailedRowsRetried
<1> QED  BY <1>1, RunsReached, PTL

----------------------------------------------------------------------------
\* An operation that gives its lock back leaves no staging directory that is
\* marked as its own, except in the middle of deleting it.
THEOREM FailuresCleanUp == Spec => FailedRunsLeaveNoStaging
<1> DEFINE Cleaned ==
      \A p \in Runners :
        /\ lock = p /\ lock' = Free
        /\ target[p] \in RunIds
        /\ dir'[target[p]] = "owned"
        => pc[p] = "delete"
<1>1. PlaceInv /\ StageInv /\ [Next]_vars => [Cleaned]_vars
  <2> SUFFICES ASSUME PlaceInv, StageInv, [Next]_vars, NEW p \in Runners,
                      lock = p, lock' = Free, target[p] \in RunIds,
                      dir'[target[p]] = "owned", pc[p] # "delete"
               PROVE  FALSE
    OBVIOUS
  <2> USE RunsAssumption DEF fsVars
  <2>1. p \in Processes /\ pc[p] \in Inside /\ Fits(p)
    BY DEF Processes, PlaceInv, LockInv, StageInv
  <2>2. p # Free /\ p # Abandoned
    BY <2>1
  <2>3. ASSUME NEW q \in Processes, q # p, Leave(q)
        PROVE  FALSE
    BY <2>2, <2>3 DEF Leave
  <2> DEFINE Ends(q) ==
        \/ Ensure(q) \/ ScanRuns(q) \/ LoadInput(q) \/ ReserveId(q) \/ ReplaceLatest(q)
        \/ Fail(q) \/ DeleteDirectory(q) \/ SweepDone(q)
  <2>4. \E q \in Processes : Leave(q) /\ (Refused(q) \/ Ends(q))
    BY <2>2
    DEF Next, RunnerStep, DoctorStep, SharedStep, vars, EditInput, StartRun,
        StartRetry, Ensure, OpenMarker, WriteMarker, ScanOut, ScanRuns, RemoveProbe,
        LoadInput, ReserveId, Execute, WriteArtifact, Publish, WritePointer,
        ReplaceLatest, StartRepair, Sweep, SweepDone, Acquire, Refused, Fail, Crash,
        DeleteEntry, DeleteDirectory, Processes
  <2>5. Refused(p) \/ Ends(p)
    BY <2>3, <2>4
  <2>6. pc[p] \notin Rooted
    BY <2>1 DEF PlaceInv, TargetInv
  <2>7. pc[p] # "sweep"
    BY <2>1 DEF PlaceInv, TargetInv
  <2>8. Ensure(p) => dir'[target[p]] # "owned"
    BY <2>1 DEF Ensure, Fits, PlaceInv, TypeOK
  <2>9. ReplaceLatest(p) => dir'[target[p]] # "owned"
    BY <2>1 DEF ReplaceLatest, Fits
  <2>10. Fail(p) => dir'[target[p]] # "owned"
    <3> SUFFICES ASSUME Fail(p)
                 PROVE  dir[target[p]] # "owned"
      BY DEF Fail
    <3>1. pc[p] \notin {"execute", "write"}
      BY <2>2 DEF Fail, CleanedOnFailure
    <3>2. pc[p] \in {"ensure", "openMarker", "writeMarker", "pointer", "replace"}
      BY <2>1, <2>6, <2>7, <3>1 DEF Inside, Places, Rooted
    <3> QED  BY <2>1, <3>2 DEF Fits
  <2> QED
    BY <2>5, <2>6, <2>7, <2>8, <2>9, <2>10
    DEF Refused, ScanRuns, LoadInput, ReserveId, DeleteDirectory, SweepDone, Rooted
<1> QED  BY <1>1, Reached, PTL DEF Spec, FailedRunsLeaveNoStaging

----------------------------------------------------------------------------
(* The operations use the lock as the lock file provides it.                 *)

\* An operation that ends gives back the lock it holds, and no other.
LEMMA LeaveGivesBack ==
  ASSUME PlaceInv, NEW p \in Processes, Leave(p)
  PROVE  [Exclusive!Next]_(Exclusive!lockVars)
<1> USE RunsAssumption
<1>1. CASE lock = p
  <2>1. Exclusive!GiveBack(p)
    BY <1>1 DEF Leave, GoTo, PlaceInv, TypeOK, LockInv, Inside, Places, Exclusive!GiveBack
  <2> QED  BY <2>1 DEF Exclusive!Next
<1>2. CASE lock # p
  BY <1>2 DEF Leave, GoTo, PlaceInv, TypeOK, LockInv, Inside, Places, Exclusive!lockVars
<1> QED  BY <1>1, <1>2

\* A step that keeps the lock stays on its side of it, and is not seen.
LEMMA HeldLockUnseen ==
  ASSUME PlaceInv, PlaceInv', UNCHANGED lock
  PROVE  UNCHANGED Exclusive!lockVars
BY DEF PlaceInv, LockInv, Exclusive!lockVars

LEMMA LockUseMaps ==
  ASSUME PlaceInv, [Next]_vars
  PROVE  [Exclusive!Next]_(Exclusive!lockVars)
<1> USE RunsAssumption
<1>1. PlaceInv'
  BY PlaceInvNext
<1>2. CASE UNCHANGED lock
  BY <1>1, <1>2, HeldLockUnseen
<1>3. ASSUME NEW p \in Processes, Leave(p)
      PROVE  [Exclusive!Next]_(Exclusive!lockVars)
  BY <1>3, LeaveGivesBack
<1>4. ASSUME NEW p \in Processes, Acquire(p)
      PROVE  Exclusive!Take(p)
  BY <1>1, <1>4 DEF Acquire, PlaceInv, LockInv, Exclusive!Take
<1>5. ASSUME NEW p \in Processes, Crash(p)
      PROVE  [Exclusive!Next]_(Exclusive!lockVars)
  <2>1. CASE lock = p
    <3>1. Exclusive!Die(p)
      BY <1>1, <1>5, <2>1 DEF Crash, PlaceInv, LockInv, Exclusive!Die
    <3> QED  BY <3>1 DEF Exclusive!Next
  <2> QED  BY <1>2, <1>5, <2>1 DEF Crash
<1>6. ASSUME NEW d \in Doctors, StartRepair(d)
      PROVE  [Exclusive!Next]_(Exclusive!lockVars)
  <2>1. CASE lock = Abandoned
    <3>1. Exclusive!Clear
      BY <1>1, <1>6, <2>1 DEF StartRepair, PlaceInv, LockInv, Exclusive!Clear
    <3> QED  BY <3>1 DEF Exclusive!Next
  <2> QED  BY <1>2, <1>6, <2>1 DEF StartRepair
<1>7. ASSUME NEW p \in Runners, RunnerStep(p)
      PROVE  Leave(p) \/ UNCHANGED lock
  BY <1>7 DEF RunnerStep, StartRun, StartRetry, Ensure, OpenMarker, WriteMarker, ScanOut,
              ScanRuns, RemoveProbe, LoadInput, ReserveId, Execute, WriteArtifact,
              Publish, WritePointer, ReplaceLatest
<1>8. ASSUME NEW d \in Doctors, DoctorStep(d)
      PROVE  StartRepair(d) \/ Leave(d) \/ UNCHANGED lock
  BY <1>8 DEF DoctorStep, Sweep, SweepDone
<1>9. ASSUME NEW p \in Processes, SharedStep(p)
      PROVE  Acquire(p) \/ Crash(p) \/ Leave(p) \/ UNCHANGED lock
  BY <1>9 DEF SharedStep, Refused, Fail, DeleteEntry, DeleteDirectory
<1>10. EditInput \/ UNCHANGED vars => UNCHANGED lock
  BY DEF EditInput, vars
<1> QED
  BY <1>2, <1>3, <1>4, <1>5, <1>6, <1>7, <1>8, <1>9, <1>10
     DEF Next, Exclusive!Next, Processes

\* Any operations, failing or killed anywhere, take, keep and give back the lock
\* as ExclusiveLock says, which is what the lock file implements.
THEOREM WorksUnderLock == Spec => UsesLock
<1>1. Init => Exclusive!Init
  BY RunsAssumption DEF Init, Exclusive!Init, Inside, Places
<1>2. PlaceInv /\ [Next]_vars => [Exclusive!Next]_(Exclusive!lockVars)
  BY LockUseMaps
<1> QED
  BY <1>1, <1>2, PlaceInvInit, PlaceInvNext, PTL DEF Spec, UsesLock, Exclusive!Spec
=============================================================================
