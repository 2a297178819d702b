------------------------- MODULE ReportBundle_proofs -------------------------
(***************************************************************************)
(* Proofs about ReportBundle for any writers, reports and number of        *)
(* artifacts, with exceptions and kills between any two changes of the     *)
(* file system.                                                            *)
(***************************************************************************)
EXTENDS ReportBundle, TLAPS

USE BundleAssumption, NoDirAssumption

\* A writer is inside exactly while it has the lock.
HolderInv == \A p \in Writers : pc[p] \in Inside <=> holder = p

\* A staging directory that can be renamed into place.
Ready(p) ==
  stage # NoDir /\ stage.marker = "owned" /\ Whole(stage) /\ stage.of = job[p].of

\* What stands at the path is never part of a bundle, and it or its backup is
\* whole: a backup is deleted, and can be partial, only behind a whole bundle.
Shape ==
  /\ out # NoDir => out = Empty \/ (Whole(out) /\ out.of # None)
  /\ backup # NoDir /\ out # NoDir => Whole(out)
  /\ backup # NoDir /\ out = NoDir => Whole(backup) /\ backup.of # None

\* What the writer p knows of the directories from the steps it has taken.
At(p) ==
  /\ pc[p] \in {"markStage", "write"} =>
       stage # NoDir /\ stage.of = job[p].of /\ backup = NoDir
  /\ pc[p] = "write" => stage.marker = "owned"
  /\ pc[p] \in {"publish", "markOut", "retire"} => Ready(p) /\ backup = NoDir
  /\ pc[p] \in {"markOut", "retire"} => out # NoDir /\ Whole(out) /\ out.of = job[p].of
  /\ pc[p] = "retire" => out.marker = "owned"
  /\ pc[p] \in {"swap", "rollback"} =>
       /\ out = NoDir
       /\ backup # NoDir /\ OwnedBackup /\ backup.of = job[p].of
  /\ pc[p] = "swap" => Ready(p)
  /\ pc[p] = "rollback" => result[p] = "raised"
  /\ pc[p] \in {"unmark", "clearBackup", "dropBackup"} => out # NoDir /\ Whole(out)
  /\ pc[p] = "unmark" /\ result[p] = "none" => stage = NoDir /\ out.of = job[p].of
  /\ result[p] = "ok" => pc[p] \in {"dropBackup", "cleanup", "unlock", "idle"}
  /\ result[p] = "ok" /\ pc[p] # "idle" =>
       /\ stage = NoDir
       /\ out = [marker |-> "none", files |-> NumArtifacts, of |-> job[p].of]
       /\ pc[p] # "dropBackup" => backup = NoDir

BundleInv == TypeOK /\ HolderInv /\ Shape /\ \A p \in Writers : At(p)

LEMMA HandlerInside == ASSUME NEW step PROVE Handler(step) \in Inside
BY DEF Handler, Inside

LEMMA RecordTypes ==
  ASSUME NEW d \in Dirs
  PROVE  /\ d # NoDir
         /\ \A m \in {"none", "torn", "owned"} : [d EXCEPT !.marker = m] \in Dirs
         /\ \A f \in 0 .. NumArtifacts : [d EXCEPT !.files = f] \in Dirs
         /\ \A c \in Reports \cup {Foreign, None} : [d EXCEPT !.of = c] \in Dirs
BY DEF Dirs

LEMMA EmptyType == Empty \in Dirs /\ \A r \in Reports : [Empty EXCEPT !.of = r] \in Dirs
BY DEF Empty, Dirs

LEMMA ShrinksType ==
  ASSUME NEW d \in Dirs, NEW e, Shrinks(d, e)
  PROVE  e \in Dirs \cup {NoDir}
<1>1. d.files \in 0 .. NumArtifacts
  BY DEF Dirs
<1>2. d.files > 0 => d.files - 1 \in 0 .. NumArtifacts
  BY <1>1
<1> QED  BY <1>2, RecordTypes DEF Shrinks

LEMMA TypeOKNext == BundleInv /\ [Next]_vars => TypeOK'
<1> SUFFICES ASSUME TypeOK, \A p \in Writers : At(p), [Next]_vars
             PROVE  TypeOK'
  BY DEF BundleInv
<1> DEFINE Steps == {"idle"} \cup Locking \cup Inside
<1>1. ASSUME NEW p \in Writers, NEW step \in Steps, GoTo(p, step)
      PROVE  pc' \in [Writers -> Steps]
  BY <1>1 DEF TypeOK, GoTo
<1>2. ASSUME NEW p \in Writers, Start(p) \/ Open(p) \/ MarkLock(p) \/ CheckLock(p) \/ Flock(p)
      PROVE  TypeOK'
  <2>1. CASE Start(p)
    BY <2>1 DEF Start, GoTo, dirs, TypeOK, Locking
  <2>2. CASE Open(p)
    <3>1. (lockFile = "absent") \in BOOLEAN
      OBVIOUS
    <3> QED  BY <2>2, <3>1 DEF Open, GoTo, dirs, TypeOK, Locking
  <2>3. CASE MarkLock(p) \/ CheckLock(p) \/ Flock(p)
    BY <2>3 DEF MarkLock, CheckLock, Flock, GoTo, dirs, TypeOK, Locking, Inside
  <2> QED  BY <1>2, <2>1, <2>2, <2>3
<1>3. ASSUME NEW p \in Writers, NEW step \in Inside, Raise(p, step), UNCHANGED <<dirs, lockFile, holder, job, created>>,
             torn' \in BOOLEAN
      PROVE  TypeOK'
  BY <1>3 DEF Raise, GoTo, dirs, TypeOK, Locking
<1>4. ASSUME NEW p \in Writers, Admit(p) \/ Refuse(p) \/ Mismatch(p)
      PROVE  TypeOK'
  BY <1>4 DEF Admit, Refuse, Mismatch, Raise, GoTo, dirs, TypeOK, Locking, Inside
<1>5. ASSUME NEW p \in Writers, Unlock(p) \/ DropStage(p) \/ DropBackup(p) \/ Cleared(p)
      PROVE  TypeOK'
  BY <1>5 DEF Unlock, DropStage, DropBackup, Cleared, GoTo, dirs, TypeOK, Locking, Inside
<1>6. ASSUME NEW p \in Writers, ClearStage(p) \/ ClearBackup(p)
      PROVE  TypeOK'
  <2>1. {stage', backup'} \subseteq Dirs \cup {NoDir}
    BY <1>6, ShrinksType DEF ClearStage, ClearBackup, TypeOK
  <2> QED  BY <1>6, <2>1 DEF ClearStage, ClearBackup, TypeOK
<1>7. ASSUME NEW p \in Writers, RestoreBackup(p) \/ RemoveEmpty(p)
      PROVE  TypeOK'
  BY <1>7 DEF RestoreBackup, RemoveEmpty, TypeOK
<1>8. ASSUME NEW p \in Writers, Publish(p) \/ Retire(p) \/ Swap(p) \/ Rollback(p)
      PROVE  TypeOK'
  BY <1>8 DEF Publish, Retire, Swap, Rollback, GoTo, TypeOK, Inside
<1>9. ASSUME NEW p \in Writers, UnmarkOut(p) \/ StartSwap(p) \/ MarkOut(p) \/ Unmark(p)
      PROVE  TypeOK'
  <2>1. \E m \in {"none", "torn", "owned"} : out' = [out EXCEPT !.marker = m]
    BY <1>9 DEF UnmarkOut, StartSwap, MarkOut, Unmark
  <2>2. out # NoDir
    BY <1>9 DEF UnmarkOut, StartSwap, MarkOut, Unmark, Marked, Holds, At
  <2>3. out' \in Dirs
    <3>1. out \in Dirs
      BY <2>2 DEF TypeOK
    <3> QED  BY <2>1, <3>1, RecordTypes
  <2>4. CASE Unmark(p)
    <3>1. result' \in [Writers -> {"none", "ok", "raised"}]
      BY <2>4 DEF Unmark, TypeOK
    <3>2. pc' \in [Writers -> Steps]
      BY <1>1, <2>4 DEF Unmark, Inside
    <3> QED  BY <2>3, <2>4, <3>1, <3>2 DEF Unmark, TypeOK
  <2> QED  BY <1>9, <2>3, <2>4 DEF UnmarkOut, StartSwap, MarkOut, GoTo, TypeOK, Inside
<1>10. ASSUME NEW p \in Writers, MakeStage(p)
       PROVE  TypeOK'
  <2>1. job[p].of \in Reports
    BY DEF TypeOK, Jobs
  <2> QED  BY <1>10, <2>1, EmptyType DEF MakeStage, GoTo, TypeOK, Inside
<1>11. ASSUME NEW p \in Writers, MarkStage(p) \/ WriteArtifact(p)
       PROVE  TypeOK'
  <2>1. stage \in Dirs /\ stage.files \in 0 .. NumArtifacts
    BY <1>11 DEF MarkStage, WriteArtifact, At, TypeOK, Dirs
  <2>2. stage' \in Dirs
    <3>1. ~Whole(stage) => stage.files + 1 \in 0 .. NumArtifacts
      BY <2>1 DEF Whole
    <3> QED  BY <1>11, <2>1, <3>1, RecordTypes DEF MarkStage, WriteArtifact
  <2> QED  BY <1>11, <2>2 DEF MarkStage, WriteArtifact, GoTo, TypeOK, Inside
<1>12. ASSUME NEW p \in Writers, Fail(p)
      PROVE  TypeOK'
  <2>1. torn' \in BOOLEAN
    BY <1>12 DEF Fail, TypeOK, Midway
  <2> QED  BY <1>3, <1>12, <2>1, HandlerInside DEF Fail
<1>13. ASSUME NEW p \in Writers, Crash(p)
      PROVE  TypeOK'
  <2>1. torn' \in BOOLEAN
    BY <1>13 DEF Crash, TypeOK, Midway
  <2>2. pc' \in [Writers -> Steps] /\ holder' \in Writers \cup {None}
    BY <1>13 DEF Crash, GoTo, TypeOK
  <2> QED  BY <1>13, <2>1, <2>2 DEF Crash, dirs, TypeOK
<1>14. CASE EditBundle
  <2>1. out \in Dirs
    BY <1>14 DEF EditBundle, TypeOK
  <2>2. out' \in Dirs
    BY <1>14, <2>1, RecordTypes DEF EditBundle
  <2> QED  BY <1>14, <2>2 DEF EditBundle, TypeOK
<1>15. CASE UNCHANGED vars
  BY <1>15 DEF vars, dirs, TypeOK
<1> QED
  BY <1>2, <1>4, <1>5, <1>6, <1>7, <1>8, <1>9, <1>10, <1>11, <1>12, <1>13, <1>14, <1>15
  DEF Next, WriterStep

LEMMA BundleInvInit == Init => BundleInv
<1> SUFFICES ASSUME Init
             PROVE  BundleInv
  OBVIOUS
<1>1. out \in Dirs \cup {NoDir}
  BY EmptyType DEF Init, Dirs
<1>2. TypeOK
  BY <1>1 DEF Init, TypeOK
<1>3. HolderInv
  BY DEF Init, HolderInv, Inside
<1>4. Shape
  BY DEF Init, Shape, Whole
<1>5. \A p \in Writers : At(p)
  BY DEF Init, At
<1> QED  BY <1>2, <1>3, <1>4, <1>5 DEF BundleInv

\* What the holder of the lock does to the directories is no business of the
\* writers outside.
LEMMA OthersKeepAt ==
  ASSUME BundleInv, NEW p \in Writers, At(p)',
         pc[p] \in Inside \/ UNCHANGED dirs,
         \A q \in Writers : q # p =>
           pc'[q] = pc[q] /\ job'[q] = job[q] /\ result'[q] = result[q]
  PROVE  \A q \in Writers : At(q)'
<1> SUFFICES ASSUME NEW q \in Writers, q # p
             PROVE  At(q)'
  OBVIOUS
<1>1. CASE pc[p] \in Inside
  <2>1. pc[q] \notin Inside /\ pc'[q] = pc[q] /\ result'[q] = result[q] /\ At(q)
    BY <1>1 DEF BundleInv, HolderInv
  <2> QED  BY <2>1 DEF At, Inside
<1>2. CASE UNCHANGED dirs
  <2>1. /\ pc'[q] = pc[q] /\ job'[q] = job[q] /\ result'[q] = result[q] /\ At(q)
        /\ UNCHANGED <<out, stage, backup>>
    BY <1>2 DEF BundleInv, dirs
  <2> QED  BY <2>1 DEF At, Ready, Whole, OwnedBackup
<1> QED  BY <1>1, <1>2

\* A step of the holder that keeps the lock.
LEMMA InsideStep ==
  ASSUME BundleInv, TypeOK', NEW p \in Writers, NEW step \in Inside, GoTo(p, step),
         pc[p] \in Inside, UNCHANGED <<holder, job>>,
         \A q \in Writers : q # p => result'[q] = result[q],
         Shape', At(p)'
  PROVE  BundleInv'
<1>1. HolderInv'
  BY DEF BundleInv, HolderInv, TypeOK, GoTo
<1>2. \A q \in Writers : q # p =>
        pc'[q] = pc[q] /\ job'[q] = job[q] /\ result'[q] = result[q]
  BY DEF GoTo, BundleInv, TypeOK
<1> QED  BY <1>1, <1>2, OthersKeepAt DEF BundleInv

LEMMA InsideStay ==
  ASSUME BundleInv, TypeOK', NEW p \in Writers, pc[p] \in Inside,
         UNCHANGED <<pc, holder, job, result>>, Shape', At(p)'
  PROVE  BundleInv'
BY InsideStep DEF GoTo, BundleInv, TypeOK

LEMMA BundleInvNext == BundleInv /\ [Next]_vars => BundleInv'
<1> SUFFICES ASSUME BundleInv, [Next]_vars
             PROVE  BundleInv'
  OBVIOUS
<1>0. TypeOK /\ TypeOK' /\ HolderInv /\ Shape /\ \A p \in Writers : At(p)
  BY TypeOKNext DEF BundleInv
<1>1. ASSUME NEW p \in Writers,
             \/ Start(p) \/ Open(p) \/ MarkLock(p) \/ CheckLock(p) \/ Flock(p)
             \/ Crash(p) \/ Unlock(p)
      PROVE  BundleInv'
  <2>1. HolderInv'
    BY <1>0, <1>1 DEF Start, Open, MarkLock, CheckLock, Flock, Crash, Unlock, GoTo,
                      HolderInv, TypeOK, Inside
  <2>2. Shape'
    BY <1>0, <1>1 DEF Start, Open, MarkLock, CheckLock, Flock, Crash, Unlock, dirs, Shape
  <2>3. UNCHANGED dirs /\ \A q \in Writers : q # p =>
          pc'[q] = pc[q] /\ job'[q] = job[q] /\ result'[q] = result[q]
    BY <1>0, <1>1 DEF Start, Open, MarkLock, CheckLock, Flock, Crash, Unlock, GoTo, TypeOK
  <2>4. /\ pc'[p] \in {"idle", "open", "mark", "check", "flock", "admit"}
        /\ pc'[p] # "idle" => result'[p] # "ok"
    BY <1>0, <1>1 DEF Start, Open, MarkLock, CheckLock, Flock, Crash, Unlock, GoTo,
                      TypeOK, At
  <2>5. At(p)'
    BY <2>4 DEF At
  <2> QED  BY <1>0, <2>1, <2>2, <2>3, <2>5, OthersKeepAt DEF BundleInv
<1>2. ASSUME NEW p \in Writers, Admit(p) \/ Refuse(p) \/ Mismatch(p)
      PROVE  BundleInv'
  <2>1. PICK step \in {"unlock", "recover", "cleanup"} :
          /\ GoTo(p, step)
          /\ result'[p] # "ok"
          /\ \A q \in Writers : q # p => result'[q] = result[q]
    BY <1>0, <1>2 DEF Admit, Refuse, Mismatch, Raise, TypeOK, At
  <2>2. pc'[p] = step
    BY <1>0, <2>1 DEF GoTo, TypeOK
  <2>3. At(p)'
    BY <2>1, <2>2 DEF At
  <2>4. Shape' /\ pc[p] \in Inside
    BY <1>0, <1>2 DEF Admit, Refuse, Mismatch, Shape, dirs, Inside
  <2>5. UNCHANGED <<holder, job>>
    BY <1>2 DEF Admit, Refuse, Mismatch
  <2> QED  BY <1>0, <2>1, <2>3, <2>4, <2>5, InsideStep DEF Inside
<1>3. ASSUME NEW p \in Writers, DropStage(p)
      PROVE  BundleInv'
  <2>1. pc'[p] = "clearStage" /\ result'[p] # "ok"
    BY <1>0, <1>3 DEF DropStage, Recovers, GoTo, TypeOK, At
  <2>2. At(p)'
    BY <2>1 DEF At
  <2>3. Shape' /\ pc[p] \in Inside
    BY <1>0, <1>3 DEF DropStage, Recovers, Shape, dirs, Inside
  <2> QED  BY <1>0, <1>3, <2>2, <2>3, InsideStep DEF DropStage, Inside
<1>4. ASSUME NEW p \in Writers, RestoreBackup(p) \/ UnmarkOut(p)
      PROVE  BundleInv'
  <2>1. pc[p] = "recover" /\ UNCHANGED <<pc, holder, job, result>> /\ result[p] # "ok"
    BY <1>0, <1>4 DEF RestoreBackup, UnmarkOut, Recovers, At
  <2>2. At(p)'
    BY <2>1 DEF At
  <2>3. CASE RestoreBackup(p)
    <3>1. Whole(backup) /\ backup.of # None
      BY <1>0, <2>3 DEF RestoreBackup, Recovers, Refuses, OwnedBackup, Shape
    <3> QED  BY <1>0, <2>1, <2>2, <2>3, <3>1, InsideStay DEF RestoreBackup, Shape, Whole, Inside
  <2>4. CASE UnmarkOut(p)
    <3>1. out \in Dirs /\ Whole(out) /\ out.of # None
      BY <1>0, <2>4 DEF UnmarkOut, Marked, TypeOK, Shape, Empty
    <3>2. out'.files = out.files /\ out'.of = out.of /\ out' # NoDir /\ backup' = backup
      BY <2>4, <3>1, RecordTypes DEF UnmarkOut, Dirs
    <3> QED  BY <1>0, <2>1, <2>2, <3>1, <3>2, InsideStay DEF Shape, Whole, Inside
  <2> QED  BY <1>4, <2>3, <2>4
<1>5. ASSUME NEW p \in Writers, DropBackup(p)
      PROVE  BundleInv'
  <2>1. pc'[p] = "clearBackup" /\ result'[p] # "ok" /\ out # NoDir /\ Whole(out)
    BY <1>0, <1>5 DEF DropBackup, Recovers, GoTo, TypeOK, At, Shape
  <2>2. At(p)'
    BY <1>5, <2>1 DEF DropBackup, dirs, At, Whole
  <2>3. Shape' /\ pc[p] \in Inside
    BY <1>0, <1>5 DEF DropBackup, Recovers, Shape, dirs, Inside
  <2> QED  BY <1>0, <1>5, <2>2, <2>3, InsideStep DEF DropBackup, Inside
<1>6. ASSUME NEW p \in Writers, ClearStage(p) \/ ClearBackup(p)
      PROVE  BundleInv'
  <2>1. CASE ClearStage(p)
    <3>1. pc[p] \in {"clearStage", "cleanup"} /\ result[p] # "ok"
      BY <1>0, <2>1 DEF ClearStage, At
    <3>2. At(p)'
      BY <2>1, <3>1 DEF ClearStage, At
    <3>3. Shape'
      BY <1>0, <2>1 DEF ClearStage, Shape, Whole
    <3> QED  BY <1>0, <2>1, <3>1, <3>2, <3>3, InsideStay DEF ClearStage, Inside
  <2>2. CASE ClearBackup(p)
    <3>1. pc[p] \in {"clearBackup", "dropBackup"} /\ out # NoDir /\ Whole(out)
      BY <1>0, <2>2 DEF ClearBackup, At
    <3>2. At(p)'
      BY <1>0, <2>2, <3>1 DEF ClearBackup, At, Whole
    <3>3. Shape'
      BY <1>0, <2>2, <3>1 DEF ClearBackup, Shape, Whole
    <3> QED  BY <1>0, <2>2, <3>1, <3>2, <3>3, InsideStay DEF ClearBackup, Inside
  <2> QED  BY <1>6, <2>1, <2>2
<1>7. ASSUME NEW p \in Writers, Cleared(p)
      PROVE  BundleInv'
  <2>1. UNCHANGED <<out, stage, backup, holder, job, result>> /\ pc[p] \in Inside
    BY <1>7 DEF Cleared, dirs, Inside
  <2>2. Shape'
    BY <1>0, <2>1 DEF Shape, Whole
  <2>3. CASE pc[p] \in {"clearStage", "clearBackup"} /\ GoTo(p, "recover")
    <3>1. pc'[p] = "recover" /\ result'[p] # "ok"
      BY <1>0, <2>1, <2>3 DEF GoTo, TypeOK, At
    <3>2. At(p)'
      BY <3>1 DEF At
    <3> QED  BY <1>0, <2>1, <2>2, <2>3, <3>2, InsideStep DEF Inside
  <2>4. CASE \/ (pc[p] = "dropBackup" /\ backup = NoDir /\ GoTo(p, "cleanup"))
             \/ (pc[p] = "cleanup" /\ GoTo(p, "unlock"))
    <3>1. PICK step \in {"cleanup", "unlock"} : GoTo(p, step)
      BY <2>4
    <3>2. pc'[p] = step
      BY <1>0, <3>1 DEF GoTo, TypeOK
    <3>3. At(p)'
      BY <1>0, <2>1, <2>4, <3>2 DEF At
    <3> QED  BY <1>0, <2>1, <2>2, <3>1, <3>3, InsideStep DEF Inside
  <2> QED  BY <1>7, <2>3, <2>4 DEF Cleared
<1>8. ASSUME NEW p \in Writers, MakeStage(p)
      PROVE  BundleInv'
  <2>1. /\ stage' # NoDir /\ stage'.of = job'[p].of /\ backup' = NoDir
        /\ pc'[p] = "markStage" /\ result'[p] # "ok" /\ pc[p] \in Inside
    <3>1. job[p].of \in Reports /\ stage' = [Empty EXCEPT !.of = job[p].of]
      BY <1>0, <1>8 DEF MakeStage, TypeOK, Jobs
    <3>2. stage' # NoDir /\ stage'.of = job[p].of
      BY <3>1, EmptyType DEF Empty
    <3> QED  BY <1>0, <1>8, <3>2 DEF MakeStage, Recovers, GoTo, TypeOK, At, Inside
  <2>2. At(p)'
    BY <2>1 DEF At
  <2>3. Shape'
    BY <1>0, <1>8 DEF MakeStage, Shape, Whole
  <2> QED  BY <1>0, <1>8, <2>1, <2>2, <2>3, InsideStep DEF MakeStage, Inside
<1>9. ASSUME NEW p \in Writers, MarkStage(p)
      PROVE  BundleInv'
  <2>1. /\ stage \in Dirs /\ stage.of = job[p].of /\ backup = NoDir
        /\ pc[p] = "markStage" /\ result[p] # "ok"
    BY <1>0, <1>9 DEF MarkStage, TypeOK, At
  <2>2. stage' # NoDir /\ stage'.of = job[p].of /\ (stage.marker # "none" => stage'.marker = "owned")
    BY <1>9, <2>1, RecordTypes DEF MarkStage, Dirs
  <2>3. PICK step \in {"markStage", "write"} :
          GoTo(p, step) /\ (step = "write" => stage.marker # "none")
    BY <1>9 DEF MarkStage
  <2>4. pc'[p] = step
    BY <1>0, <2>3 DEF GoTo, TypeOK
  <2>5. At(p)'
    BY <1>9, <2>1, <2>2, <2>3, <2>4 DEF MarkStage, At
  <2>6. Shape'
    BY <1>0, <1>9 DEF MarkStage, Shape, Whole
  <2> QED  BY <1>0, <1>9, <2>1, <2>3, <2>5, <2>6, InsideStep DEF MarkStage, Inside
<1>10. ASSUME NEW p \in Writers, WriteArtifact(p)
      PROVE  BundleInv'
  <2>1. /\ stage \in Dirs /\ stage.of = job[p].of /\ stage.marker = "owned" /\ backup = NoDir
        /\ pc[p] = "write" /\ result[p] # "ok"
    BY <1>0, <1>10 DEF WriteArtifact, TypeOK, At
  <2>2. Shape'
    BY <1>0, <1>10 DEF WriteArtifact, Shape, Whole
  <2>3. CASE Whole(stage)
    <3>1. GoTo(p, "publish") /\ UNCHANGED stage /\ pc'[p] = "publish"
      BY <1>0, <1>10, <2>3 DEF WriteArtifact, GoTo, TypeOK
    <3>2. At(p)'
      BY <1>10, <2>1, <2>3, <3>1 DEF WriteArtifact, At, Ready, Whole, Dirs
    <3> QED  BY <1>0, <1>10, <2>1, <2>2, <3>1, <3>2, InsideStep DEF WriteArtifact, Inside
  <2>4. CASE ~Whole(stage)
    <3>1. stage' \in Dirs
      BY <1>0, <1>10, <2>1, <2>4 DEF WriteArtifact, Dirs, TypeOK, Whole
    <3>2. stage'.of = stage.of /\ stage'.marker = stage.marker /\ stage' # NoDir
      BY <1>10, <2>1, <2>4, <3>1 DEF WriteArtifact, Dirs
    <3>3. At(p)'
      BY <1>10, <2>1, <2>4, <3>2 DEF WriteArtifact, At
    <3> QED  BY <1>0, <1>10, <2>1, <2>2, <2>4, <3>3, InsideStay DEF WriteArtifact, Inside
  <2> QED  BY <2>3, <2>4
<1>11. ASSUME NEW p \in Writers, RemoveEmpty(p)
      PROVE  BundleInv'
  <2>1. pc[p] = "publish" /\ Ready(p) /\ backup = NoDir /\ result[p] # "ok"
    BY <1>0, <1>11 DEF RemoveEmpty, At
  <2>2. At(p)'
    BY <1>11, <2>1 DEF RemoveEmpty, At, Ready, Whole
  <2>3. Shape'
    BY <1>11, <2>1 DEF RemoveEmpty, Shape
  <2> QED  BY <1>0, <1>11, <2>1, <2>2, <2>3, InsideStay DEF RemoveEmpty, Inside
<1>12. ASSUME NEW p \in Writers, Publish(p) \/ Swap(p)
      PROVE  BundleInv'
  <2>1. /\ Ready(p) /\ pc[p] \in {"publish", "swap"} /\ result[p] # "ok"
        /\ job[p].of \in Reports /\ job[p].of # None
    BY <1>0, <1>12 DEF Publish, Swap, At, TypeOK, Jobs
  <2>2. out' = stage /\ stage' = NoDir /\ backup' = backup
        /\ GoTo(p, "unmark") /\ UNCHANGED <<holder, job, result>>
    BY <1>12 DEF Publish, Swap
  <2>3. Shape'
    BY <2>1, <2>2 DEF Shape, Ready, Whole
  <2>4. At(p)'
    BY <1>0, <2>1, <2>2 DEF At, Ready, Whole, GoTo, TypeOK
  <2> QED  BY <1>0, <2>1, <2>2, <2>3, <2>4, InsideStep DEF Inside
<1>13. ASSUME NEW p \in Writers, StartSwap(p) \/ MarkOut(p)
      PROVE  BundleInv'
  <2>1. /\ Ready(p) /\ backup = NoDir /\ result[p] # "ok" /\ pc[p] \in {"publish", "markOut"}
        /\ out \in Dirs /\ Whole(out) /\ out.of = job[p].of
    BY <1>0, <1>13 DEF StartSwap, MarkOut, At, Matches, Holds, TypeOK
  <2>2. /\ out' # NoDir /\ out'.files = out.files /\ out'.of = out.of
        /\ MarkOut(p) => out'.marker = "owned"
    BY <1>13, <2>1, RecordTypes DEF StartSwap, MarkOut, Dirs
  <2>3. job[p].of # None
    BY <1>0 DEF TypeOK, Jobs
  <2>4. Shape'
    BY <1>13, <2>1, <2>2, <2>3 DEF StartSwap, MarkOut, Shape, Whole
  <2>5. PICK step \in {"markOut", "retire"} : GoTo(p, step) /\ (step = "retire" => MarkOut(p))
    BY <1>13 DEF StartSwap, MarkOut
  <2>6. pc'[p] = step
    BY <1>0, <2>5 DEF GoTo, TypeOK
  <2>7. At(p)'
    BY <1>13, <2>1, <2>2, <2>5, <2>6 DEF StartSwap, MarkOut, At, Ready, Whole
  <2> QED  BY <1>0, <1>13, <2>1, <2>4, <2>5, <2>7, InsideStep DEF StartSwap, MarkOut, Inside
<1>14. ASSUME NEW p \in Writers, Retire(p)
      PROVE  BundleInv'
  <2>1. /\ Ready(p) /\ result[p] # "ok" /\ pc[p] = "retire"
        /\ out # NoDir /\ Whole(out) /\ out.of = job[p].of /\ out.marker = "owned"
        /\ job[p].of # None
    BY <1>0, <1>14 DEF Retire, At, TypeOK, Jobs
  <2>2. Shape'
    BY <1>14, <2>1 DEF Retire, Shape, Whole
  <2>3. pc'[p] = "swap"
    BY <1>0, <1>14 DEF Retire, GoTo, TypeOK
  <2>4. At(p)'
    BY <1>14, <2>1, <2>3 DEF Retire, At, Ready, Whole, OwnedBackup
  <2> QED  BY <1>0, <1>14, <2>1, <2>2, <2>4, InsideStep DEF Retire, Inside
<1>15. ASSUME NEW p \in Writers, Rollback(p)
      PROVE  BundleInv'
  <2>1. /\ backup # NoDir /\ Whole(backup) /\ backup.of = job[p].of /\ job[p].of # None
        /\ pc[p] = "rollback" /\ result[p] = "raised"
    BY <1>0, <1>15 DEF Rollback, At, OwnedBackup, TypeOK, Jobs
  <2>2. Shape'
    BY <1>15, <2>1 DEF Rollback, Shape, Whole
  <2>3. pc'[p] = "unmark"
    BY <1>0, <1>15 DEF Rollback, GoTo, TypeOK
  <2>4. At(p)'
    BY <1>15, <2>1, <2>3 DEF Rollback, At, Whole
  <2> QED  BY <1>0, <1>15, <2>1, <2>2, <2>4, InsideStep DEF Rollback, Inside
<1>16. ASSUME NEW p \in Writers, Unmark(p)
      PROVE  BundleInv'
  <2>1. /\ out \in Dirs /\ Whole(out) /\ pc[p] = "unmark" /\ result[p] \in {"none", "raised"}
        /\ result[p] = "none" => stage = NoDir /\ out.of = job[p].of
    BY <1>0, <1>16 DEF Unmark, At, TypeOK
  <2>2. /\ out' = [marker |-> "none", files |-> NumArtifacts, of |-> out.of]
        /\ out' # NoDir
    BY <1>16, <2>1, RecordTypes DEF Unmark, Dirs, Whole
  <2>3. out.of # None
    BY <1>0, <2>1 DEF Shape, Empty, Whole, Dirs
  <2>4. Shape'
    BY <1>0, <1>16, <2>2, <2>3 DEF Unmark, Shape, Whole
  <2>5. PICK step \in {"dropBackup", "cleanup"} :
          GoTo(p, step) /\ (step = "cleanup" => backup = NoDir)
    BY <1>16 DEF Unmark
  <2>6. /\ pc'[p] = step
        /\ result'[p] = "ok" => stage = NoDir /\ out.of = job[p].of
    BY <1>0, <1>16, <2>1, <2>5 DEF Unmark, GoTo, TypeOK
  <2>7. At(p)'
    <3>1. out' # NoDir /\ Whole(out') /\ UNCHANGED <<stage, backup, job>>
      BY <1>16, <2>2 DEF Unmark, Whole
    <3>2. result'[p] = "ok" =>
            /\ stage' = NoDir
            /\ out' = [marker |-> "none", files |-> NumArtifacts, of |-> job'[p].of]
      BY <2>2, <2>6, <3>1
    <3> HIDE <2>2
    <3> QED  BY <2>5, <2>6, <3>1, <3>2 DEF At, Whole
  <2>8. \A q \in Writers : q # p => result'[q] = result[q]
    BY <1>0, <1>16 DEF Unmark, TypeOK
  <2> QED  BY <1>0, <1>16, <2>1, <2>4, <2>5, <2>7, <2>8, InsideStep DEF Unmark, Inside
<1>17. ASSUME NEW p \in Writers, Fail(p)
      PROVE  BundleInv'
  <2>1. /\ GoTo(p, Handler(pc[p])) /\ UNCHANGED <<out, stage, backup, holder, job>>
        /\ pc[p] \in Inside
        /\ result'[p] = "raised" /\ \A q \in Writers : q # p => result'[q] = result[q]
    BY <1>0, <1>17 DEF Fail, Raise, dirs, TypeOK
  <2>2. /\ pc'[p] \in {"rollback", "cleanup", "unlock"}
        /\ pc'[p] = "rollback" => pc[p] = "swap"
    BY <1>0, <2>1 DEF GoTo, Handler, TypeOK
  <2>3. Shape'
    BY <1>0, <2>1 DEF Shape, Whole
  <2>4. At(p)'
    BY <1>0, <2>1, <2>2 DEF At, OwnedBackup, Whole
  <2> QED  BY <1>0, <2>1, <2>3, <2>4, HandlerInside, InsideStep
<1>18. CASE EditBundle
  <2>1. out \in Dirs /\ Whole(out)
    BY <1>0, <1>18 DEF EditBundle, TypeOK
  <2>2. out'.files = out.files /\ out'.of = Foreign /\ out' # NoDir
    BY <1>18, <2>1, RecordTypes DEF EditBundle, Dirs
  <2>3. Shape'
    BY <1>18, <2>1, <2>2 DEF EditBundle, Shape, Whole
  <2>4. ASSUME NEW p \in Writers
        PROVE  At(p)'
    <3>1. pc[p] \notin Inside /\ pc'[p] = pc[p] /\ result'[p] = result[p]
      BY <1>0, <1>18 DEF EditBundle, HolderInv
    <3> QED  BY <1>0, <3>1 DEF At, Inside
  <2>5. HolderInv'
    BY <1>0, <1>18 DEF EditBundle, HolderInv
  <2> QED  BY <1>0, <2>3, <2>4, <2>5 DEF BundleInv
<1>19. CASE UNCHANGED vars
  <2>1. UNCHANGED <<out, stage, backup, holder, pc, job, result>>
    BY <1>19 DEF vars, dirs
  <2> QED  BY <1>0, <2>1 DEF BundleInv, HolderInv, Shape, At, Ready, Whole, OwnedBackup
<1> QED
  BY <1>1, <1>2, <1>3, <1>4, <1>5, <1>6, <1>7, <1>8, <1>9, <1>10, <1>11, <1>12, <1>13,
     <1>14, <1>15, <1>16, <1>17, <1>18, <1>19
  DEF Next, WriterStep

\* The variables have their types in every reachable state.
THEOREM TypeCorrect == Spec => []TypeOK
<1>1. BundleInv => TypeOK
  BY DEF BundleInv
<1> QED  BY <1>1, BundleInvInit, BundleInvNext, PTL DEF Spec

\* A writer that reports success leaves its report at the path, and no staging,
\* backup or marker.
THEOREM SuccessLeavesReport == Spec => []SuccessIsClean
<1>1. BundleInv => SuccessIsClean
  BY DEF BundleInv, At, SuccessIsClean
<1> QED  BY <1>1, BundleInvInit, BundleInvNext, PTL DEF Spec

----------------------------------------------------------------------------
(* The refinement: what the owner sees changes only by a first publication  *)
(* and by the owner's own edits.                                            *)

LEMMA WholeIsShown ==
  ASSUME NEW d, d # NoDir, Whole(d)
  PROVE  Holds(d) /\ Content(d) = d.of
BY DEF Whole, Holds, Content

LEMMA ShownInit == Init => Bundle!Init
BY DEF Init, Bundle!Init, Shown, Holds, Content, Whole, Empty

LEMMA ShownStep == BundleInv /\ [Next]_vars => [Bundle!Next]_Shown
<1> SUFFICES ASSUME BundleInv, [Next]_vars
             PROVE  [Bundle!Next]_Shown
  OBVIOUS
<1>0. TypeOK /\ Shape /\ \A p \in Writers : At(p)
  BY DEF BundleInv
<1>1. CASE UNCHANGED <<out, backup>>
  BY <1>1 DEF Shown, Holds, Content, Whole
<1>2. ASSUME out # NoDir, Whole(out), out' # NoDir, out'.files = out.files, out'.of = out.of
      PROVE  UNCHANGED Shown
  BY <1>2, WholeIsShown DEF Shown, Whole
<1>3. ASSUME NEW p \in Writers, RestoreBackup(p) \/ Rollback(p)
      PROVE  UNCHANGED Shown
  <2>1. backup # NoDir /\ Whole(backup) /\ out = NoDir
    BY <1>0, <1>3 DEF RestoreBackup, Rollback, Shape, At
  <2>2. out' = backup
    BY <1>3 DEF RestoreBackup, Rollback
  <2>3. Shown = backup.of
    BY <2>1, WholeIsShown DEF Shown, Holds
  <2>4. Shown' = backup.of
    BY <2>1, <2>2, WholeIsShown DEF Shown, Holds, Content, Whole
  <2> QED  BY <2>3, <2>4
<1>4. ASSUME NEW p \in Writers, UnmarkOut(p) \/ StartSwap(p) \/ MarkOut(p) \/ Unmark(p)
      PROVE  UNCHANGED Shown
  <2>1. out \in Dirs /\ Whole(out)
    BY <1>0, <1>4 DEF UnmarkOut, StartSwap, MarkOut, Unmark, Marked, Matches, Holds, At,
                      Shape, Empty, TypeOK
  <2>2. out'.files = out.files /\ out'.of = out.of /\ out' # NoDir
    BY <1>4, <2>1, RecordTypes DEF UnmarkOut, StartSwap, MarkOut, Unmark, Dirs
  <2> QED  BY <1>2, <2>1, <2>2, RecordTypes
<1>5. ASSUME NEW p \in Writers, ClearBackup(p)
      PROVE  UNCHANGED Shown
  <2>1. out # NoDir /\ Whole(out) /\ out' = out
    BY <1>0, <1>5 DEF ClearBackup, At
  <2> QED  BY <1>2, <2>1
<1>6. ASSUME NEW p \in Writers, RemoveEmpty(p)
      PROVE  UNCHANGED Shown
  <2>1. backup = NoDir /\ backup' = NoDir /\ out = Empty /\ out' = NoDir
    BY <1>0, <1>6 DEF RemoveEmpty, At
  <2> QED  BY <2>1 DEF Shown, Holds, Empty
<1>7. ASSUME NEW p \in Writers, Publish(p)
      PROVE  Bundle!Publish
  <2>1. /\ backup = NoDir /\ out = NoDir /\ out' = stage
        /\ stage # NoDir /\ Whole(stage) /\ stage.of \in Reports
    BY <1>0, <1>7 DEF Publish, At, Ready, TypeOK, Jobs
  <2>2. Shown = None
    BY <2>1 DEF Shown, Holds
  <2>3. Shown' = stage.of
    BY <2>1 DEF Shown, Holds, Content, Whole
  <2> QED  BY <2>1, <2>2, <2>3 DEF Bundle!Publish
<1>8. ASSUME NEW p \in Writers, Retire(p) \/ Swap(p)
      PROVE  UNCHANGED Shown
  <2>1. CASE Retire(p)
    <3>1. out # NoDir /\ Whole(out) /\ backup' = out /\ out' = NoDir
      BY <1>0, <2>1 DEF Retire, At
    <3> QED  BY <3>1 DEF Shown, Holds, Content, Whole
  <2>2. CASE Swap(p)
    <3>1. /\ out = NoDir /\ backup # NoDir /\ Whole(backup) /\ backup.of = job[p].of
          /\ out' = stage /\ stage # NoDir /\ Whole(stage) /\ stage.of = job[p].of
      BY <1>0, <2>2 DEF Swap, At, Ready, OwnedBackup
    <3> QED  BY <3>1 DEF Shown, Holds, Content, Whole
  <2> QED  BY <1>8, <2>1, <2>2
<1>9. CASE EditBundle
  <2>1. out \in Dirs /\ Whole(out) /\ out.of \in Reports
    BY <1>0, <1>9 DEF EditBundle, TypeOK
  <2>2. out'.files = out.files /\ out'.of = Foreign /\ out' # NoDir
    BY <1>9, <2>1, RecordTypes DEF EditBundle, Dirs
  <2>3. Shown = out.of /\ Shown' = Foreign
    BY <2>1, <2>2, RecordTypes DEF Shown, Holds, Content, Whole
  <2> QED  BY <2>1, <2>3 DEF Bundle!Next, Bundle!Edit
<1> QED
  BY <1>1, <1>3, <1>4, <1>5, <1>6, <1>7, <1>8, <1>9
  DEF Next, WriterStep, Bundle!Next, vars, dirs, Start, Open, MarkLock, CheckLock,
      Flock, Admit, Unlock, Refuse, Mismatch, Raise, DropStage, DropBackup, ClearStage,
      Cleared, MakeStage, MarkStage, WriteArtifact, Fail, Crash

\* Every behaviour of the writers implements the published bundle, wherever
\* they are interrupted.
THEOREM ImplementsBundle == Spec => KeepsBundle
BY ShownInit, ShownStep, BundleInvInit, BundleInvNext, PTL DEF Spec, KeepsBundle, Bundle!Spec

----------------------------------------------------------------------------
(* Unless an interruption fell inside a window of two calls, a directory or  *)
(* lock file that is not whole has a writer at work on it.                   *)
LockAttended == lockFile = "torn" => \E p \in Writers : pc[p] = "mark"

StageAttended ==
  stage # NoDir /\ ~OwnedStage =>
    \E p \in Writers : pc[p] \in {"markStage", "clearStage", "cleanup"}

BackupAttended ==
  backup # NoDir /\ ~OwnedBackup =>
    \E p \in Writers : pc[p] \in {"clearBackup", "dropBackup"}

OutAttended ==
  out # NoDir /\ out.marker = "torn" => \E p \in Writers : pc[p] = "markOut"

Attended == LockAttended /\ StageAttended /\ BackupAttended /\ OutAttended

AttendedInv == torn \/ Attended

LEMMA AttendedInit == Init => AttendedInv
BY DEF Init, AttendedInv, Attended, LockAttended, StageAttended, BackupAttended,
       OutAttended, Empty

\* A step that changes no directory keeps every attendant who does not leave.
LEMMA AttendedQuiet ==
  ASSUME BundleInv, Attended, UNCHANGED dirs, lockFile' = lockFile,
         NEW p \in Writers, \A q \in Writers : q # p => pc'[q] = pc[q],
         ~Midway(p) \/ pc'[p] = pc[p]
  PROVE  Attended'
<1>0. UNCHANGED <<out, stage, backup>>
  BY DEF dirs
<1>1. LockAttended'
  BY DEF Attended, LockAttended, Midway
<1>2. StageAttended'
  BY <1>0 DEF Attended, StageAttended, OwnedStage, Midway
<1>3. BackupAttended'
  BY <1>0 DEF Attended, BackupAttended, OwnedBackup, Whole, Midway
<1>4. OutAttended'
  BY <1>0 DEF Attended, OutAttended, Midway
<1> QED  BY <1>1, <1>2, <1>3, <1>4 DEF Attended

LEMMA AttendedNext == BundleInv /\ BundleInv' /\ AttendedInv /\ [Next]_vars => AttendedInv'
<1> SUFFICES ASSUME BundleInv, BundleInv', Attended, ~torn, ~torn', [Next]_vars
             PROVE  Attended'
  <2>1. torn /\ [Next]_vars => torn'
    BY DEF Next, WriterStep, vars, Start, Open, MarkLock, CheckLock, Flock, Admit, Unlock,
           Refuse, DropStage, RestoreBackup, UnmarkOut, DropBackup, ClearStage,
           ClearBackup, Cleared, MakeStage, MarkStage, WriteArtifact, RemoveEmpty,
           Publish, Mismatch, StartSwap, MarkOut, Retire, Swap, Rollback, Unmark, Fail,
           Crash, EditBundle
  <2> QED  BY <2>1 DEF AttendedInv
<1>0. TypeOK /\ HolderInv /\ \A p \in Writers : At(p)
  BY DEF BundleInv
<1>1. ASSUME NEW p \in Writers, Fail(p) \/ Crash(p)
      PROVE  Attended'
  <2>1. ~Midway(p)
    BY <1>1 DEF Fail, Crash
  <2> QED  BY <1>0, <1>1, <2>1, AttendedQuiet DEF Fail, Crash, Raise, GoTo, TypeOK
<1>2. ASSUME NEW p \in Writers,
             Start(p) \/ CheckLock(p) \/ Flock(p) \/ Admit(p) \/ Unlock(p) \/ Refuse(p)
             \/ DropStage(p) \/ DropBackup(p) \/ Mismatch(p) \/ Cleared(p)
      PROVE  Attended'
  <2>1. ~Midway(p) /\ UNCHANGED <<dirs, lockFile>>
    BY <1>2 DEF Start, CheckLock, Flock, Admit, Unlock, Refuse, Recovers, DropStage,
                DropBackup, Mismatch, Cleared, Midway
  <2>2. \A q \in Writers : q # p => pc'[q] = pc[q]
    BY <1>0, <1>2 DEF Start, CheckLock, Flock, Admit, Unlock, Refuse, Recovers, DropStage,
                DropBackup, Mismatch, Cleared, Raise, GoTo, TypeOK
  <2> QED  BY <2>1, <2>2, AttendedQuiet
<1>3. ASSUME NEW p \in Writers, Open(p) \/ MarkLock(p)
      PROVE  Attended'
  <2>1. LockAttended'
    BY <1>0, <1>3 DEF Open, MarkLock, GoTo, TypeOK, Attended, LockAttended
  <2>2. UNCHANGED <<out, stage, backup>>
    BY <1>3 DEF Open, MarkLock, dirs
  <2>3. \A q \in Writers : pc[q] \in Inside => pc'[q] = pc[q]
    BY <1>0, <1>3 DEF Open, MarkLock, GoTo, TypeOK, Inside
  <2>4. StageAttended' /\ BackupAttended' /\ OutAttended'
    BY <2>2, <2>3 DEF Attended, StageAttended, BackupAttended, OutAttended, OwnedStage,
                      OwnedBackup, Whole, Inside
  <2> QED  BY <2>1, <2>4 DEF Attended
<1>4. ASSUME NEW p \in Writers, pc[p] \in Inside, lockFile' = lockFile,
             \A q \in Writers : q # p => pc'[q] = pc[q]
      PROVE  LockAttended'
  BY <1>4 DEF Attended, LockAttended, Inside
<1>5. ASSUME NEW p \in Writers, MakeStage(p) \/ MarkStage(p) \/ WriteArtifact(p) \/ ClearStage(p)
      PROVE  Attended'
  <2>1. /\ UNCHANGED <<out, backup, lockFile>> /\ pc[p] \in Inside
        /\ \A q \in Writers : q # p => pc'[q] = pc[q]
        /\ pc[p] \in {"recover", "markStage", "write", "clearStage", "cleanup"}
        /\ pc[p] \in {"clearStage", "cleanup"} => pc'[p] = pc[p]
    BY <1>0, <1>5 DEF MakeStage, MarkStage, WriteArtifact, ClearStage, Recovers, GoTo,
                      TypeOK, Inside
  <2>2. \A q \in Writers : pc[q] \in Inside => q = p
    BY <1>0, <2>1 DEF HolderInv
  <2>3. BackupAttended'
    BY <2>1, <2>2 DEF Attended, BackupAttended, OwnedBackup, Whole, Inside
  <2>4. OutAttended'
    BY <2>1, <2>2 DEF Attended, OutAttended, Inside
  <2>5. StageAttended'
    <3>1. CASE MakeStage(p)
      BY <1>0, <3>1 DEF MakeStage, GoTo, TypeOK, StageAttended
    <3>2. CASE MarkStage(p)
      <4>1. stage \in Dirs
        BY <1>0, <3>2 DEF MarkStage, At, TypeOK
      <4>2. stage.marker # "none" => stage'.marker = "owned"
        BY <3>2, <4>1 DEF MarkStage, Dirs
      <4>3. stage.marker = "none" => pc'[p] = "markStage"
        BY <1>0, <3>2 DEF MarkStage, GoTo, TypeOK
      <4> QED  BY <4>2, <4>3 DEF StageAttended, OwnedStage
    <3>3. CASE WriteArtifact(p)
      <4>1. stage \in Dirs /\ stage.marker = "owned"
        BY <1>0, <3>3 DEF WriteArtifact, At, TypeOK
      <4>2. stage'.marker = "owned"
        BY <3>3, <4>1 DEF WriteArtifact, Dirs
      <4> QED  BY <4>2 DEF StageAttended, OwnedStage
    <3>4. CASE ClearStage(p)
      BY <2>1, <3>4 DEF ClearStage, StageAttended
    <3> QED  BY <1>5, <3>1, <3>2, <3>3, <3>4
  <2> QED  BY <1>4, <2>1, <2>3, <2>4, <2>5 DEF Attended
<1>6. ASSUME NEW p \in Writers, ClearBackup(p)
      PROVE  Attended'
  <2>1. /\ UNCHANGED <<out, stage, lockFile, pc>> /\ pc[p] \in {"clearBackup", "dropBackup"}
    BY <1>6 DEF ClearBackup
  <2>2. LockAttended' /\ StageAttended' /\ OutAttended' /\ BackupAttended'
    BY <2>1 DEF Attended, LockAttended, StageAttended, OutAttended, BackupAttended, OwnedStage
  <2> QED  BY <2>2 DEF Attended
<1>7. ASSUME NEW p \in Writers,
             \/ RestoreBackup(p) \/ UnmarkOut(p) \/ RemoveEmpty(p) \/ Publish(p)
             \/ StartSwap(p) \/ MarkOut(p) \/ Retire(p) \/ Swap(p) \/ Rollback(p) \/ Unmark(p)
      PROVE  Attended'
  <2>1. /\ pc[p] \in {"recover", "publish", "markOut", "retire", "swap", "rollback", "unmark"}
        /\ lockFile' = lockFile /\ \A q \in Writers : q # p => pc'[q] = pc[q]
    BY <1>0, <1>7 DEF RestoreBackup, UnmarkOut, RemoveEmpty, Publish, StartSwap, MarkOut,
                      Retire, Swap, Rollback, Unmark, Recovers, GoTo, TypeOK
  <2>2. \A q \in Writers : pc[q] \in Inside => q = p
    BY <1>0, <2>1 DEF HolderInv, Inside
  <2>3. LockAttended'
    BY <1>4, <2>1 DEF Inside
  <2>4. StageAttended'
    <3>1. stage # NoDir => OwnedStage
      BY <2>1, <2>2 DEF Attended, StageAttended, Inside
    <3>2. stage' = stage \/ stage' = NoDir
      BY <1>7 DEF RestoreBackup, UnmarkOut, RemoveEmpty, Publish, StartSwap, MarkOut,
                  Retire, Swap, Rollback, Unmark
    <3> QED  BY <3>1, <3>2 DEF StageAttended, OwnedStage
  <2>5. backup # NoDir => OwnedBackup
    BY <2>1, <2>2 DEF Attended, BackupAttended, Inside
  <2>6. BackupAttended'
    <3>1. CASE Retire(p)
      BY <1>0, <3>1 DEF Retire, At, BackupAttended, OwnedBackup, Whole
    <3>2. CASE ~Retire(p)
      <4>1. backup' = backup \/ backup' = NoDir
        BY <1>7, <3>2 DEF RestoreBackup, UnmarkOut, RemoveEmpty, Publish, StartSwap,
                          MarkOut, Swap, Rollback, Unmark
      <4> QED  BY <2>5, <4>1 DEF BackupAttended, OwnedBackup, Whole
    <3> QED  BY <3>1, <3>2
  <2>7. OutAttended'
    <3>1. CASE RestoreBackup(p) \/ Rollback(p)
      BY <1>0, <2>5, <3>1 DEF RestoreBackup, Rollback, At, OutAttended, OwnedBackup
    <3>2. CASE Publish(p) \/ Swap(p)
      BY <1>0, <3>2 DEF Publish, Swap, At, Ready, OutAttended
    <3>3. CASE RemoveEmpty(p) \/ Retire(p)
      BY <3>3 DEF RemoveEmpty, Retire, OutAttended
    <3>4. CASE StartSwap(p)
      BY <1>0, <3>4 DEF StartSwap, GoTo, TypeOK, OutAttended
    <3>5. CASE UnmarkOut(p) \/ MarkOut(p) \/ Unmark(p)
      <4>1. out \in Dirs
        BY <1>0, <3>5 DEF UnmarkOut, MarkOut, Unmark, Marked, At, TypeOK
      <4>2. out'.marker # "torn"
        BY <3>5, <4>1 DEF UnmarkOut, MarkOut, Unmark, Dirs
      <4> QED  BY <4>2 DEF OutAttended
    <3> QED  BY <1>7, <3>1, <3>2, <3>3, <3>4, <3>5
  <2> QED  BY <2>3, <2>4, <2>6, <2>7 DEF Attended
<1>8. CASE EditBundle
  <2>1. UNCHANGED <<stage, backup, lockFile, pc>> /\ out # NoDir
    BY <1>8 DEF EditBundle
  <2>2. out'.marker = out.marker
    BY <1>0, <1>8, <2>1 DEF EditBundle, TypeOK, Dirs
  <2> QED  BY <2>1, <2>2 DEF Attended, LockAttended, StageAttended, BackupAttended,
                             OutAttended, OwnedStage, OwnedBackup, Whole
<1>9. CASE UNCHANGED vars
  BY <1>9 DEF vars, dirs, Attended, LockAttended, StageAttended, BackupAttended,
              OutAttended, OwnedStage, OwnedBackup, Whole
<1> QED
  BY <1>1, <1>2, <1>3, <1>5, <1>6, <1>7, <1>8, <1>9 DEF Next, WriterStep

\* What interrupted writers leave behind, the next one accepts, unless the
\* interruption fell inside a window of two calls.
THEOREM LeftoversAreAccepted == Spec => []LeftoversAccepted
<1>1. BundleInv /\ AttendedInv => LeftoversAccepted
  <2> SUFFICES ASSUME BundleInv, Attended, Quiescent
               PROVE  Accepted
    BY DEF AttendedInv, LeftoversAccepted
  <2>1. lockFile # "torn" /\ LeftoversOwned /\ (out # NoDir => out.marker # "torn")
    BY DEF Attended, LockAttended, StageAttended, BackupAttended, OutAttended,
           LeftoversOwned, Quiescent
  <2>2. Marked(out) \/ (backup # NoDir /\ out # NoDir) => out # NoDir /\ Whole(out)
    BY DEF BundleInv, Shape, Marked, Empty
  <2> QED  BY <2>1, <2>2 DEF Accepted, AcceptsOut
<1> QED
  BY <1>1, BundleInvInit, BundleInvNext, AttendedInit, AttendedNext, PTL DEF Spec
=============================================================================
