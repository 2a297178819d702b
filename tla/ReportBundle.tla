----------------------------- MODULE ReportBundle -----------------------------
(***************************************************************************)
(* A report directory, published by renaming a staged one into its place   *)
(* and re-rendered by swapping it through a backup.  `analyze` publishes   *)
(* into an absent or empty directory, `report` may also replace what it    *)
(* would write anyway.  A writer repairs what an interrupted one left.     *)
(*                                                                         *)
(* One action is one change of the file system, with the checks that lead  *)
(* to it, so that an exception or a SIGKILL can fall between any two.  The *)
(* lock file stays where it is once made; flock on it dies with its holder.*)
(***************************************************************************)
EXTENDS Integers

CONSTANTS
  Writers,       \* processes of reasoning-payoff analyze and report
  Reports,       \* pinned reports, each with its own artifacts
  NumArtifacts,  \* files of a bundle
  Foreign,       \* content that no report renders to
  None, NoDir    \* no content, no holder; no directory

ASSUME BundleAssumption ==
  /\ NumArtifacts \in Nat \ {0}
  /\ {Foreign, None} \cap Reports = {} /\ Foreign # None
  /\ None \notin Writers

\* marker: the recovery marker, torn without its bytes.  files: how many of the
\* artifacts' names exist.  of: what they were rendered from.
Dirs == [marker : {"none", "torn", "owned"}, files : 0..NumArtifacts,
         of : Reports \cup {Foreign, None}]

ASSUME NoDirAssumption == NoDir \notin Dirs

VARIABLES
  out, stage, backup,  \* the three directories
  lockFile,            \* "absent"; "torn" before its marker is written; "owned"
  holder,              \* the writer that has flock
  pc, job, created, result, \* per writer: step; [existing, of]; it made the lock file; outcome
  torn                 \* history: an interruption fell inside a two-call window

dirs == <<out, stage, backup>>
vars == <<dirs, lockFile, holder, pc, job, created, result, torn>>

Jobs == [existing : BOOLEAN, of : Reports]
Whole(d) == d.files = NumArtifacts
Marked(d) == d # NoDir /\ d.marker # "none"
Empty == [marker |-> "none", files |-> 0, of |-> None]
Holds(d) == d # NoDir /\ d.files > 0

Locking == {"open", "mark", "check", "flock"}
Inside == {"admit", "recover", "clearStage", "clearBackup", "markStage", "write",
           "publish", "markOut", "retire", "swap", "rollback", "unmark",
           "dropBackup", "cleanup", "unlock"}

\* Whatever stands at the path before the first writer: nothing, an empty
\* directory, or files of the user's, be they a copy of a bundle.
Init ==
  /\ out \in {NoDir, Empty} \cup
       [marker : {"none"}, files : {NumArtifacts}, of : Reports \cup {Foreign}]
  /\ stage = NoDir /\ backup = NoDir
  /\ lockFile = "absent" /\ holder = None
  /\ pc = [p \in Writers |-> "idle"]
  /\ job \in [Writers -> Jobs]
  /\ created = [p \in Writers |-> FALSE]
  /\ result = [p \in Writers |-> "none"]
  /\ torn = FALSE

GoTo(p, step) == pc' = [pc EXCEPT ![p] = step]

\* An exception inside the lock, on its way to step.
Raise(p, step) == GoTo(p, step) /\ result' = [result EXCEPT ![p] = "raised"]

Start(p) ==
  /\ pc[p] = "idle"
  /\ \E j \in Jobs : job' = [job EXCEPT ![p] = j]
  /\ created' = [created EXCEPT ![p] = FALSE]
  /\ result' = [result EXCEPT ![p] = "none"]
  /\ GoTo(p, "open")
  /\ UNCHANGED <<dirs, lockFile, holder, torn>>

----------------------------------------------------------------------------
(* The lock.                                                                 *)

Open(p) ==
  /\ pc[p] = "open"
  /\ lockFile' = IF lockFile = "absent" THEN "torn" ELSE lockFile
  /\ created' = [created EXCEPT ![p] = lockFile = "absent"]
  /\ GoTo(p, IF lockFile = "absent" THEN "mark" ELSE "check")
  /\ UNCHANGED <<dirs, holder, job, result, torn>>

MarkLock(p) ==
  /\ pc[p] = "mark"
  /\ lockFile' = "owned"
  /\ GoTo(p, "flock")
  /\ UNCHANGED <<dirs, holder, job, created, result, torn>>

CheckLock(p) ==
  /\ pc[p] = "check"
  /\ GoTo(p, IF lockFile = "owned" THEN "flock" ELSE "idle")
  /\ UNCHANGED <<dirs, lockFile, holder, job, created, result, torn>>

Flock(p) ==
  /\ pc[p] = "flock"
  /\ IF holder = None THEN holder' = p /\ GoTo(p, "admit")
                      ELSE GoTo(p, "idle") /\ UNCHANGED holder
  /\ UNCHANGED <<dirs, lockFile, job, created, result, torn>>

\* Files under a path that never had a lock file are not a bundle of ours.
Admit(p) ==
  /\ pc[p] = "admit"
  /\ IF job[p].existing /\ Holds(out) /\ created[p]
       THEN Raise(p, "unlock")
       ELSE GoTo(p, "recover") /\ UNCHANGED result
  /\ UNCHANGED <<dirs, lockFile, holder, job, created, torn>>

Unlock(p) ==
  /\ pc[p] = "unlock"
  /\ holder' = None
  /\ GoTo(p, "idle")
  /\ UNCHANGED <<dirs, lockFile, job, created, result, torn>>

----------------------------------------------------------------------------
(* Recovery of what an interrupted writer left.                              *)

OwnedStage == stage.marker = "owned"
OwnedBackup == backup.marker = "owned" /\ Whole(backup)
AcceptsOut == Whole(out) /\ out.marker # "torn"

\* What the writer of job j meets is refused before anything is staged.
Refuses(j) ==
  \/ stage # NoDir /\ ~OwnedStage
  \/ stage = NoDir /\ backup # NoDir /\ (~OwnedBackup \/ (out # NoDir /\ ~AcceptsOut))
  \/ stage = NoDir /\ backup = NoDir /\ Marked(out) /\ ~AcceptsOut
  \/ stage = NoDir /\ backup = NoDir /\ Holds(out) /\ ~Marked(out) /\ ~j.existing

Refuse(p) ==
  /\ pc[p] = "recover"
  /\ Refuses(job[p])
  /\ Raise(p, "unlock")
  /\ UNCHANGED <<dirs, lockFile, holder, job, created, torn>>

Recovers(p) == pc[p] = "recover" /\ ~Refuses(job[p])

DropStage(p) ==
  /\ Recovers(p) /\ stage # NoDir
  /\ GoTo(p, "clearStage")
  /\ UNCHANGED <<dirs, lockFile, holder, job, created, result, torn>>

RestoreBackup(p) ==
  /\ Recovers(p) /\ stage = NoDir /\ backup # NoDir /\ out = NoDir
  /\ out' = backup /\ backup' = NoDir
  /\ UNCHANGED <<stage, lockFile, holder, pc, job, created, result, torn>>

UnmarkOut(p) ==
  /\ Recovers(p) /\ stage = NoDir /\ Marked(out)
  /\ out' = [out EXCEPT !.marker = "none"]
  /\ UNCHANGED <<stage, backup, lockFile, holder, pc, job, created, result, torn>>

DropBackup(p) ==
  /\ Recovers(p) /\ stage = NoDir /\ backup # NoDir /\ out # NoDir /\ ~Marked(out)
  /\ GoTo(p, "clearBackup")
  /\ UNCHANGED <<dirs, lockFile, holder, job, created, result, torn>>

\* rmtree deletes the entries of a directory in any order.
Shrinks(d, e) ==
  \/ d.marker # "none" /\ e = [d EXCEPT !.marker = "none"]
  \/ d.files > 0 /\ e = [d EXCEPT !.files = @ - 1]
  \/ d.marker = "none" /\ d.files = 0 /\ e = NoDir

\* rmtree(stage), in recovery or in the finally clause.
ClearStage(p) ==
  /\ pc[p] \in {"clearStage", "cleanup"} /\ stage # NoDir
  /\ Shrinks(stage, stage')
  /\ UNCHANGED <<out, backup, lockFile, holder, pc, job, created, result, torn>>

ClearBackup(p) ==
  /\ pc[p] \in {"clearBackup", "dropBackup"} /\ backup # NoDir
  /\ Shrinks(backup, backup')
  /\ UNCHANGED <<out, stage, lockFile, holder, pc, job, created, result, torn>>

Cleared(p) ==
  /\ \/ pc[p] = "clearStage" /\ stage = NoDir /\ GoTo(p, "recover")
     \/ pc[p] = "clearBackup" /\ backup = NoDir /\ GoTo(p, "recover")
     \/ pc[p] = "dropBackup" /\ backup = NoDir /\ GoTo(p, "cleanup")
     \/ pc[p] = "cleanup" /\ stage = NoDir /\ GoTo(p, "unlock")
  /\ UNCHANGED <<dirs, lockFile, holder, job, created, result, torn>>

----------------------------------------------------------------------------
(* Publication.                                                              *)

MakeStage(p) ==
  /\ Recovers(p) /\ stage = NoDir /\ backup = NoDir /\ ~Marked(out)
  /\ stage' = [Empty EXCEPT !.of = job[p].of]
  /\ GoTo(p, "markStage")
  /\ UNCHANGED <<out, backup, lockFile, holder, job, created, result, torn>>

MarkStage(p) ==
  /\ pc[p] = "markStage"
  /\ stage' = [stage EXCEPT !.marker = IF @ = "none" THEN "torn" ELSE "owned"]
  /\ GoTo(p, IF stage.marker = "none" THEN "markStage" ELSE "write")
  /\ UNCHANGED <<out, backup, lockFile, holder, job, created, result, torn>>

\* A file that is opened has its name; whether its bytes are there is asked of
\* no staging directory.
WriteArtifact(p) ==
  /\ pc[p] = "write"
  /\ IF Whole(stage) THEN GoTo(p, "publish") /\ UNCHANGED stage
                     ELSE stage' = [stage EXCEPT !.files = @ + 1] /\ UNCHANGED pc
  /\ UNCHANGED <<out, backup, lockFile, holder, job, created, result, torn>>

\* rmdir of an empty directory, then the rename.
RemoveEmpty(p) ==
  /\ pc[p] = "publish" /\ out = Empty
  /\ out' = NoDir
  /\ UNCHANGED <<stage, backup, lockFile, holder, pc, job, created, result, torn>>

Publish(p) ==
  /\ pc[p] = "publish" /\ out = NoDir
  /\ out' = stage /\ stage' = NoDir
  /\ GoTo(p, "unmark")
  /\ UNCHANGED <<backup, lockFile, holder, job, created, result, torn>>

\* Deviation: the content of the bundle is not compared with the report.
MatchesAnything(p) == Whole(out) /\ ~Marked(out)

\* _require_complete_bundle and _require_bundle_matches_artifacts.
Matches(p) == Whole(out) /\ ~Marked(out) /\ out.of = job[p].of

Mismatch(p) ==
  /\ pc[p] = "publish" /\ Holds(out) /\ ~Matches(p)
  /\ Raise(p, "cleanup")
  /\ UNCHANGED <<dirs, lockFile, holder, job, created, torn>>

\* Deviation: the bundle is moved to the backup without a marker.
StartSwapUnmarked(p) ==
  /\ pc[p] = "publish" /\ Holds(out) /\ Matches(p)
  /\ GoTo(p, "retire")
  /\ UNCHANGED <<dirs, lockFile, holder, job, created, result, torn>>

StartSwap(p) ==
  /\ pc[p] = "publish" /\ Holds(out) /\ Matches(p)
  /\ out' = [out EXCEPT !.marker = "torn"]
  /\ GoTo(p, "markOut")
  /\ UNCHANGED <<stage, backup, lockFile, holder, job, created, result, torn>>

MarkOut(p) ==
  /\ pc[p] = "markOut"
  /\ out' = [out EXCEPT !.marker = "owned"]
  /\ GoTo(p, "retire")
  /\ UNCHANGED <<stage, backup, lockFile, holder, job, created, result, torn>>

Retire(p) ==
  /\ pc[p] = "retire"
  /\ backup' = out /\ out' = NoDir
  /\ GoTo(p, "swap")
  /\ UNCHANGED <<stage, lockFile, holder, job, created, result, torn>>

Swap(p) ==
  /\ pc[p] = "swap"
  /\ out' = stage /\ stage' = NoDir
  /\ GoTo(p, "unmark")
  /\ UNCHANGED <<backup, lockFile, holder, job, created, result, torn>>

\* The swap raised: the bundle goes back to its place.
Rollback(p) ==
  /\ pc[p] = "rollback"
  /\ out' = backup /\ backup' = NoDir
  /\ GoTo(p, "unmark")
  /\ UNCHANGED <<stage, lockFile, holder, job, created, result, torn>>

\* Deviation: success is reported with the marker still in the bundle.
UnmarkNothing(p) ==
  /\ pc[p] = "unmark"
  /\ result' = [result EXCEPT ![p] = IF @ = "none" THEN "ok" ELSE @]
  /\ GoTo(p, IF backup # NoDir THEN "dropBackup" ELSE "cleanup")
  /\ UNCHANGED <<dirs, lockFile, holder, job, created, torn>>

\* The backup exists only after a swap.  What raises later takes "ok" back.
Unmark(p) ==
  /\ pc[p] = "unmark"
  /\ out' = [out EXCEPT !.marker = "none"]
  /\ result' = [result EXCEPT ![p] = IF @ = "none" THEN "ok" ELSE @]
  /\ GoTo(p, IF backup # NoDir THEN "dropBackup" ELSE "cleanup")
  /\ UNCHANGED <<stage, backup, lockFile, holder, job, created, torn>>

----------------------------------------------------------------------------
(* Interruptions and the user.                                               *)

\* Between the two calls that make a marker, or inside rmtree.
Midway(p) ==
  \/ pc[p] \in {"mark", "markStage", "markOut"}
  \/ pc[p] \in {"clearStage", "cleanup"} /\ stage # NoDir /\ stage.marker # "owned"
  \/ pc[p] \in {"clearBackup", "dropBackup"} /\ backup # NoDir /\ ~OwnedBackup

\* Where an exception of step goes: through the rollback, the finally clause,
\* or straight out.
Handler(step) ==
  CASE step = "swap" -> "rollback"
    [] step \in {"write", "publish", "markOut", "retire", "rollback", "unmark", "dropBackup"} -> "cleanup"
    [] OTHER -> "unlock"

\* A call on the file system raises.
Fail(p) ==
  /\ pc[p] \in Inside \ {"admit", "unlock"}
  /\ Raise(p, Handler(pc[p]))
  /\ torn' = (torn \/ Midway(p))
  /\ UNCHANGED <<dirs, lockFile, holder, job, created>>

Crash(p) ==
  /\ pc[p] # "idle"
  /\ GoTo(p, "idle")
  /\ holder' = IF holder = p THEN None ELSE holder
  /\ torn' = (torn \/ Midway(p))
  /\ UNCHANGED <<dirs, lockFile, job, created, result>>

\* The user changes a file of the published bundle while nobody writes it.
EditBundle ==
  /\ holder = None
  /\ out # NoDir /\ Whole(out) /\ out.of \in Reports
  /\ out' = [out EXCEPT !.of = Foreign]
  /\ UNCHANGED <<stage, backup, lockFile, holder, pc, job, created, result, torn>>

WriterStep(p) ==
  \/ Open(p) \/ MarkLock(p) \/ CheckLock(p) \/ Flock(p) \/ Admit(p) \/ Unlock(p)
  \/ Refuse(p) \/ DropStage(p) \/ RestoreBackup(p) \/ UnmarkOut(p) \/ DropBackup(p)
  \/ ClearStage(p) \/ ClearBackup(p) \/ Cleared(p)
  \/ MakeStage(p) \/ MarkStage(p) \/ WriteArtifact(p)
  \/ RemoveEmpty(p) \/ Publish(p) \/ Mismatch(p)
  \/ StartSwap(p) \/ MarkOut(p) \/ Retire(p) \/ Swap(p) \/ Rollback(p) \/ Unmark(p)

Next ==
  \/ \E p \in Writers : Start(p) \/ WriterStep(p) \/ Fail(p) \/ Crash(p)
  \/ EditBundle

Spec == Init /\ [][Next]_vars

----------------------------------------------------------------------------

TypeOK ==
  /\ {out, stage, backup} \subseteq Dirs \cup {NoDir}
  /\ lockFile \in {"absent", "torn", "owned"}
  /\ holder \in Writers \cup {None}
  /\ pc \in [Writers -> {"idle"} \cup Locking \cup Inside]
  /\ job \in [Writers -> Jobs]
  /\ created \in [Writers -> BOOLEAN]
  /\ result \in [Writers -> {"none", "ok", "raised"}]
  /\ torn \in BOOLEAN

(* Through failures, crashes and concurrent writers, a directory with files *)
(* is either whole at its path or whole in the backup that the next writer  *)
(* restores, and nothing but its owner ever changes what it says.           *)
Content(d) == IF Whole(d) THEN d.of ELSE NoDir
Shown == IF Holds(out) THEN Content(out)
         ELSE IF backup # NoDir THEN Content(backup) ELSE None

Bundle == INSTANCE PublishedBundle WITH bundle <- Shown
KeepsBundle == Bundle!Spec

\* What the next writer accepts of the directories and of the lock.
LeftoversOwned == /\ stage # NoDir => OwnedStage
                  /\ backup # NoDir => OwnedBackup
Accepted ==
  /\ lockFile # "torn" /\ LeftoversOwned
  /\ Marked(out) \/ (backup # NoDir /\ out # NoDir) => AcceptsOut

Quiescent == \A p \in Writers : pc[p] = "idle"

(* What interrupted writers leave, the next one accepts: everything but a   *)
(* marker cut off before its bytes, or a directory cut off in its deletion. *)
LeftoversAccepted == Quiescent /\ ~torn => Accepted

(* What section 10 of docs/19 says of any interruption: the next invocation *)
(* recovers an abandoned backup or staging directory.                       *)
NextInvocationRecovers == Quiescent => LeftoversOwned

(* A writer that reports success leaves its report at the path, without     *)
(* marker, staging or backup.                                               *)
SuccessIsClean ==
  \A p \in Writers : pc[p] = "unlock" /\ result[p] = "ok" =>
    /\ out = [marker |-> "none", files |-> NumArtifacts, of |-> job[p].of]
    /\ stage = NoDir /\ backup = NoDir
==============================================================================
