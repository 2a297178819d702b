------------------------ MODULE WorkspaceLock_proofs ------------------------
(***************************************************************************)
(* Any number of runs and of doctors on any number of hosts, crashing at   *)
(* any point, on a file system that gives a new lock the inode number of a *)
(* deleted one whenever it likes: the workspace lock excludes as long as   *)
(* no doctor is overtaken between its looks at the file and its unlink.    *)
(***************************************************************************)
EXTENDS WorkspaceLock, TLAPS

LEMMA TypeStep == TypeOK /\ [Next]_vars => TypeOK'
<1> SUFFICES ASSUME TypeOK, [Next]_vars PROVE TypeOK'
  OBVIOUS
<1> USE LockAssumption DEF TypeOK, Processes, Places, Owning, InLock, Repairing, GoTo, history
<1>1. ASSUME NEW p \in Processes, Start(p) PROVE TypeOK'
  BY <1>1 DEF Start
<1>2. ASSUME NEW p \in Processes, Create(p) PROVE TypeOK'
  <2>1. PICK i \in Fresh : /\ lock' = i
                           /\ content' = [content EXCEPT ![i] = Empty]
                           /\ mine' = [mine EXCEPT ![p] = i]
    BY <1>2 DEF Create
  <2>2. i \in Inodes /\ i # NoFile
    BY <2>1 DEF Fresh, NoFile
  <2> QED BY <1>2, <2>1, <2>2 DEF Create
<1>3. ASSUME NEW p \in Processes, Refused(p) PROVE TypeOK'
  BY <1>3 DEF Refused, Leave, Forget
<1>4. ASSUME NEW p \in Processes, WriteMetadata(p) PROVE TypeOK'
  BY <1>4 DEF WriteMetadata
<1>5. ASSUME NEW p \in Processes, Close(p) PROVE TypeOK'
  BY <1>5 DEF Close
<1>6. ASSUME NEW p \in Processes, CheckOwn(p) PROVE TypeOK'
  BY <1>6 DEF CheckOwn, Leave, Forget
<1>7. ASSUME NEW p \in Processes, RemoveOwn(p) PROVE TypeOK'
  BY <1>7 DEF RemoveOwn, Unlink, Forget
<1>8. ASSUME NEW p \in Processes, Crash(p) PROVE TypeOK'
  BY <1>8 DEF Crash, Leave, Forget
<1>9. ASSUME NEW d \in Doctors, Look(d) PROVE TypeOK'
  BY <1>9 DEF Look
<1>10. ASSUME NEW d \in Doctors, Read(d) PROVE TypeOK'
  <2>1. CASE Leave(d)
    BY <1>10, <2>1 DEF Leave, Forget
  <2>2. CASE /\ lock = seen[d] /\ pc[d] = "read"
             /\ owner' = [owner EXCEPT ![d] = content[lock]]
             /\ content[lock] # Empty
             /\ pc' = [pc EXCEPT ![d] = "probe"]
             /\ readers' = readers \cup {d}
             /\ UNCHANGED <<lock, content, mine, seen, checkers, overtaken>>
    <3>1. lock \in Inodes /\ content[lock] \in Processes
      BY <2>2
    <3> QED BY <2>2, <3>1
  <2> QED BY <1>10, <2>1, <2>2 DEF Read
<1>11. ASSUME NEW d \in Doctors, Probe(d) PROVE TypeOK'
  BY <1>11 DEF Probe, Leave, Forget
<1>12. ASSUME NEW d \in Doctors, Check(d) PROVE TypeOK'
  BY <1>12 DEF Check, Leave, Forget
<1>13. ASSUME NEW d \in Doctors, RemoveStale(d) PROVE TypeOK'
  BY <1>13 DEF RemoveStale, Overtakes, Unlink, Forget
<1>14. CASE UNCHANGED vars
  BY <1>14 DEF vars
<1> QED
  BY <1>1, <1>2, <1>3, <1>4, <1>5, <1>6, <1>7, <1>8, <1>9, <1>10, <1>11,
     <1>12, <1>13, <1>14 DEF Next

----------------------------------------------------------------------------
\* Type correctness of the lock protocol: a process knows the inode of its
\* lock exactly while it is responsible for the file, and a doctor past its
\* first look has an inode to compare with.
THEOREM TypeCorrect == Spec => []TypeOK
<1>1. Init => TypeOK
  BY LockAssumption DEF Init, TypeOK, Processes, Places, Owning, InLock, Repairing, NoFile
<1> QED BY <1>1, TypeStep, PTL DEF Spec

----------------------------------------------------------------------------
(* The inductive invariant.                                                  *)

\* A process responsible for a lock finds its own file at the lock path.
OwnerInv ==
  \A p \in Processes :
    /\ pc[p] \in Owning => lock = mine[p] /\ content[lock] \in {Empty, p}
    /\ pc[p] = "created" => content[lock] = Empty

\* At most one process is responsible for a lock.
SoleInv ==
  \A p, q \in Processes : pc[p] \in Owning /\ pc[q] \in Owning => p = q

\* What a doctor has read is still true of the file at the lock path, and once
\* the owner is proven dead nobody is responsible for that file any more.
ReaderInv ==
  \A d \in readers :
    /\ pc[d] \in {"probe", "check", "unlink"}
    /\ lock = seen[d]
    /\ owner[d] \in Processes /\ content[lock] = owner[d]
    /\ pc[d] # "probe" => \A p \in Processes : pc[p] \notin Owning

\* What a doctor has checked is still at the lock path.
CheckerInv == \A d \in checkers : pc[d] = "unlink" /\ lock = seen[d]

Kept == OwnerInv /\ SoleInv /\ ReaderInv /\ CheckerInv

\* Only doctors repair, and the rest holds until one of them is overtaken.
LockInv ==
  /\ TypeOK
  /\ \A p \in Processes : pc[p] \in Repairing => p \in Doctors
  /\ ~overtaken => Kept

LEMMA LockInit == Init => LockInv
BY LockAssumption
   DEF Init, LockInv, Kept, TypeOK, OwnerInv, SoleInv, ReaderInv, CheckerInv,
       Processes, Places, Owning, InLock, Repairing, NoFile

\* The process that leaves keeps the others' part of the invariant as it was.
LEMMA LeaveStep ==
  ASSUME TypeOK, Kept, NEW p \in Processes, Leave(p)
  PROVE  Kept'
BY DEF Kept, TypeOK, OwnerInv, SoleInv, ReaderInv, CheckerInv, Leave, Forget, GoTo,
       Owning, InLock, NoFile, Processes

\* Only doctors begin a repair, and only its own doctor carries it on.
LEMMA RepairersStep ==
  LockInv /\ [Next]_vars
    => (\A p \in Processes : pc[p] \in Repairing => p \in Doctors)'
BY DEF LockInv, TypeOK, Next, vars, Start, Create, Refused, WriteMetadata, Close,
       CheckOwn, RemoveOwn, Crash, Look, Read, Probe, Check, RemoveStale, Leave,
       Forget, GoTo, Repairing, Processes

\* A history once overtaken stays so.
LEMMA OvertakenStays == TypeOK /\ [Next]_vars /\ overtaken => overtaken'
BY DEF TypeOK, Next, vars, history, Start, Create, Refused, WriteMetadata, Close,
       CheckOwn, RemoveOwn, Crash, Look, Read, Probe, Check, RemoveStale, Leave

\* A doctor that is not overtaken unlinks a file nobody is responsible for.
LEMMA StaleIsAbandoned ==
  ASSUME TypeOK, Kept, NEW d \in Doctors, pc[d] = "unlink", ~Overtakes(d)
  PROVE  \A p \in Processes : pc[p] \notin Owning
<1>1. CASE lock = NoFile
  BY <1>1 DEF Kept, OwnerInv, TypeOK
<1>2. CASE lock # NoFile
  <2>1. d \in checkers /\ lock = seen[d]
    BY <1>2 DEF Overtakes, Kept, CheckerInv
  <2>2. d \in readers
    BY <1>2, <2>1 DEF Overtakes
  <2> QED  BY <2>2 DEF Kept, ReaderInv
<1> QED  BY <1>1, <1>2

LEMMA KeptStep ==
  ASSUME LockInv, [Next]_vars, ~overtaken'
  PROVE  Kept'
<1> USE LockAssumption
<1>a. TypeOK /\ Kept /\ ~overtaken
  BY OvertakenStays DEF LockInv
<1> USE DEF Kept, OwnerInv, SoleInv, ReaderInv, CheckerInv, Owning, InLock, GoTo, history
<1>1. ASSUME NEW p \in Processes, Start(p) PROVE Kept'
  BY <1>a, <1>1 DEF Start, TypeOK
<1>2. ASSUME NEW p \in Processes, Create(p) PROVE Kept'
  <2>1. PICK i \in Inodes :
          /\ lock' = i
          /\ content' = [content EXCEPT ![i] = Empty]
          /\ mine' = [mine EXCEPT ![p] = i]
    BY <1>2 DEF Create, Fresh
  <2>2. /\ lock = NoFile
        /\ pc[p] = "acquire"
        /\ pc' = [pc EXCEPT ![p] = "created"]
        /\ UNCHANGED <<seen, owner, readers, checkers>>
    BY <1>2 DEF Create
  <2>3. \A q \in Processes : pc[q] \notin Owning
    BY <1>a, <2>2 DEF TypeOK
  <2>4. readers = {} /\ checkers = {}
    BY <1>a, <2>2 DEF TypeOK, Repairing, Processes
  <2>5. OwnerInv' /\ SoleInv'
    BY <1>a, <2>1, <2>2, <2>3 DEF TypeOK
  <2> QED BY <2>2, <2>4, <2>5
<1>3. ASSUME NEW p \in Processes, Leave(p) PROVE Kept'
  BY <1>a, <1>3, LeaveStep
<1>4. ASSUME NEW p \in Processes, WriteMetadata(p) PROVE Kept'
  <2>1. /\ pc[p] = "created" /\ lock = mine[p] /\ content[lock] = Empty
        /\ lock \in Inodes
        /\ content' = [content EXCEPT ![lock] = p]
        /\ pc' = [pc EXCEPT ![p] = "critical"]
        /\ UNCHANGED <<lock, mine, seen, owner, readers, checkers>>
    BY <1>a, <1>4 DEF WriteMetadata, TypeOK
  <2>2. OwnerInv' /\ SoleInv'
    BY <1>a, <2>1 DEF TypeOK
  <2>3. readers = {}
    BY <1>a, <2>1
  <2>4. CheckerInv'
    BY <1>a, <2>1 DEF TypeOK, Processes
  <2> QED BY <2>1, <2>2, <2>3, <2>4
<1>5. ASSUME NEW p \in Processes, Close(p) PROVE Kept'
  BY <1>a, <1>5 DEF Close, TypeOK, Processes
<1>6. ASSUME NEW p \in Processes, CheckOwn(p), ~Leave(p) PROVE Kept'
  BY <1>a, <1>6 DEF CheckOwn, TypeOK, Processes
<1>7. ASSUME NEW p \in Processes, RemoveOwn(p) PROVE Kept'
  <2>1. \A q \in Processes : q # p => pc[q] \notin Owning
    BY <1>a, <1>7 DEF RemoveOwn
  <2> QED BY <1>a, <1>7, <2>1 DEF RemoveOwn, Unlink, Forget, TypeOK
<1>8. ASSUME NEW d \in Doctors, Look(d) PROVE Kept'
  BY <1>a, <1>8 DEF Look, TypeOK, Processes
<1>9. ASSUME NEW d \in Doctors, Read(d), ~Leave(d) PROVE Kept'
  <2>1. /\ pc[d] = "read" /\ lock = seen[d] /\ content[lock] # Empty
        /\ owner' = [owner EXCEPT ![d] = content[lock]]
        /\ readers' = readers \cup {d}
        /\ pc' = [pc EXCEPT ![d] = "probe"]
        /\ UNCHANGED <<lock, content, mine, seen, checkers>>
    BY <1>9 DEF Read
  <2>2. d \in Processes /\ content[lock] \in Processes
    BY <1>a, <2>1 DEF TypeOK, Repairing, Processes
  <2>3. OwnerInv' /\ SoleInv' /\ CheckerInv'
    BY <1>a, <2>1, <2>2 DEF TypeOK
  <2>4. ReaderInv'
    BY <1>a, <2>1, <2>2, <2>3 DEF TypeOK, Processes
  <2> QED BY <2>3, <2>4
<1>10. ASSUME NEW d \in Doctors, Probe(d), ~Leave(d) PROVE Kept'
  <2>1. /\ pc[d] = "probe" /\ pc[owner[d]] = "off"
        /\ pc' = [pc EXCEPT ![d] = "check"]
        /\ UNCHANGED <<lock, content, mine, seen, owner, readers, checkers>>
    BY <1>10 DEF Probe, ProvenDead
  <2>2. d \in Processes
    BY DEF Processes
  <2>3. OwnerInv' /\ SoleInv' /\ CheckerInv'
    BY <1>a, <2>1, <2>2 DEF TypeOK
  <2>4. d \in readers => \A p \in Processes : pc[p] \notin Owning
    BY <1>a, <2>1, <2>2
  <2>5. ReaderInv'
    BY <1>a, <2>1, <2>2, <2>4 DEF TypeOK, Processes
  <2> QED BY <2>3, <2>5
<1>11. ASSUME NEW d \in Doctors, Check(d), ~Leave(d) PROVE Kept'
  BY <1>a, <1>11 DEF Check, TypeOK, Processes
<1>12. ASSUME NEW d \in Doctors, RemoveStale(d) PROVE Kept'
  <2>1. d \in Processes /\ pc[d] = "unlink" /\ ~Overtakes(d)
        /\ lock' = NoFile /\ readers' = {} /\ checkers' = {}
    BY <1>12 DEF RemoveStale, Unlink, Processes
  <2>2. \A p \in Processes : pc[p] \notin Owning
    BY <1>a, <2>1, StaleIsAbandoned
  <2>3. \A p \in Processes : pc'[p] \notin Owning
    BY <1>a, <1>12, <2>1, <2>2 DEF RemoveStale, Forget, TypeOK
  <2> QED BY <2>1, <2>3
<1>13. CASE UNCHANGED vars
  BY <1>a, <1>13 DEF vars
<1>14. \A p \in Processes : Refused(p) \/ Crash(p) => Leave(p)
  BY DEF Refused, Crash
<1> QED
  BY <1>1, <1>2, <1>3, <1>4, <1>5, <1>6, <1>7, <1>8, <1>9, <1>10, <1>11,
     <1>12, <1>13, <1>14 DEF Next, Processes

LEMMA LockStep == LockInv /\ [Next]_vars => LockInv'
<1> SUFFICES ASSUME LockInv, [Next]_vars PROVE LockInv'
  OBVIOUS
<1>1. TypeOK'
  BY TypeStep DEF LockInv
<1>2. (\A p \in Processes : pc[p] \in Repairing => p \in Doctors)'
  BY RepairersStep
<1>3. ~overtaken' => Kept'
  BY KeptStep
<1> QED  BY <1>1, <1>2, <1>3 DEF LockInv

\* The lock excludes: no two operations are inside the workspace together until
\* a doctor unlinks a file that was replaced behind its back.
THEOREM LockExcludes == Spec => []MutualExclusion
<1>1. LockInv => MutualExclusion
  BY DEF LockInv, Kept, SoleInv, MutualExclusion, Owning
<1> QED BY <1>1, LockInit, LockStep, PTL DEF Spec

\* The lock of a live operation is removed in no other way than by a doctor that
\* unlinks a file that was replaced behind its back.
THEOREM LiveLockIsKept == Spec => []LiveLockKeptUnlessOvertaken
<1>1. LockInv => LiveLockKeptUnlessOvertaken
  BY DEF LockInv, Kept, OwnerInv, LiveLockKept, LiveLockKeptUnlessOvertaken, Owning
<1> QED BY <1>1, LockInit, LockStep, PTL DEF Spec

\* A lock abandoned before its metadata was written stays, unless a doctor on
\* its way to another lock unlinks it unread.
THEOREM EmptyLockStays == Spec => EmptyLockFailsClosed
<1> DEFINE Abandoned == /\ lock # NoFile
                        /\ content[lock] = Empty
                        /\ \A p \in Processes : mine[p] # lock
<1>1. ASSUME LockInv, [Next]_vars, Abandoned, ~overtaken' PROVE lock' = lock
  <2>a. TypeOK /\ Kept
    BY <1>1, OvertakenStays DEF LockInv
  <2>1. ASSUME NEW p \in Processes, RemoveOwn(p) PROVE lock' = lock
    BY <1>1, <2>a, <2>1 DEF RemoveOwn, Kept, OwnerInv, Owning
  <2>2. ASSUME NEW d \in Doctors, RemoveStale(d) PROVE lock' = lock
    <3>1. d \in checkers /\ (lock = seen[d] => d \in readers)
      BY <1>1, <2>2 DEF RemoveStale, Overtakes
    <3>2. owner[d] \in Processes /\ content[lock] = owner[d]
      BY <2>a, <3>1 DEF Kept, ReaderInv, CheckerInv
    <3> QED BY <1>1, <3>2, LockAssumption
  <2>3. ASSUME NEW p \in Processes, Create(p) PROVE lock' = lock
    BY <1>1, <2>3 DEF Create
  <2> QED
    BY <1>1, <2>1, <2>2, <2>3
       DEF Next, vars, Start, Refused, WriteMetadata, Close, CheckOwn, Crash,
           Look, Read, Probe, Check, Leave
<1>2. LockInv /\ [Next]_vars => [Abandoned => lock' = lock \/ overtaken']_vars
  BY <1>1
<1> QED BY <1>2, LockInit, LockStep, PTL DEF Spec, EmptyLockFailsClosed

----------------------------------------------------------------------------
(* The lock file implements the lock that operations rely on.                *)

\* A process outside the lock goes from one place outside to another.
LEMMA OutsideUnseen ==
  ASSUME TypeOK, NEW p \in Processes, NEW place, place \notin Owning,
         pc[p] \notin Owning, GoTo(p, place), UNCHANGED lock
  PROVE  UNCHANGED Exclusive!lockVars
BY DEF TypeOK, GoTo, Owning, InLock, Exclusive!lockVars

\* The death of a process abandons its lock, or is not seen at all.
LEMMA DeathAbandons ==
  ASSUME TypeOK, NEW p \in Processes, Leave(p)
  PROVE  [Exclusive!Next]_(Exclusive!lockVars)
<1>1. CASE pc[p] \in Owning
  <2>1. Exclusive!Die(p)
    BY <1>1 DEF TypeOK, Leave, Forget, GoTo, Owning, InLock, Exclusive!Die
  <2> QED  BY <2>1 DEF Exclusive!Next
<1>2. CASE pc[p] \notin Owning
  BY <1>2, OutsideUnseen DEF Leave, Forget, Owning, InLock
<1> QED  BY <1>1, <1>2

LEMMA LockStepMaps ==
  ASSUME LockInv, [Next]_vars, ~overtaken'
  PROVE  [Exclusive!Next]_(Exclusive!lockVars)
<1> USE LockAssumption
<1>t. TypeOK /\ Kept /\ ~overtaken
  BY OvertakenStays DEF LockInv
<1>1. ASSUME NEW p \in Processes, Start(p)
      PROVE  UNCHANGED Exclusive!lockVars
  BY <1>t, <1>1, OutsideUnseen DEF Start, Owning, InLock
<1>2. ASSUME NEW p \in Processes, Create(p)
      PROVE  Exclusive!Take(p)
  <2>1. lock = NoFile /\ lock' # NoFile
    BY <1>2 DEF Create, Fresh
  <2>2. \A q \in Processes : pc[q] \notin Owning
    BY <1>t, <2>1 DEF Kept, OwnerInv, TypeOK
  <2> QED  BY <1>t, <1>2, <2>1, <2>2 DEF Create, GoTo, TypeOK, Owning, InLock, Exclusive!Take
<1>3. ASSUME NEW p \in Processes, Refused(p) \/ Crash(p)
      PROVE  [Exclusive!Next]_(Exclusive!lockVars)
  BY <1>t, <1>3, DeathAbandons DEF Refused, Crash
<1>4. ASSUME NEW p \in Processes, WriteMetadata(p)
      PROVE  UNCHANGED Exclusive!lockVars
  BY <1>t, <1>4 DEF WriteMetadata, GoTo, TypeOK, Owning, InLock, Exclusive!lockVars
<1>5. ASSUME NEW p \in Processes, Close(p)
      PROVE  Exclusive!Finish(p)
  BY <1>t, <1>5 DEF Close, GoTo, TypeOK, Owning, InLock, Exclusive!Finish
<1>6. ASSUME NEW p \in Processes, CheckOwn(p)
      PROVE  UNCHANGED Exclusive!lockVars
  <2>1. lock = mine[p]
    BY <1>t, <1>6 DEF CheckOwn, Kept, OwnerInv, Owning
  <2> QED  BY <1>t, <1>6, <2>1 DEF CheckOwn, GoTo, TypeOK, Owning, InLock, Exclusive!lockVars
<1>7. ASSUME NEW p \in Processes, RemoveOwn(p)
      PROVE  Exclusive!GiveBack(p)
  BY <1>t, <1>7 DEF RemoveOwn, Unlink, Forget, GoTo, TypeOK, Owning, InLock, Exclusive!GiveBack
<1>8. ASSUME NEW d \in Doctors, Look(d) \/ Read(d) \/ Probe(d) \/ Check(d)
      PROVE  [Exclusive!Next]_(Exclusive!lockVars)
  <2>1. d \in Processes
    BY DEF Processes
  <2>2. CASE Leave(d)
    BY <1>t, <2>1, <2>2, DeathAbandons
  <2>3. CASE ~Leave(d)
    <3>1. UNCHANGED lock /\ pc[d] \notin Owning
      BY <1>8, <2>3 DEF Look, Read, Probe, Check, Owning, InLock
    <3>2. \E place \in {"acquire", "read", "probe", "check", "unlink"} : GoTo(d, place)
      BY <1>8, <2>3 DEF Look, Read, Probe, Check
    <3> QED  BY <1>t, <2>1, <3>1, <3>2, OutsideUnseen DEF Owning, InLock
  <2> QED  BY <2>2, <2>3
<1>9. ASSUME NEW d \in Doctors, RemoveStale(d)
      PROVE  [Exclusive!Next]_(Exclusive!lockVars)
  <2>1. d \in Processes /\ pc[d] = "unlink" /\ lock' = NoFile /\ ~Overtakes(d)
    BY <1>9 DEF RemoveStale, Unlink, Processes
  <2>2. \A p \in Processes : pc[p] \notin Owning
    BY <1>t, <2>1, StaleIsAbandoned
  <2>3. GoTo(d, "off") \/ GoTo(d, "acquire")
    BY <1>9 DEF RemoveStale, Forget
  <2>4. \A p \in Processes : pc'[p] \notin Owning
    BY <1>t, <2>1, <2>2, <2>3 DEF GoTo, TypeOK, Owning, InLock
  <2>5. CASE lock = NoFile
    BY <2>1, <2>2, <2>4, <2>5 DEF Exclusive!lockVars, Owning
  <2>6. CASE lock # NoFile
    <3>1. Exclusive!Clear
      BY <2>1, <2>2, <2>4, <2>6 DEF Exclusive!Clear, Owning
    <3> QED  BY <3>1 DEF Exclusive!Next
  <2> QED  BY <2>5, <2>6
<1>10. CASE UNCHANGED vars
  BY <1>10 DEF vars, Exclusive!lockVars
<1> QED
  BY <1>1, <1>2, <1>3, <1>4, <1>5, <1>6, <1>7, <1>8, <1>9, <1>10
     DEF Next, Exclusive!Next, Processes

\* Until a doctor is overtaken the lock file is taken, kept and given back as
\* ExclusiveLock says, for any processes, crashes and inode numbers.
THEOREM ImplementsLock == Spec => ProvidesLock
<1>1. Init => Exclusive!Init
  BY DEF Init, Exclusive!Init, Owning, InLock
<1>2. LockInv /\ [Next]_vars => [Exclusive!Next \/ overtaken']_(Exclusive!lockVars)
  BY LockStepMaps
<1> QED
  BY <1>1, <1>2, LockInit, LockStep, PTL DEF Spec, ProvidesLock
=============================================================================
