---------------------------- MODULE WorkspaceLock ----------------------------
(***************************************************************************)
(* The lock file of a sample workspace: runs hold it for their whole       *)
(* operation, and `sample doctor --repair-stale-lock` removes one whose    *)
(* owner is proven dead before it takes the lock itself.                   *)
(*                                                                         *)
(* One action is one system call on the lock file, or one probe of the     *)
(* process table, since any other process can act between two of them.  A  *)
(* process stands for one PID of one host; starting it again after its     *)
(* death is a reuse of that PID.                                           *)
(***************************************************************************)
EXTENDS Integers, FiniteSets

CONSTANTS
  Runs,         \* processes of sample run and sample retry
  Doctors,      \* processes of sample doctor --repair-stale-lock
  HostOf,       \* HostOf[p]: the host p runs on
  Inodes,       \* bound: the (st_dev, st_ino) pairs the file system hands out
  MayCrash,     \* whether processes are killed
  Empty,        \* content of a lock created and not yet written
  Nobody        \* the owner of a lock no doctor has read

Processes == Runs \cup Doctors

NoFile == 0  \* the lock path is absent, or a process has no inode in hand

ASSUME LockAssumption ==
  /\ Runs \cap Doctors = {}
  /\ Inodes \subseteq Nat \ {NoFile}
  /\ {Empty, Nobody} \cap Processes = {}
  /\ MayCrash \in BOOLEAN

VARIABLES
  lock,     \* inode linked at the lock path
  content,  \* content[i]: the owner in inode i's metadata, or Empty
  pc,       \* the next step of each process, "off" when its PID is free
  mine,     \* mine[p]: the inode p created and fstat'ed
  seen,     \* seen[d]: the inode of doctor d's diagnosis
  owner     \* owner[d]: the owner d has read from the lock

\* History, which no step of the program depends on.
VARIABLES
  readers,   \* the doctors that have read the file now at the lock path
  checkers,  \* the doctors whose last check was of the file now there
  overtaken  \* a doctor unlinked another file without a way to notice

history == <<readers, checkers, overtaken>>
vars == <<lock, content, pc, mine, seen, owner, history>>

InLock == {"created", "critical"}
Owning == InLock \cup {"closing", "removing"}
Repairing == {"look", "read", "probe", "check", "unlink"}
Places == Owning \cup Repairing \cup {"off", "acquire"}

Init ==
  /\ lock = NoFile
  /\ content = [i \in Inodes |-> Empty]
  /\ pc = [p \in Processes |-> "off"]
  /\ mine = [p \in Processes |-> NoFile]
  /\ seen = [p \in Processes |-> NoFile]
  /\ owner = [p \in Processes |-> Nobody]
  /\ readers = {} /\ checkers = {} /\ overtaken = FALSE

GoTo(p, place) == pc' = [pc EXCEPT ![p] = place]

\* The process goes on without what it had found out and opened.
Forget(p, place) ==
  /\ GoTo(p, place)
  /\ mine' = [mine EXCEPT ![p] = NoFile]
  /\ seen' = [seen EXCEPT ![p] = NoFile]
  /\ owner' = [owner EXCEPT ![p] = Nobody]

\* The process ends, and leaves the lock path as it is.
Leave(p) ==
  /\ Forget(p, "off")
  /\ readers' = readers \ {p} /\ checkers' = checkers \ {p}
  /\ UNCHANGED <<lock, content, overtaken>>

Running(host, p) == HostOf[p] = host /\ pc[p] # "off"

\* The inode numbers a new file can get: never that of a linked or open file,
\* but that of a deleted one, as soon as nobody has it open.
Fresh ==
  Inodes \ ({lock} \cup {mine[p] : p \in {q \in Processes : pc[q] \in InLock}})

\* The lock path is emptied: nobody has read or checked what comes after.
Unlink == lock' = NoFile /\ readers' = {} /\ checkers' = {}

----------------------------------------------------------------------------
(* exclusive_run_lock.                                                       *)

Start(p) ==
  /\ pc[p] = "off"
  /\ GoTo(p, IF p \in Doctors THEN "look" ELSE "acquire")
  /\ UNCHANGED <<lock, content, mine, seen, owner, history>>

\* open with O_CREAT and O_EXCL, and fstat of what it returned.
Create(p) ==
  /\ pc[p] = "acquire"
  /\ lock = NoFile
  /\ \E i \in Fresh :
       /\ lock' = i
       /\ content' = [content EXCEPT ![i] = Empty]
       /\ mine' = [mine EXCEPT ![p] = i]
  /\ GoTo(p, "created")
  /\ UNCHANGED <<seen, owner, history>>

Refused(p) ==
  /\ pc[p] = "acquire"
  /\ lock # NoFile
  /\ Leave(p)

WriteMetadata(p) ==
  /\ pc[p] = "created"
  /\ content' = [content EXCEPT ![mine[p]] = p]
  /\ GoTo(p, "critical")
  /\ UNCHANGED <<lock, mine, seen, owner, history>>

\* The body ends or raises, or the metadata cannot be written: close(fd).
Close(p) ==
  /\ pc[p] \in InLock
  /\ GoTo(p, "closing")
  /\ UNCHANGED <<lock, content, mine, seen, owner, history>>

\* lstat of the lock path: anything but the own inode is left alone.
CheckOwn(p) ==
  /\ pc[p] = "closing"
  /\ IF lock = mine[p]
     THEN GoTo(p, "removing") /\ UNCHANGED <<lock, content, mine, seen, owner, history>>
     ELSE Leave(p)

\* unlink by path; when the path is gone it raises and changes nothing.
RemoveOwn(p) ==
  /\ pc[p] = "removing"
  /\ Unlink
  /\ Forget(p, "off")
  /\ UNCHANGED <<content, overtaken>>

Crash(p) ==
  /\ MayCrash
  /\ pc[p] # "off"
  /\ Leave(p)

----------------------------------------------------------------------------
(* diagnose_lock, remove_proven_stale_lock and what the doctor does between. *)

\* lstat: without a lock there is nothing to remove, only staging to clean.
Look(d) ==
  /\ pc[d] = "look"
  /\ seen' = [seen EXCEPT ![d] = lock]
  /\ GoTo(d, IF lock = NoFile THEN "acquire" ELSE "read")
  /\ UNCHANGED <<lock, content, mine, owner, history>>

\* Deviation: malformed metadata is reported as the lock of a dead process.
ReadTrustsMalformed(d) ==
  /\ pc[d] = "read"
  /\ \/ lock # seen[d] /\ Leave(d)
     \/ /\ lock = seen[d]
        /\ content[lock] = Empty
        /\ readers' = readers \cup {d}
        /\ GoTo(d, "check")
        /\ UNCHANGED <<lock, content, mine, seen, owner, checkers, overtaken>>
     \/ /\ lock = seen[d]
        /\ content[lock] # Empty
        /\ owner' = [owner EXCEPT ![d] = content[lock]]
        /\ readers' = readers \cup {d}
        /\ GoTo(d, "probe")
        /\ UNCHANGED <<lock, content, mine, seen, checkers, overtaken>>

\* open, fstat and read: a lock that changed is "unknown", one without
\* metadata is "malformed", and the doctor stops at both.
Read(d) ==
  /\ pc[d] = "read"
  /\ \/ lock # seen[d] /\ Leave(d)
     \/ lock = seen[d] /\ content[lock] = Empty /\ Leave(d)
     \/ /\ lock = seen[d]
        /\ content[lock] # Empty
        /\ owner' = [owner EXCEPT ![d] = content[lock]]
        /\ readers' = readers \cup {d}
        /\ GoTo(d, "probe")
        /\ UNCHANGED <<lock, content, mine, seen, checkers, overtaken>>

\* Deviation: the host fingerprint is not compared before the PID is probed.
ProvenDeadAnyHost(d) == ~Running(HostOf[d], owner[d])

\* "stale": the owner ran on this host and its PID is free.
ProvenDead(d) == HostOf[owner[d]] = HostOf[d] /\ pc[owner[d]] = "off"

\* Liveness can also come out unknown, so the doctor may stop in any case.
Probe(d) ==
  /\ pc[d] = "probe"
  /\ \/ Leave(d)
     \/ /\ ProvenDead(d)
        /\ GoTo(d, "check")
        /\ UNCHANGED <<lock, content, mine, seen, owner, history>>

\* Deviation: the inode is not compared with the diagnosed one.
CheckAnyInode(d) ==
  /\ pc[d] = "check"
  /\ \/ lock = NoFile /\ Leave(d)
     \/ /\ lock # NoFile
        /\ GoTo(d, "unlink")
        /\ checkers' = checkers \cup {d}
        /\ UNCHANGED <<lock, content, mine, seen, owner, readers, overtaken>>

\* remove_proven_stale_lock: lstat again, and refuse another inode.
Check(d) ==
  /\ pc[d] = "check"
  /\ \/ lock # seen[d] /\ Leave(d)
     \/ /\ lock = seen[d]
        /\ GoTo(d, "unlink")
        /\ checkers' = checkers \cup {d}
        /\ UNCHANGED <<lock, content, mine, seen, owner, readers, overtaken>>

\* The two ways in which the doctor unlinks a file it has not proven stale and
\* cannot notice: the file was replaced after the check, or it was replaced
\* before, by one with the same inode number.
Overtakes(d) ==
  /\ lock # NoFile
  /\ d \notin checkers \/ (lock = seen[d] /\ d \notin readers)

\* Deviation: after the removal the doctor cleans without taking the lock.
RemoveStaleAndEnter(d) ==
  /\ pc[d] = "unlink"
  /\ Unlink
  /\ overtaken' = (overtaken \/ Overtakes(d))
  /\ Forget(d, "off") \/ (lock # NoFile /\ Forget(d, "critical"))
  /\ UNCHANGED content

\* unlink by path.  Then the repair event is appended; only when that
\* succeeds does the doctor go on to take the lock for the cleanup.
RemoveStale(d) ==
  /\ pc[d] = "unlink"
  /\ Unlink
  /\ overtaken' = (overtaken \/ Overtakes(d))
  /\ Forget(d, "off") \/ (lock # NoFile /\ Forget(d, "acquire"))
  /\ UNCHANGED content

----------------------------------------------------------------------------
Next ==
  \/ \E p \in Processes :
       \/ Start(p) \/ Create(p) \/ Refused(p) \/ WriteMetadata(p)
       \/ Close(p) \/ CheckOwn(p) \/ RemoveOwn(p) \/ Crash(p)
  \/ \E d \in Doctors :
       Look(d) \/ Read(d) \/ Probe(d) \/ Check(d) \/ RemoveStale(d)

Spec == Init /\ [][Next]_vars

----------------------------------------------------------------------------
\* Type invariant of the file system and of the processes.
TypeOK ==
  /\ lock \in Inodes \cup {NoFile}
  /\ content \in [Inodes -> Processes \cup {Empty}]
  /\ pc \in [Processes -> Places]
  /\ mine \in [Processes -> Inodes \cup {NoFile}]
  /\ seen \in [Processes -> Inodes \cup {NoFile}]
  /\ owner \in [Processes -> Processes \cup {Nobody}]
  /\ readers \subseteq Doctors /\ checkers \subseteq Doctors /\ overtaken \in BOOLEAN
  /\ \A p \in Processes : (mine[p] # NoFile) <=> (pc[p] \in Owning)
  /\ \A p \in Processes : pc[p] \in Repairing \ {"look"} => seen[p] # NoFile

\* Two operations are never inside the workspace together, whatever crashes and
\* repairs happened before - until a doctor, racing another, is overtaken
\* between its last look at the lock file and its unlink of the path.
MutualExclusion ==
  ~overtaken =>
    \A p, q \in Processes : pc[p] \in InLock /\ pc[q] \in InLock => p = q

\* "A live lock is never removed": an operation that is under way, its
\* metadata written or not, still has its file at the lock path.
LiveLockKept == \A p \in Processes : pc[p] \in InLock => lock = mine[p]

\* That is true of every history in which no doctor was overtaken: its checks
\* leave no other way to lose the lock of a live operation.
LiveLockKeptUnlessOvertaken == ~overtaken => LiveLockKept

\* A lock abandoned before its metadata was written fails closed: no run clears
\* it, and no doctor does unless it is overtaken on its way to another lock.
EmptyLockFailsClosed ==
  [][(/\ lock # NoFile
      /\ content[lock] = Empty
      /\ \A p \in Processes : mine[p] # lock) => lock' = lock \/ overtaken']_vars

\* The lock file is an exclusive lock to whoever works under it, which the system
\* calls on the path, the crashes and the repairs between them do not show, as
\* long as no doctor is overtaken.
Exclusive == INSTANCE ExclusiveLock WITH
  locked <- lock # NoFile,
  holders <- {p \in Processes : pc[p] \in Owning},
  inside <- {p \in Processes : pc[p] \in InLock}
ProvidesLock ==
  Exclusive!Init /\ [][Exclusive!Next \/ overtaken']_(Exclusive!lockVars)
=============================================================================
