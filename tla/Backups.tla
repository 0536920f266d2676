----------------------------- MODULE Backups -----------------------------
(***************************************************************************)
(* The daily database backup of CronService: a Redis lock that expires, a  *)
(* dump that may fail, be cut short or die half way, and a rotation that   *)
(* keeps the newest file.  The rotation also runs at every start, without  *)
(* the lock, and whenever the administrator cleans the disk.  tryLock is   *)
(* shared by all cron jobs; the backup is the one whose runs are longest.  *)
(***************************************************************************)
EXTENDS Integers

CONSTANTS
    Instances,       \* processes of the panel that share the backup directory
    NoOwner,
    BackupScenarios \* bound: faults of a behaviour, how many, backups it takes

Mishaps == {"dumpFails", "gzipFails", "crash", "lapse", "cleanup"}

ASSUME BackupAssumption ==
    /\ NoOwner \notin Instances
    /\ BackupScenarios \subseteq [ops : SUBSET Mishaps, faults : Nat, dumps : Nat]

VARIABLES
    job,            \* job[r]: where a process is, the file it writes, what it will delete
    cronLock,           \* cron:lock:backup, its owner's token
    files,          \* files[f]: of each *.sql.gz file, those modified after it
    whole,          \* the files that hold a whole dump
    stamp,          \* the time in the name of the last file
    latest,         \* the last whole dump, history only
    overran,        \* processes that still run although their lock lapsed, history only
    torn,           \* a dump died or was cut, or was written while another rotated
    backupScope           \* what may still happen

backupVars == <<job, cronLock, files, whole, stamp, latest, overran, torn, backupScope>>

Down == [at |-> "down", file |-> 0, doomed |-> {}]
Idle == [at |-> "idle", file |-> 0, doomed |-> {}]
Stages == {"down", "idle", "starting", "pgDump", "dockerDump", "rotate", "remove", "unlock"}

\* Of two files one was modified after the other.
InOrder ==
    /\ \A f \in DOMAIN files : files[f] \subseteq DOMAIN files \ {f}
    /\ \A f, g \in DOMAIN files : f # g => (f \in files[g] <=> g \notin files[f])

BackupTypeOK ==
    /\ job \in [Instances -> [at : Stages, file : Nat, doomed : SUBSET Nat]]
    /\ cronLock \in Instances \cup {NoOwner}
    /\ DOMAIN files \subseteq 1..stamp /\ InOrder
    /\ whole \subseteq DOMAIN files
    /\ stamp \in Nat /\ latest \in 0..stamp
    /\ overran \subseteq Instances
    /\ torn \in BOOLEAN
    /\ backupScope \in [ops : SUBSET Mishaps, faults : Nat, dumps : Nat]

BackupInit ==
    /\ job = [r \in Instances |-> Down]
    /\ cronLock = NoOwner
    /\ files = [f \in {} |-> {}] /\ whole = {} /\ stamp = 0 /\ latest = 0
    /\ overran = {} /\ torn = FALSE
    /\ backupScope \in BackupScenarios

Mishap(op) ==
    /\ op \in backupScope.ops
    /\ backupScope.faults > 0
    /\ backupScope' = [backupScope EXCEPT !.faults = @ - 1]

Dumping(r) == job[r].at \in {"pgDump", "dockerDump"}
Written == {job[r].file : r \in {q \in Instances : Dumping(q)}}
Without(gone) == [f \in DOMAIN files \ gone |-> files[f] \ gone]
Touched(f) == [g \in DOMAIN files \cup {f} |-> IF g = f THEN {} ELSE files[g] \cup {f}]

-----------------------------------------------------------------------------
(* RotateBackupsKeepOne: list the directory, then remove all but the newest *)

\* A file that is being written is the newest by its modification time, unless what was
\* written lately is still in the buffer of gzip.
Newest == {f \in DOMAIN files : f \in Written \/ files[f] = {}}
Surplus == IF DOMAIN files = {} THEN {{}} ELSE {DOMAIN files \ {f} : f \in Newest}

\* What the rotation of one process does to the dump of another is history only.
Rotates(r, next) ==
    /\ \E gone \in Surplus :
         job' = [job EXCEPT ![r].at = next, ![r].doomed = gone]
    /\ torn' = (torn \/ \E q \in Instances \ {r} : Dumping(q))

RemoveDoomed(r) ==
    /\ files' = Without(job[r].doomed)
    /\ whole' = whole \ job[r].doomed

-----------------------------------------------------------------------------
(* The process: main starts it with a rotation, then a backup, then daily  *)

StartProcess(r) ==
    /\ job[r] = Down
    /\ Rotates(r, "starting")
    /\ UNCHANGED <<cronLock, files, whole, stamp, latest, overran, backupScope>>

StartRemoves(r) ==
    /\ job[r].at = "starting"
    /\ RemoveDoomed(r)
    /\ job' = [job EXCEPT ![r] = Idle]
    /\ UNCHANGED <<cronLock, stamp, latest, overran, torn, backupScope>>

\* tryLock: SETNX with a random token; somebody else's lock means to skip this backup.
\* Without a pg_dump of its own the panel uses the one in the database's container.
AutoBackupDatabase(r) ==
    /\ job[r] = Idle
    /\ cronLock = NoOwner
    /\ stamp < backupScope.dumps
    /\ stamp' = stamp + 1
    /\ cronLock' = r
    /\ \E tool \in {"pgDump", "dockerDump"} :
         job' = [job EXCEPT ![r] = [at |-> tool, file |-> stamp', doomed |-> {}]]
    /\ files' = Touched(stamp')
    /\ UNCHANGED <<whole, latest, overran, torn, backupScope>>

DumpDone(r) ==
    /\ Dumping(r)
    /\ job[r].file \in DOMAIN files
    /\ files' = Touched(job[r].file)
    /\ whole' = whole \cup {job[r].file}
    /\ latest' = job[r].file
    /\ job' = [job EXCEPT ![r].at = "rotate"]
    /\ UNCHANGED <<cronLock, stamp, overran, torn, backupScope>>

\* Another process has removed the file: the dump goes to a file without a name.
DumpLost(r) ==
    /\ Dumping(r)
    /\ job[r].file \notin DOMAIN files
    /\ job' = [job EXCEPT ![r].at = "rotate"]
    /\ UNCHANGED <<cronLock, files, whole, stamp, latest, overran, torn, backupScope>>

\* The error of gzip's Close is dropped: the file lacks its end and counts as a success.
DumpCut(r) ==
    /\ Mishap("gzipFails")
    /\ Dumping(r)
    /\ job[r].file \in DOMAIN files
    /\ files' = Touched(job[r].file)
    /\ job' = [job EXCEPT ![r].at = "rotate"]
    /\ torn' = TRUE
    /\ UNCHANGED <<cronLock, whole, stamp, latest, overran>>

\* A failed dump's file is removed.
LeftBehind(f) == Touched(f)
Removed(f) == Without({f})

\* A failed pg_dump is removed and tried again inside the database's container, under the
\* same name; when that fails too, it is removed, an alarm is sent and the rotation follows.
DumpFails(r) ==
    /\ Mishap("dumpFails")
    /\ \/ /\ job[r].at = "pgDump"
          /\ files' = Touched(job[r].file)
          /\ job' = [job EXCEPT ![r].at = "dockerDump"]
       \/ /\ job[r].at = "dockerDump"
          /\ files' = Removed(job[r].file)
          /\ job' = [job EXCEPT ![r].at = "rotate"]
    /\ UNCHANGED <<cronLock, whole, stamp, latest, overran, torn>>

BackupRotate(r) ==
    /\ job[r].at = "rotate"
    /\ Rotates(r, "remove")
    /\ UNCHANGED <<cronLock, files, whole, stamp, latest, overran, backupScope>>

RotateRemoves(r) ==
    /\ job[r].at = "remove"
    /\ RemoveDoomed(r)
    /\ job' = [job EXCEPT ![r].at = "unlock"]
    /\ UNCHANGED <<cronLock, stamp, latest, overran, torn, backupScope>>

\* The script deletes the key only if it still holds the own token.
LockAfterDel(r) == NoOwner
LockAfter(r) == IF cronLock = r THEN NoOwner ELSE cronLock
Unlock(r) ==
    /\ job[r].at = "unlock"
    /\ cronLock' = LockAfter(r)
    /\ job' = [job EXCEPT ![r] = Idle]
    /\ overran' = overran \ {r}
    /\ UNCHANGED <<files, whole, stamp, latest, torn, backupScope>>

Holding(r) == job[r].at \in {"pgDump", "dockerDump", "rotate", "remove", "unlock"}

\* The lock's 30 minutes are over while its owner is still at work.
LockLapses(r) ==
    /\ Mishap("lapse")
    /\ cronLock = r /\ Holding(r)
    /\ cronLock' = NoOwner
    /\ overran' = overran \cup {r}
    /\ UNCHANGED <<job, files, whole, stamp, latest, torn>>

\* A process that died left its lock; it is gone after the 30 minutes.
Expires(r) == cronLock = r /\ ~Holding(r)
LeftLockLapses(r) ==
    /\ Expires(r)
    /\ cronLock' = NoOwner
    /\ UNCHANGED <<job, files, whole, stamp, latest, overran, torn, backupScope>>

ProcessDies(r) ==
    /\ Mishap("crash")
    /\ job[r] # Down
    /\ job' = [job EXCEPT ![r] = Down]
    /\ overran' = overran \ {r}
    /\ torn' = (torn \/ Dumping(r))
    /\ UNCHANGED <<cronLock, files, whole, stamp, latest>>

\* DiskCleanup of the administrator keeps the newest file as well, without the lock.
CleanupOldBackups ==
    /\ Mishap("cleanup")
    /\ \E gone \in Surplus : files' = Without(gone) /\ whole' = whole \ gone
    /\ torn' = (torn \/ Written # {})
    /\ UNCHANGED <<job, cronLock, stamp, latest, overran>>

BackupWork(r) ==
    \/ StartProcess(r) \/ StartRemoves(r) \/ AutoBackupDatabase(r) \/ DumpDone(r) \/ DumpLost(r)
    \/ BackupRotate(r) \/ RotateRemoves(r) \/ Unlock(r)

BackupNext ==
    \/ \E r \in Instances :
         \/ BackupWork(r) \/ DumpCut(r) \/ DumpFails(r)
         \/ LockLapses(r) \/ LeftLockLapses(r) \/ ProcessDies(r)
    \/ CleanupOldBackups

BackupSpec == BackupInit /\ [][BackupNext]_backupVars

-----------------------------------------------------------------------------
(* Correctness                                                             *)

\* Two processes are in the job at once only if the lock of one lapsed under it: giving
\* back a lock that has lapsed does not take the lock of the process that holds it now.
OneBackupAtATime ==
    \A r, q \in Instances : Holding(r) /\ Holding(q) /\ r # q => overran \cap {r, q} # {}

\* Whatever dumps fail, whoever rotates or cleans up: while no dump was torn, the last
\* whole dump is in the directory.
LatestDumpIsKept == ~torn /\ latest > 0 => latest \in whole
=============================================================================
