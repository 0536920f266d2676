---------------------------- MODULE UpkeepProofs ----------------------------
(***************************************************************************)
(* Proofs about what keeps the panel and its nodes running, for any        *)
(* processes, nodes, deployments and faults: the nightly backup (its lock, *)
(* then its files), the panel's update of itself and the deployment of a   *)
(* node over SSH.                                                          *)
(***************************************************************************)
EXTENDS Backups, SelfUpdate, Deploy, TLAPS

Jobs(D) == [at : Stages, file : Nat, doomed : D]

JobTyped ==
    /\ \E D : job \in [Instances -> Jobs(D)]
    /\ cronLock \in Instances \cup {NoOwner}
    /\ stamp \in Nat

\* A process that is in the job has the lock, unless the lock lapsed under it.
HoldersHaveTheLock ==
    \A r \in Instances : Holding(r) /\ r \notin overran => cronLock = r

LockInvariant == JobTyped /\ HoldersHaveTheLock

BackupSteps(r) ==
    \/ BackupWork(r) \/ DumpCut(r) \/ DumpFails(r)
    \/ LockLapses(r) \/ LeftLockLapses(r) \/ ProcessDies(r)

-----------------------------------------------------------------------------
\* Every assignment to job[r] gives it a stage, a number and a set of files.
LEMMA JobChanges ==
    ASSUME NEW D, job \in [Instances -> Jobs(D)], NEW r \in Instances
    PROVE  /\ \A stage \in Stages : \A gone :
                /\ [job EXCEPT ![r].at = stage, ![r].doomed = gone]
                     \in [Instances -> Jobs(D \cup {gone})]
                /\ [job EXCEPT ![r].at = stage] \in [Instances -> Jobs(D)]
           /\ \A j \in Jobs({{}}) :
                [job EXCEPT ![r] = j] \in [Instances -> Jobs(D \cup {{}})]
<1>1. job[r] \in Jobs(D) /\ \A q \in Instances : job[q] \in Jobs(D)
  OBVIOUS
<1>2. \A E, F : \A j \in Jobs(E) : j \in Jobs(E \cup F) /\ j \in Jobs(F \cup E)
  BY DEF Jobs
<1>3. ASSUME NEW stage \in Stages, NEW gone
      PROVE  /\ [job EXCEPT ![r].at = stage, ![r].doomed = gone]
                  \in [Instances -> Jobs(D \cup {gone})]
             /\ [job EXCEPT ![r].at = stage] \in [Instances -> Jobs(D)]
  <2>1. [job[r] EXCEPT !.at = stage, !.doomed = gone] \in Jobs(D \cup {gone})
    BY <1>1 DEF Jobs
  <2>2. [job[r] EXCEPT !.at = stage] \in Jobs(D)
    BY <1>1 DEF Jobs
  <2> QED BY <1>1, <1>2, <2>1, <2>2
<1>4. ASSUME NEW j \in Jobs({{}})
      PROVE  [job EXCEPT ![r] = j] \in [Instances -> Jobs(D \cup {{}})]
  BY <1>1, <1>2, <1>4
<1> QED BY <1>3, <1>4

\* The stages one step of a process can take it to, and what it does to the lock.
LEMMA StepOfOne ==
    ASSUME LockInvariant, NEW r \in Instances, BackupSteps(r) PROVE LockInvariant'
<1>1. PICK D : job \in [Instances -> Jobs(D)]
  BY DEF LockInvariant, JobTyped
<1>2. /\ \A q \in Instances : job[q].at \in Stages
      /\ r # NoOwner /\ NoOwner \notin Instances
      /\ Idle \in Jobs({{}}) /\ Down \in Jobs({{}})
      /\ Idle.at = "idle" /\ Down.at = "down"
  BY <1>1, BackupAssumption DEF Jobs, Idle, Down, Stages
<1>3. /\ \A q \in Instances \ {r} : cronLock = q => cronLock # r
      /\ cronLock \in Instances \cup {NoOwner} /\ stamp \in Nat
  BY DEF LockInvariant, JobTyped
<1>4. ASSUME NEW next \in {"starting", "remove"}, Rotates(r, next),
             next = "remove" => job[r].at = "rotate",
             UNCHANGED <<cronLock, overran, stamp>>
      PROVE  LockInvariant'
  <2>1. PICK gone : job' = [job EXCEPT ![r].at = next, ![r].doomed = gone]
    BY <1>4 DEF Rotates
  <2>2. job' \in [Instances -> Jobs(D \cup {gone})]
    BY <1>1, <1>4, <2>1, JobChanges DEF Stages
  <2>3. job'[r].at = next /\ \A q \in Instances \ {r} : job'[q] = job[q]
    BY <1>1, <2>1 DEF Jobs
  <2> QED BY <1>3, <1>4, <2>2, <2>3 DEF LockInvariant, JobTyped, HoldersHaveTheLock, Holding
<1>5. CASE AutoBackupDatabase(r)
  <2>1. PICK tool \in {"pgDump", "dockerDump"} :
          job' = [job EXCEPT ![r] = [at |-> tool, file |-> stamp', doomed |-> {}]]
    BY <1>5 DEF AutoBackupDatabase
  <2>2. /\ stamp' = stamp + 1 /\ cronLock = NoOwner /\ cronLock' = r
        /\ UNCHANGED overran /\ stamp' \in Nat
    BY <1>3, <1>5 DEF AutoBackupDatabase
  <2>3. [at |-> tool, file |-> stamp', doomed |-> {}] \in Jobs({{}})
    BY <2>2 DEF Jobs, Stages
  <2>4. job' \in [Instances -> Jobs(D \cup {{}})]
    BY <1>1, <2>1, <2>3, JobChanges
  <2>5. \A q \in Instances \ {r} : job'[q] = job[q]
    BY <1>1, <2>1
  <2>6. \A q \in Instances \ {r} : Holding(q)' => q \in overran'
    BY <1>2, <2>2, <2>5 DEF LockInvariant, HoldersHaveTheLock, Holding
  <2> QED BY <2>2, <2>4, <2>6 DEF LockInvariant, JobTyped, HoldersHaveTheLock
<1>6. CASE DumpDone(r) \/ DumpLost(r) \/ DumpCut(r) \/ DumpFails(r) \/ RotateRemoves(r)
  <2>1. PICK next \in {"rotate", "dockerDump", "unlock"} :
          /\ job' = [job EXCEPT ![r].at = next]
          /\ Holding(r)
          /\ UNCHANGED <<cronLock, overran, stamp>>
    <3>1. CASE DumpDone(r) \/ DumpLost(r) \/ DumpCut(r)
      BY <3>1 DEF DumpDone, DumpLost, DumpCut, Dumping, Holding
    <3>2. CASE DumpFails(r)
      BY <3>2 DEF DumpFails, Holding
    <3>3. CASE RotateRemoves(r)
      BY <3>3 DEF RotateRemoves, Holding
    <3> QED BY <1>6, <3>1, <3>2, <3>3
  <2>2. job' \in [Instances -> Jobs(D)]
    BY <1>1, <2>1, JobChanges DEF Stages
  <2>3. \A q \in Instances \ {r} : job'[q] = job[q]
    BY <1>1, <2>1
  <2> QED BY <1>3, <2>1, <2>2, <2>3 DEF LockInvariant, JobTyped, HoldersHaveTheLock, Holding
<1>7. CASE StartRemoves(r) \/ Unlock(r) \/ ProcessDies(r)
  <2>1. PICK j \in {Idle, Down} :
          /\ job' = [job EXCEPT ![r] = j]
          /\ overran \ {r} \subseteq overran'
          /\ cronLock' = cronLock \/ cronLock' = LockAfter(r)
          /\ UNCHANGED stamp
    BY <1>7 DEF StartRemoves, Unlock, ProcessDies
  <2>2. job' \in [Instances -> Jobs(D \cup {{}})]
    BY <1>1, <1>2, <2>1, JobChanges
  <2>3. job'[r] = j /\ ~Holding(r)' /\ \A q \in Instances \ {r} : job'[q] = job[q]
    BY <1>1, <1>2, <2>1 DEF Holding
  <2>4. cronLock' \in Instances \cup {NoOwner}
    BY <1>3, <2>1 DEF LockAfter
  <2>5. \A q \in Instances \ {r} : Holding(q)' /\ q \notin overran' => cronLock' = q
    BY <2>1, <2>3 DEF LockInvariant, HoldersHaveTheLock, Holding, LockAfter
  <2> QED BY <1>3, <2>1, <2>2, <2>3, <2>4, <2>5 DEF LockInvariant, JobTyped, HoldersHaveTheLock
<1>8. CASE LockLapses(r) \/ LeftLockLapses(r)
  BY <1>3, <1>8 DEF LockLapses, LeftLockLapses, Expires, LockInvariant, JobTyped,
                    HoldersHaveTheLock, Holding
<1>9. CASE StartProcess(r) \/ BackupRotate(r)
  BY <1>4, <1>9 DEF StartProcess, BackupRotate
<1> QED BY <1>5, <1>6, <1>7, <1>8, <1>9 DEF BackupSteps, BackupWork

LEMMA LockInvariantHolds == BackupSpec => []LockInvariant
<1>1. BackupInit => LockInvariant
  <2> SUFFICES ASSUME BackupInit PROVE LockInvariant
    OBVIOUS
  <2>1. Down \in Jobs({{}}) /\ Down.at = "down"
    BY DEF Jobs, Down, Stages
  <2>2. job \in [Instances -> Jobs({{}})]
    BY <2>1 DEF BackupInit
  <2>3. \A r \in Instances : ~Holding(r)
    BY <2>1 DEF BackupInit, Holding
  <2> QED BY <2>2, <2>3 DEF BackupInit, LockInvariant, JobTyped, HoldersHaveTheLock
<1>2. LockInvariant /\ [BackupNext]_backupVars => LockInvariant'
  <2> SUFFICES ASSUME LockInvariant, [BackupNext]_backupVars PROVE LockInvariant'
    OBVIOUS
  <2>1. ASSUME NEW r \in Instances, BackupSteps(r) PROVE LockInvariant'
    BY <2>1, StepOfOne
  <2>2. CASE CleanupOldBackups \/ UNCHANGED backupVars
    BY <2>2 DEF CleanupOldBackups, backupVars, LockInvariant, JobTyped, HoldersHaveTheLock, Holding
  <2> QED BY <2>1, <2>2 DEF BackupNext, BackupSteps
<1> QED BY <1>1, <1>2, PTL DEF BackupSpec

\* Two processes are in the backup job at once only if the lock of one has lapsed under it,
\* for any number of processes, crashes and lapses: unlock gives back only the own lock.
THEOREM BackupsExclude == BackupSpec => []OneBackupAtATime
<1>1. LockInvariant => OneBackupAtATime
  BY DEF LockInvariant, HoldersHaveTheLock, OneBackupAtATime
<1> QED BY <1>1, LockInvariantHolds, PTL

-----------------------------------------------------------------------------
(* Backups: the files                                                      *)

\* Names of files are times that have passed; a dump is in a file of its own, whose
\* name no whole dump has.
FilesTyped ==
    /\ job \in [Instances -> Jobs(SUBSET Nat)]
    /\ stamp \in Nat /\ latest \in 0..stamp
    /\ DOMAIN files \subseteq 1..stamp /\ InOrder
    /\ whole \subseteq DOMAIN files
    /\ \A r \in Instances : job[r].doomed \subseteq 1..stamp
    /\ \A r \in Instances : Dumping(r) => job[r].file \in 1..stamp /\ job[r].file \notin whole
    /\ \A r, q \in Instances :
         Dumping(r) /\ Dumping(q) /\ r # q => job[r].file # job[q].file

Removing(r) == job[r].at \in {"starting", "remove"}

\* What was modified after the last whole dump is a dump under way, and no rotation under way
\* is going to remove either.
Spared ==
    /\ latest > 0 => latest \in whole /\ files[latest] \subseteq Written
    /\ \A r \in Instances : Removing(r) =>
         /\ latest \notin job[r].doomed
         /\ \A q \in Instances : Dumping(q) => job[q].file \notin job[r].doomed

KeptInvariant == FilesTyped /\ (~torn => Spared)

LEMMA WithoutKeeps ==
    ASSUME InOrder, NEW gone, files' = Without(gone)
    PROVE  /\ DOMAIN files' = DOMAIN files \ gone /\ InOrder'
           /\ \A f \in DOMAIN files' : files'[f] \subseteq files[f]
BY DEF InOrder, Without

LEMMA TouchedKeeps ==
    ASSUME InOrder, NEW f, files' = Touched(f)
    PROVE  /\ DOMAIN files' = DOMAIN files \cup {f} /\ InOrder'
           /\ files'[f] = {}
           /\ \A g \in DOMAIN files \ {f} : files'[g] = files[g] \cup {f}
<1>1. DOMAIN files' = DOMAIN files \cup {f}
  BY DEF Touched
<1>2. files'[f] = {} /\ \A g \in DOMAIN files \ {f} : files'[g] = files[g] \cup {f}
  BY DEF Touched
<1>3. \A g \in DOMAIN files' : files'[g] \subseteq DOMAIN files' \ {g}
  BY <1>1, <1>2 DEF InOrder
<1>4. ASSUME NEW g \in DOMAIN files', NEW h \in DOMAIN files', g # h
      PROVE  g \in files'[h] <=> h \notin files'[g]
  <2>1. CASE g = f
    BY <1>1, <1>2, <1>4, <2>1
  <2>2. CASE h = f
    BY <1>1, <1>2, <1>4, <2>2
  <2>3. CASE g # f /\ h # f
    BY <1>1, <1>2, <1>4, <2>3 DEF InOrder
  <2> QED BY <2>1, <2>2, <2>3
<1> QED BY <1>1, <1>2, <1>3, <1>4 DEF InOrder

\* While nothing is being written, a rotation spares the last whole dump.
LEMMA SurplusSpares ==
    ASSUME FilesTyped, NEW gone \in Surplus
    PROVE  /\ gone \subseteq DOMAIN files
           /\ Spared /\ Written = {} => latest \notin gone
<1>1. gone \subseteq DOMAIN files
  BY DEF Surplus
<1>2. ASSUME Spared, Written = {}, latest \in gone PROVE FALSE
  <2>1. latest \in 1..stamp /\ latest > 0 /\ latest \in DOMAIN files
    BY <1>1, <1>2 DEF FilesTyped
  <2>2. files[latest] = {}
    BY <1>2, <2>1 DEF Spared
  <2>3. PICK f \in Newest : gone = DOMAIN files \ {f}
    BY <1>2, <2>1 DEF Surplus
  <2>4. f \in DOMAIN files /\ files[f] = {} /\ f # latest
    BY <1>2, <2>3 DEF Newest
  <2> QED BY <2>1, <2>2, <2>4 DEF FilesTyped, InOrder
<1> QED BY <1>1, <1>2

\* A process that does not dump any longer, or never did, with the files as they are.
LEMMA JobSettles ==
    ASSUME FilesTyped, NEW r \in Instances, NEW j \in Jobs(SUBSET Nat),
           job' = [job EXCEPT ![r] = j], j.at \notin {"pgDump", "dockerDump"},
           j.doomed \subseteq 1..stamp, stamp' = stamp, latest' \in 0..stamp,
           DOMAIN files' \subseteq 1..stamp, InOrder', whole' \subseteq DOMAIN files',
           \A f \in whole' : f \in whole \/ (Dumping(r) /\ f = job[r].file)
    PROVE  /\ FilesTyped'
           /\ job'[r] = j /\ ~Dumping(r)'
           /\ \A q \in Instances \ {r} : job'[q] = job[q] /\ (Dumping(q)' <=> Dumping(q))
<1>1. /\ job'[r] = j /\ \A q \in Instances \ {r} : job'[q] = job[q]
      /\ job' \in [Instances -> Jobs(SUBSET Nat)]
  BY DEF FilesTyped
<1>2. ~Dumping(r)' /\ \A q \in Instances \ {r} : Dumping(q)' <=> Dumping(q)
  BY <1>1 DEF Dumping
<1>3. \A q \in Instances : job'[q].doomed \subseteq 1..stamp
  BY <1>1 DEF FilesTyped
<1>4. \A q \in Instances : Dumping(q)' =>
        job'[q].file \in 1..stamp /\ job'[q].file \notin whole'
  BY <1>1, <1>2 DEF FilesTyped
<1>5. \A p, q \in Instances :
        Dumping(p)' /\ Dumping(q)' /\ p # q => job'[p].file # job'[q].file
  BY <1>1, <1>2 DEF FilesTyped
<1>6. stamp' \in Nat /\ latest' \in 0..stamp' /\ DOMAIN files' \subseteq 1..stamp'
  BY DEF FilesTyped
<1> QED BY <1>1, <1>2, <1>3, <1>4, <1>5, <1>6 DEF FilesTyped

LEMMA StagesTyped ==
    ASSUME FilesTyped, NEW r \in Instances
    PROVE  /\ \A stage \in Stages :
                /\ [job[r] EXCEPT !.at = stage] \in Jobs(SUBSET Nat)
                /\ [job[r] EXCEPT !.at = stage].at = stage
                /\ [job[r] EXCEPT !.at = stage].file = job[r].file
                /\ [job[r] EXCEPT !.at = stage].doomed = job[r].doomed
           /\ \A stage \in Stages : \A gone \in SUBSET (1..stamp) :
                /\ [job[r] EXCEPT !.at = stage, !.doomed = gone] \in Jobs(SUBSET Nat)
                /\ [job[r] EXCEPT !.at = stage, !.doomed = gone].at = stage
                /\ [job[r] EXCEPT !.at = stage, !.doomed = gone].doomed = gone
           /\ Idle \in Jobs(SUBSET Nat) /\ Idle.at = "idle" /\ Idle.doomed = {}
           /\ Down \in Jobs(SUBSET Nat) /\ Down.at = "down" /\ Down.doomed = {}
<1>1. job[r] \in Jobs(SUBSET Nat)
  BY DEF FilesTyped
<1>2. \A gone \in SUBSET (1..stamp) : gone \in SUBSET Nat
  BY DEF FilesTyped
<1> QED BY <1>1, <1>2 DEF Jobs, Idle, Down, Stages

LEMMA RotatesKeeps ==
    ASSUME KeptInvariant, NEW r \in Instances, NEW next \in {"starting", "remove"},
           Rotates(r, next), ~Dumping(r), UNCHANGED <<files, whole, stamp, latest>>
    PROVE  KeptInvariant'
<1>1. PICK gone \in Surplus : job' = [job EXCEPT ![r].at = next, ![r].doomed = gone]
  BY DEF Rotates
<1>2. FilesTyped
  BY DEF KeptInvariant
<1> DEFINE j == [job[r] EXCEPT !.at = next, !.doomed = gone]
<1>3. gone \subseteq DOMAIN files /\ gone \in SUBSET (1..stamp)
  BY <1>2, SurplusSpares DEF FilesTyped
<1>4. j \in Jobs(SUBSET Nat) /\ j.at = next /\ j.doomed = gone
  <2>1. next \in Stages
    BY DEF Stages
  <2>2. \A stage \in Stages : \A d \in SUBSET (1..stamp) :
          /\ [job[r] EXCEPT !.at = stage, !.doomed = d] \in Jobs(SUBSET Nat)
          /\ [job[r] EXCEPT !.at = stage, !.doomed = d].at = stage
          /\ [job[r] EXCEPT !.at = stage, !.doomed = d].doomed = d
    BY <1>2, StagesTyped
  <2> QED BY <1>3, <2>1, <2>2, Zenon
<1>5. job' = [job EXCEPT ![r] = j]
  BY <1>1
<1> HIDE DEF j
<1>e. j.at \notin {"pgDump", "dockerDump"} /\ j.doomed \subseteq 1..stamp /\ whole' = whole
  BY <1>3, <1>4
<1>6. InOrder' /\ whole' \subseteq DOMAIN files' /\ DOMAIN files' \subseteq 1..stamp
      /\ latest' \in 0..stamp
  BY <1>2 DEF FilesTyped, InOrder
<1>7. /\ FilesTyped' /\ job'[r] = j /\ ~Dumping(r)'
      /\ \A q \in Instances \ {r} : job'[q] = job[q] /\ (Dumping(q)' <=> Dumping(q))
  BY <1>2, <1>4, <1>5, <1>6, <1>e, JobSettles
<1>8. ASSUME ~torn' PROVE Spared'
  <2>1. ~torn /\ \A q \in Instances : ~Dumping(q)
    BY <1>8 DEF Rotates
  <2>2. Spared /\ Written = {}
    BY <2>1 DEF KeptInvariant, Written
  <2>3. latest \notin gone
    BY <1>2, <2>2, SurplusSpares
  <2>4. \A q \in Instances : ~Dumping(q)'
    BY <1>7, <2>1
  <2>5. latest' > 0 => latest' \in whole' /\ files'[latest'] \subseteq Written'
    BY <2>2 DEF Spared
  <2>6. \A q \in Instances : Removing(q)' => latest' \notin job'[q].doomed
    BY <1>4, <1>7, <2>2, <2>3 DEF Spared, Removing
  <2> QED BY <2>4, <2>5, <2>6 DEF Spared
<1> QED BY <1>7, <1>8 DEF KeptInvariant

LEMMA RemovesKeeps ==
    ASSUME KeptInvariant, NEW r \in Instances, Removing(r), RemoveDoomed(r),
           NEW j \in Jobs(SUBSET Nat), j.at \in {"idle", "unlock"}, j.doomed \subseteq 1..stamp,
           job' = [job EXCEPT ![r] = j], UNCHANGED <<stamp, latest, torn>>
    PROVE  KeptInvariant'
<1>1. FilesTyped
  BY DEF KeptInvariant
<1> DEFINE gone == job[r].doomed
<1>2. files' = Without(gone) /\ whole' = whole \ gone
  BY DEF RemoveDoomed
<1> HIDE DEF gone
<1>3. /\ DOMAIN files' = DOMAIN files \ gone /\ InOrder'
      /\ \A f \in DOMAIN files' : files'[f] \subseteq files[f]
  BY <1>1, <1>2, WithoutKeeps DEF FilesTyped
<1>4. DOMAIN files' \subseteq 1..stamp /\ whole' \subseteq DOMAIN files' /\ latest' \in 0..stamp
  BY <1>1, <1>2, <1>3 DEF FilesTyped
<1>5. /\ FilesTyped' /\ job'[r] = j /\ ~Dumping(r)'
      /\ \A q \in Instances \ {r} : job'[q] = job[q] /\ (Dumping(q)' <=> Dumping(q))
  BY <1>1, <1>2, <1>3, <1>4, JobSettles
<1>6. ~Dumping(r)
  BY DEF Removing, Dumping
<1>7. Written' = Written
  BY <1>5, <1>6 DEF Written
<1>8. ASSUME ~torn' PROVE Spared'
  <2>1. Spared
    BY <1>8 DEF KeptInvariant
  <2>2. latest \notin gone
    BY <2>1 DEF Spared, gone
  <2>3. ASSUME latest > 0 PROVE latest \in whole' /\ files'[latest] \subseteq Written'
    <3>1. latest \in whole' /\ files[latest] \subseteq Written
      BY <1>2, <2>1, <2>2, <2>3 DEF Spared
    <3>2. files'[latest] \subseteq files[latest]
      BY <1>3, <1>4, <3>1
    <3> QED BY <1>7, <3>1, <3>2
  <2>4. ASSUME NEW q \in Instances, Removing(q)'
        PROVE  /\ latest' \notin job'[q].doomed
               /\ \A p \in Instances : Dumping(p)' => job'[p].file \notin job'[q].doomed
    <3>1. q # r /\ job'[q] = job[q] /\ Removing(q)
      BY <1>5, <2>4 DEF Removing
    <3> QED BY <1>5, <2>1, <3>1 DEF Spared
  <2> QED BY <2>3, <2>4 DEF Spared
<1> QED BY <1>5, <1>8 DEF KeptInvariant

\* A dump begins in a file that no whole dump and no list of a rotation has.
LEMMA BeginsKeeps ==
    ASSUME KeptInvariant, NEW r \in Instances, AutoBackupDatabase(r) PROVE KeptInvariant'
<1>1. FilesTyped
  BY DEF KeptInvariant
<1>2. PICK tool \in {"pgDump", "dockerDump"} :
        job' = [job EXCEPT ![r] = [at |-> tool, file |-> stamp', doomed |-> {}]]
  BY DEF AutoBackupDatabase
<1>3. /\ stamp' = stamp + 1 /\ files' = Touched(stamp') /\ job[r].at = "idle"
      /\ UNCHANGED <<whole, latest, torn>>
  BY <1>1, StagesTyped DEF AutoBackupDatabase
<1> DEFINE j == [at |-> tool, file |-> stamp', doomed |-> {}]
<1>4. stamp \in Nat /\ stamp' \in Nat /\ stamp' \notin 1..stamp /\ 1..stamp \subseteq 1..stamp'
      /\ stamp' \in 1..stamp' /\ 0..stamp \subseteq 0..stamp'
  BY <1>1, <1>3 DEF FilesTyped
<1>5. j \in Jobs(SUBSET Nat) /\ j.at = tool /\ j.file = stamp' /\ j.doomed = {}
      /\ job' = [job EXCEPT ![r] = j]
  BY <1>2, <1>4 DEF Jobs, Stages
<1> HIDE DEF j
<1>6. /\ job'[r] = j /\ \A q \in Instances \ {r} : job'[q] = job[q]
      /\ job' \in [Instances -> Jobs(SUBSET Nat)]
  BY <1>1, <1>5 DEF FilesTyped
<1>7. ~Dumping(r) /\ Dumping(r)' /\ \A q \in Instances \ {r} : Dumping(q)' <=> Dumping(q)
  BY <1>3, <1>5, <1>6 DEF Dumping
<1>8. /\ DOMAIN files' = DOMAIN files \cup {stamp'} /\ InOrder'
      /\ \A g \in DOMAIN files \ {stamp'} : files'[g] = files[g] \cup {stamp'}
  BY <1>1, <1>3, TouchedKeeps DEF FilesTyped
<1>9. DOMAIN files' \subseteq 1..stamp' /\ whole' \subseteq DOMAIN files' /\ latest' \in 0..stamp'
      /\ stamp' \notin whole /\ stamp' \notin DOMAIN files
  BY <1>1, <1>3, <1>4, <1>8 DEF FilesTyped
<1>10. \A q \in Instances : job'[q].doomed \subseteq 1..stamp /\ stamp' \notin job'[q].doomed
  BY <1>1, <1>4, <1>5, <1>6 DEF FilesTyped
<1>11. \A q \in Instances : Dumping(q)' =>
         job'[q].file \in 1..stamp' /\ job'[q].file \notin whole'
  BY <1>1, <1>3, <1>4, <1>5, <1>6, <1>7, <1>9 DEF FilesTyped
<1>12. \A p, q \in Instances :
         Dumping(p)' /\ Dumping(q)' /\ p # q => job'[p].file # job'[q].file
  BY <1>1, <1>4, <1>5, <1>6, <1>7 DEF FilesTyped
<1>13. FilesTyped'
  BY <1>4, <1>6, <1>8, <1>9, <1>10, <1>11, <1>12 DEF FilesTyped
<1>14. stamp' \in Written' /\ Written \subseteq Written'
  <2>1. stamp' = job'[r].file
    BY <1>5, <1>6
  <2>2. \A q \in Instances : Dumping(q) => Dumping(q)' /\ job'[q].file = job[q].file
    BY <1>6, <1>7
  <2> QED BY <1>7, <2>1, <2>2 DEF Written
<1>15. ASSUME ~torn' PROVE Spared'
  <2>1. Spared
    BY <1>3, <1>15 DEF KeptInvariant
  <2>2. ASSUME latest > 0 PROVE latest \in whole' /\ files'[latest] \subseteq Written'
    <3>1. latest \in whole /\ files[latest] \subseteq Written
      BY <2>1, <2>2 DEF Spared
    <3>2. latest \in DOMAIN files \ {stamp'}
      BY <1>1, <1>9, <3>1 DEF FilesTyped
    <3> QED BY <1>3, <1>8, <1>14, <3>1, <3>2
  <2>3. ASSUME NEW q \in Instances, Removing(q)'
        PROVE  /\ latest' \notin job'[q].doomed
               /\ \A p \in Instances : Dumping(p)' => job'[p].file \notin job'[q].doomed
    <3>1. q # r /\ job'[q] = job[q] /\ Removing(q)
      BY <1>5, <1>6, <2>3 DEF Removing
    <3>2. \A p \in Instances \ {r} : Dumping(p)' => job'[p].file \notin job'[q].doomed
      BY <1>6, <1>7, <2>1, <3>1 DEF Spared
    <3>3. job'[r].file \notin job'[q].doomed
      BY <1>5, <1>6, <1>10
    <3> QED BY <1>3, <2>1, <3>1, <3>2, <3>3 DEF Spared
  <2> QED BY <1>3, <2>2, <2>3 DEF Spared
<1> QED BY <1>13, <1>15 DEF KeptInvariant

\* A dump ends with its file whole, cut, removed or lost; the last whole dump is another one,
\* or this one if it is whole, and then the file is the newest.
LEMMA EndsKeeps ==
    ASSUME KeptInvariant, NEW r \in Instances, Dumping(r),
           NEW j \in Jobs(SUBSET Nat), j.at = "rotate", j.doomed \subseteq 1..stamp,
           job' = [job EXCEPT ![r] = j], UNCHANGED <<stamp>>,
           \/ /\ files' = Touched(job[r].file) /\ whole' = whole \cup {job[r].file}
              /\ latest' = job[r].file /\ torn' = torn
           \/ /\ files' = Touched(job[r].file) /\ UNCHANGED <<whole, latest>> /\ torn'
           \/ /\ files' = Without({job[r].file}) /\ UNCHANGED <<whole, latest, torn>>
           \/ UNCHANGED <<files, whole, latest, torn>> /\ job[r].file \notin DOMAIN files
    PROVE  KeptInvariant'
<1>1. FilesTyped
  BY DEF KeptInvariant
<1> DEFINE f == job[r].file
<1>2. f \in 1..stamp /\ f > 0 /\ f \notin whole /\ stamp \in Nat
  BY <1>1 DEF FilesTyped
<1>3. f = job[r].file
  OBVIOUS
<1> HIDE DEF f
<1>4. files' = Touched(f) \/ files' = Without({f}) \/ (files' = files /\ f \notin DOMAIN files)
  BY <1>3
<1>5. InOrder' /\ DOMAIN files' \subseteq 1..stamp /\ DOMAIN files \ {f} \subseteq DOMAIN files'
  <2>1. CASE files' = Touched(f)
    <3>1. DOMAIN files' = DOMAIN files \cup {f} /\ InOrder'
      BY <1>1, <2>1, TouchedKeeps DEF FilesTyped
    <3>2. DOMAIN files \subseteq 1..stamp
      BY <1>1 DEF FilesTyped
    <3> QED BY <1>2, <3>1, <3>2
  <2>2. CASE files' = Without({f})
    BY <1>1, <1>2, <2>2, WithoutKeeps DEF FilesTyped
  <2>3. CASE files' = files
    BY <1>1, <2>3 DEF FilesTyped, InOrder
  <2> QED BY <1>4, <2>1, <2>2, <2>3
<1>6. whole' \subseteq DOMAIN files' /\ \A g \in whole' : g \in whole \/ g = f
  <2>1. CASE files' = Touched(f)
    <3>1. f \in DOMAIN files'
      BY <1>1, <2>1, TouchedKeeps DEF FilesTyped
    <3> QED BY <1>1, <1>3, <1>5, <3>1 DEF FilesTyped
  <2>2. CASE whole' = whole
    <3>1. whole \subseteq DOMAIN files
      BY <1>1 DEF FilesTyped
    <3>2. DOMAIN files \ {f} \subseteq DOMAIN files' /\ f \notin whole
      BY <1>2, <1>5
    <3> QED BY ONLY <2>2, <3>1, <3>2
  <2> QED BY <1>3, <2>1, <2>2
<1>7. latest' \in 0..stamp
  BY <1>1, <1>2, <1>3 DEF FilesTyped
<1>8. j.at \notin {"pgDump", "dockerDump"}
  OBVIOUS
<1>9. \A g \in whole' : g \in whole \/ (Dumping(r) /\ g = job[r].file)
  BY <1>3, <1>6
<1>10. /\ FilesTyped' /\ job'[r] = j /\ ~Dumping(r)'
       /\ \A q \in Instances \ {r} : job'[q] = job[q] /\ (Dumping(q)' <=> Dumping(q))
  BY <1>1, <1>5, <1>6, <1>7, <1>8, <1>9, JobSettles
<1>11. Written \subseteq Written' \cup {f}
  BY <1>3, <1>10 DEF Written
<1>12. ASSUME ~torn' PROVE Spared'
  <2>1. Spared
    BY <1>12 DEF KeptInvariant
  <2>2. \A q \in Instances : Removing(q)' => q # r /\ job'[q] = job[q] /\ Removing(q)
    BY <1>10 DEF Removing
  <2>3. \A p, q \in Instances : Removing(q)' /\ Dumping(p)' => job'[p].file \notin job'[q].doomed
    BY <1>10, <2>1, <2>2 DEF Spared
  <2>4. \A q \in Instances : Removing(q)' => f \notin job'[q].doomed
    BY <1>3, <2>1, <2>2 DEF Spared
  <2>5. CASE latest' = f /\ files' = Touched(f) /\ whole' = whole \cup {f}
    <3>1. files'[latest'] = {} /\ latest' \in whole'
      BY <1>1, <2>5, TouchedKeeps DEF FilesTyped
    <3> QED BY <2>3, <2>4, <2>5, <3>1 DEF Spared
  <2>6. CASE /\ latest' = latest /\ whole' = whole
             /\ files' = Without({f}) \/ (files' = files /\ f \notin DOMAIN files)
    <3>1. ASSUME latest > 0 PROVE latest \in whole' /\ files'[latest] \subseteq Written'
      <4>1. latest \in whole /\ files[latest] \subseteq Written /\ latest \in DOMAIN files
        BY <1>1, <2>1, <3>1 DEF Spared, FilesTyped
      <4>2. files'[latest] \subseteq files[latest] \ {f}
        <5>1. CASE files' = Without({f})
          BY <1>2, <4>1, <5>1 DEF Without
        <5>2. CASE files' = files /\ f \notin DOMAIN files
          BY <1>1, <4>1, <5>2 DEF FilesTyped, InOrder
        <5> QED BY <2>6, <5>1, <5>2
      <4> QED BY <1>11, <2>6, <4>1, <4>2
    <3>2. \A q \in Instances : Removing(q)' => latest' \notin job'[q].doomed
      BY <2>1, <2>2, <2>6 DEF Spared
    <3> QED BY <2>3, <2>6, <3>1, <3>2 DEF Spared
  <2> QED BY <1>3, <1>12, <2>5, <2>6
<1> QED BY <1>10, <1>12 DEF KeptInvariant

\* The second attempt of a dump writes the same file again.
LEMMA RetryKeeps ==
    ASSUME KeptInvariant, NEW r \in Instances, job[r].at = "pgDump",
           job' = [job EXCEPT ![r].at = "dockerDump"], files' = Touched(job[r].file),
           UNCHANGED <<whole, stamp, latest, torn>>
    PROVE  KeptInvariant'
<1>1. FilesTyped
  BY DEF KeptInvariant
<1> DEFINE f == job[r].file
<1> DEFINE j == [job[r] EXCEPT !.at = "dockerDump"]
<1>2. f \in 1..stamp /\ f \notin whole /\ Dumping(r)
  BY <1>1 DEF FilesTyped, Dumping
<1>3. j \in Jobs(SUBSET Nat) /\ j.at = "dockerDump" /\ j.file = f /\ j.doomed = job[r].doomed
  <2>1. "dockerDump" \in Stages
    BY DEF Stages
  <2> QED BY <1>1, <2>1, StagesTyped
<1>4. job' = [job EXCEPT ![r] = j] /\ files' = Touched(f) /\ f = job[r].file
  OBVIOUS
<1> HIDE DEF f, j
<1>5. /\ job'[r] = j /\ \A q \in Instances \ {r} : job'[q] = job[q]
      /\ job' \in [Instances -> Jobs(SUBSET Nat)]
  BY <1>1, <1>3, <1>4 DEF FilesTyped
<1>6. \A q \in Instances :
        /\ job'[q].file = job[q].file /\ job'[q].doomed = job[q].doomed
        /\ Dumping(q)' <=> Dumping(q)
        /\ Removing(q)' <=> Removing(q)
  BY <1>2, <1>3, <1>4, <1>5 DEF Dumping, Removing
<1>7. Written' = Written /\ f \in Written
  BY <1>2, <1>4, <1>6 DEF Written
<1>8. /\ DOMAIN files' = DOMAIN files \cup {f} /\ InOrder'
      /\ \A g \in DOMAIN files \ {f} : files'[g] = files[g] \cup {f}
  BY <1>1, <1>4, TouchedKeeps DEF FilesTyped
<1>9. FilesTyped'
  BY <1>1, <1>2, <1>5, <1>6, <1>8 DEF FilesTyped
<1>10. ASSUME ~torn' PROVE Spared'
  <2>1. Spared
    BY <1>10 DEF KeptInvariant
  <2>2. ASSUME latest > 0 PROVE latest \in whole /\ files'[latest] \subseteq Written'
    <3>1. latest \in whole /\ files[latest] \subseteq Written /\ latest \in DOMAIN files \ {f}
      BY <1>1, <1>2, <2>1, <2>2 DEF Spared, FilesTyped
    <3> QED BY <1>7, <1>8, <3>1
  <2> QED BY <1>6, <2>1, <2>2 DEF Spared
<1> QED BY <1>9, <1>10 DEF KeptInvariant

\* The administrator's clean-up, which holds no list of files across steps.
LEMMA CleanupKeeps ==
    ASSUME KeptInvariant, CleanupOldBackups PROVE KeptInvariant'
<1>1. FilesTyped
  BY DEF KeptInvariant
<1>2. PICK gone \in Surplus : files' = Without(gone) /\ whole' = whole \ gone
  BY DEF CleanupOldBackups
<1>3. UNCHANGED <<job, stamp, latest>> /\ torn' = (torn \/ Written # {})
  BY DEF CleanupOldBackups
<1>4. /\ DOMAIN files' = DOMAIN files \ gone /\ InOrder'
      /\ \A f \in DOMAIN files' : files'[f] \subseteq files[f]
  BY <1>1, <1>2, WithoutKeeps DEF FilesTyped
<1>5. FilesTyped'
  BY <1>1, <1>2, <1>3, <1>4 DEF FilesTyped, Dumping
<1>6. ASSUME ~torn' PROVE Spared'
  <2>1. Spared /\ Written = {} /\ Written' = Written
    BY <1>3, <1>6 DEF KeptInvariant, Written, Dumping
  <2>2. latest \notin gone
    BY <1>1, <2>1, SurplusSpares
  <2>3. ASSUME latest > 0 PROVE latest \in whole' /\ files'[latest] \subseteq Written'
    <3>1. latest \in whole' /\ files[latest] \subseteq Written
      BY <1>2, <2>1, <2>2, <2>3 DEF Spared
    <3>2. latest \in DOMAIN files'
      BY <1>2, <1>5, <3>1, <1>3 DEF FilesTyped
    <3> QED BY <1>4, <2>1, <3>1, <3>2
  <2> QED BY <1>3, <2>1, <2>3 DEF Spared, Removing, Dumping
<1> QED BY <1>5, <1>6 DEF KeptInvariant

LEMMA SettlesKeeps ==
    ASSUME KeptInvariant, NEW r \in Instances, NEW j \in {Idle, Down},
           job' = [job EXCEPT ![r] = j], Dumping(r) => torn', torn => torn',
           UNCHANGED <<files, whole, stamp, latest>>
    PROVE  KeptInvariant'
<1>1. FilesTyped
  BY DEF KeptInvariant
<1>2. j \in Jobs(SUBSET Nat) /\ j.at \in {"idle", "down"} /\ j.doomed = {}
  BY <1>1, StagesTyped
<1>3. InOrder' /\ whole' = whole /\ whole' \subseteq DOMAIN files' /\ DOMAIN files' \subseteq 1..stamp
      /\ latest' \in 0..stamp
  BY <1>1 DEF FilesTyped, InOrder
<1>4. j.at \notin {"pgDump", "dockerDump"} /\ j.doomed \subseteq 1..stamp
  BY <1>2
<1>5. /\ FilesTyped' /\ job'[r] = j /\ ~Dumping(r)'
      /\ \A q \in Instances \ {r} : job'[q] = job[q] /\ (Dumping(q)' <=> Dumping(q))
  BY <1>1, <1>2, <1>3, <1>4, JobSettles
<1>6. ASSUME ~torn' PROVE Spared'
  <2>1. Spared /\ ~Dumping(r)
    BY <1>6 DEF KeptInvariant
  <2>2. Written' = Written
    BY <1>5, <2>1 DEF Written
  <2>3. \A q \in Instances : Removing(q)' => job'[q] = job[q] /\ Removing(q)
    BY <1>2, <1>5 DEF Removing
  <2>4. \A q \in Instances : Dumping(q)' => job'[q] = job[q] /\ Dumping(q)
    BY <1>5
  <2> QED BY <2>1, <2>2, <2>3, <2>4 DEF Spared
<1> QED BY <1>5, <1>6 DEF KeptInvariant

LEMMA KeptStep ==
    ASSUME KeptInvariant, [BackupNext]_backupVars PROVE KeptInvariant'
<1>1. FilesTyped
  BY DEF KeptInvariant
<1>2. ASSUME NEW r \in Instances, StartProcess(r) \/ BackupRotate(r) PROVE KeptInvariant'
  <2>1. Down.at = "down"
    BY DEF Down
  <2>2. PICK next \in {"starting", "remove"} : Rotates(r, next)
    BY <1>2 DEF StartProcess, BackupRotate
  <2>3. ~Dumping(r) /\ UNCHANGED <<files, whole, stamp, latest>>
    BY <1>2, <2>1 DEF StartProcess, BackupRotate, Dumping
  <2> QED BY <2>2, <2>3, RotatesKeeps
<1>3. ASSUME NEW r \in Instances, StartRemoves(r) PROVE KeptInvariant'
  <2>1. /\ Removing(r) /\ RemoveDoomed(r) /\ job' = [job EXCEPT ![r] = Idle]
        /\ UNCHANGED <<stamp, latest, torn>>
    BY <1>3 DEF StartRemoves, Removing
  <2>2. Idle \in Jobs(SUBSET Nat) /\ Idle.at \in {"idle", "unlock"} /\ Idle.doomed \subseteq 1..stamp
    BY <1>1, StagesTyped
  <2> QED BY <2>1, <2>2, RemovesKeeps
<1>4. ASSUME NEW r \in Instances, RotateRemoves(r) PROVE KeptInvariant'
  <2> DEFINE j == [job[r] EXCEPT !.at = "unlock"]
  <2>1. /\ Removing(r) /\ RemoveDoomed(r) /\ job' = [job EXCEPT ![r] = j]
        /\ UNCHANGED <<stamp, latest, torn>>
    BY <1>4 DEF RotateRemoves, Removing
  <2>2. j \in Jobs(SUBSET Nat) /\ j.at = "unlock" /\ j.doomed = job[r].doomed
    <3>1. "unlock" \in Stages
      BY DEF Stages
    <3> QED BY <1>1, <3>1, StagesTyped
  <2> HIDE DEF j
  <2>3. j.at \in {"idle", "unlock"} /\ j.doomed \subseteq 1..stamp
    BY <1>1, <2>2 DEF FilesTyped
  <2> QED BY <2>1, <2>2, <2>3, RemovesKeeps
<1>5. ASSUME NEW r \in Instances, AutoBackupDatabase(r) PROVE KeptInvariant'
  BY <1>5, BeginsKeeps
<1>6. ASSUME NEW r \in Instances,
             \/ DumpDone(r) \/ DumpLost(r) \/ DumpCut(r)
             \/ DumpFails(r) /\ job[r].at = "dockerDump"
      PROVE  KeptInvariant'
  <2> DEFINE j == [job[r] EXCEPT !.at = "rotate"]
  <2>1. Dumping(r) /\ job' = [job EXCEPT ![r] = j] /\ UNCHANGED stamp
    BY <1>6 DEF DumpDone, DumpLost, DumpCut, DumpFails, Dumping
  <2>2. j \in Jobs(SUBSET Nat) /\ j.at = "rotate" /\ j.doomed = job[r].doomed
    <3>1. "rotate" \in Stages
      BY DEF Stages
    <3> QED BY <1>1, <3>1, StagesTyped
  <2>3. j.doomed \subseteq 1..stamp
    BY <1>1, <2>2 DEF FilesTyped
  <2> HIDE DEF j
  <2>4. \/ /\ files' = Touched(job[r].file) /\ whole' = whole \cup {job[r].file}
           /\ latest' = job[r].file /\ torn' = torn
        \/ /\ files' = Touched(job[r].file) /\ UNCHANGED <<whole, latest>> /\ torn'
        \/ /\ files' = Without({job[r].file}) /\ UNCHANGED <<whole, latest, torn>>
        \/ UNCHANGED <<files, whole, latest, torn>> /\ job[r].file \notin DOMAIN files
    BY <1>6 DEF DumpDone, DumpLost, DumpCut, DumpFails, Removed
  <2> QED BY <2>1, <2>2, <2>3, <2>4, EndsKeeps
<1>7. ASSUME NEW r \in Instances, DumpFails(r), job[r].at # "dockerDump" PROVE KeptInvariant'
  <2>1. /\ job[r].at = "pgDump" /\ job' = [job EXCEPT ![r].at = "dockerDump"]
        /\ files' = Touched(job[r].file) /\ UNCHANGED <<whole, stamp, latest, torn>>
    BY <1>7 DEF DumpFails
  <2> QED BY <2>1, RetryKeeps
<1>8. ASSUME NEW r \in Instances, Unlock(r) \/ ProcessDies(r) PROVE KeptInvariant'
  <2>1. PICK j \in {Idle, Down} : job' = [job EXCEPT ![r] = j]
    BY <1>8 DEF Unlock, ProcessDies
  <2>2. UNCHANGED <<files, whole, stamp, latest>>
    BY <1>8 DEF Unlock, ProcessDies
  <2>3. (Dumping(r) => torn') /\ (torn => torn')
    <3>1. CASE Unlock(r)
      BY <3>1 DEF Unlock, Dumping
    <3>2. CASE ProcessDies(r)
      BY <3>2, Zenon DEF ProcessDies
    <3> QED BY <1>8, <3>1, <3>2
  <2> QED BY <2>1, <2>2, <2>3, SettlesKeeps
<1>9. ASSUME UNCHANGED <<job, files, whole, stamp, latest, torn>> PROVE KeptInvariant'
  BY <1>9 DEF KeptInvariant, FilesTyped, Spared, InOrder, Dumping, Removing, Written
<1>10. ASSUME NEW r \in Instances, LockLapses(r) \/ LeftLockLapses(r) PROVE KeptInvariant'
  BY <1>9, <1>10 DEF LockLapses, LeftLockLapses
<1>11. CASE UNCHANGED backupVars
  BY <1>9, <1>11 DEF backupVars
<1>12. CASE CleanupOldBackups
  BY <1>12, CleanupKeeps
<1> QED
  BY <1>2, <1>3, <1>4, <1>5, <1>6, <1>7, <1>8, <1>10, <1>11, <1>12 DEF BackupNext, BackupWork

LEMMA KeptHolds == BackupSpec => []KeptInvariant
<1>1. BackupInit => KeptInvariant
  <2> SUFFICES ASSUME BackupInit PROVE KeptInvariant
    OBVIOUS
  <2>1. /\ job = [r \in Instances |-> Down] /\ files = [f \in {} |-> {}]
        /\ whole = {} /\ stamp = 0 /\ latest = 0
    BY DEF BackupInit
  <2>2. Down \in Jobs(SUBSET Nat) /\ Down.at = "down" /\ Down.doomed = {}
    BY DEF Down, Jobs, Stages
  <2>3. \A r \in Instances : ~Dumping(r) /\ ~Removing(r)
    BY <2>1, <2>2 DEF Dumping, Removing
  <2>4. FilesTyped
    BY <2>1, <2>2, <2>3 DEF FilesTyped, InOrder
  <2>5. Spared
    BY <2>1, <2>3 DEF Spared
  <2> QED BY <2>4, <2>5 DEF KeptInvariant
<1> QED BY <1>1, KeptStep, PTL DEF BackupSpec

\* Whatever dumps fail, whoever rotates or cleans up, the last whole dump is in the directory
\* as long as no dump was torn, for any number of processes, files and faults.
THEOREM LatestDumpsAreKept == BackupSpec => []LatestDumpIsKept
<1>1. KeptInvariant => LatestDumpIsKept
  BY DEF KeptInvariant, Spared, LatestDumpIsKept
<1> QED BY <1>1, KeptHolds, PTL

BackupRest ==
    /\ overran \subseteq Instances /\ torn \in BOOLEAN
    /\ backupScope \in [ops : SUBSET Mishaps, faults : Nat, dumps : Nat]

LEMMA BackupRestStep ==
    ASSUME BackupRest, [BackupNext]_backupVars PROVE BackupRest'
<1>1. ASSUME NEW op, Mishap(op)
      PROVE  backupScope' \in [ops : SUBSET Mishaps, faults : Nat, dumps : Nat]
  <2>1. backupScope.faults > 0 /\ backupScope' = [backupScope EXCEPT !.faults = @ - 1]
    BY <1>1 DEF Mishap
  <2>2. backupScope \in [ops : SUBSET Mishaps, faults : Nat, dumps : Nat]
    BY DEF BackupRest
  <2> QED BY ONLY <2>1, <2>2
<1>2. backupScope' \in [ops : SUBSET Mishaps, faults : Nat, dumps : Nat]
  <2>1. ASSUME NEW r \in Instances, BackupWork(r) \/ LeftLockLapses(r)
        PROVE  backupScope' = backupScope
    BY <2>1 DEF BackupWork, StartProcess, StartRemoves, AutoBackupDatabase, DumpDone, DumpLost,
        BackupRotate, RotateRemoves, Unlock, LeftLockLapses
  <2>2. ASSUME NEW r \in Instances,
               DumpCut(r) \/ DumpFails(r) \/ LockLapses(r) \/ ProcessDies(r)
        PROVE  \E op : Mishap(op)
    BY <2>2 DEF DumpCut, DumpFails, LockLapses, ProcessDies
  <2>3. CASE CleanupOldBackups
    BY <1>1, <2>3 DEF CleanupOldBackups
  <2>4. CASE UNCHANGED backupVars
    BY <2>4 DEF backupVars, BackupRest
  <2> QED BY <1>1, <2>1, <2>2, <2>3, <2>4 DEF BackupNext, BackupRest
<1>3. overran' \subseteq Instances
  <2>1. ASSUME NEW r \in Instances, BackupSteps(r)
        PROVE  overran' \in {overran, overran \ {r}, overran \cup {r}}
    BY <2>1 DEF BackupSteps, BackupWork, StartProcess, StartRemoves, AutoBackupDatabase, DumpDone,
        DumpLost, BackupRotate, RotateRemoves, Unlock, LeftLockLapses, DumpCut, DumpFails,
        LockLapses, ProcessDies
  <2>2. CASE CleanupOldBackups \/ UNCHANGED backupVars
    BY <2>2 DEF CleanupOldBackups, backupVars, BackupRest
  <2> QED BY <2>1, <2>2 DEF BackupNext, BackupSteps, BackupRest
<1>4. torn' \in BOOLEAN
  <2>1. ASSUME NEW r \in Instances, BackupSteps(r)
        PROVE  \/ torn' = torn \/ torn' = TRUE
               \/ torn' = (torn \/ Dumping(r))
               \/ torn' = (torn \/ \E q \in Instances \ {r} : Dumping(q))
    BY <2>1, Zenon DEF BackupSteps, BackupWork, StartProcess, StartRemoves, AutoBackupDatabase,
        DumpDone, DumpLost, BackupRotate, RotateRemoves, Unlock, LeftLockLapses, DumpCut,
        DumpFails, LockLapses, ProcessDies, Rotates
  <2>2. CASE CleanupOldBackups
    BY <2>2, Zenon DEF CleanupOldBackups
  <2>3. CASE UNCHANGED backupVars
    BY <2>3 DEF backupVars, BackupRest
  <2>4. torn \in BOOLEAN
    BY DEF BackupRest
  <2>5. ASSUME NEW r \in Instances, BackupSteps(r) PROVE torn' \in BOOLEAN
    BY <2>1, <2>4, <2>5, Zenon
  <2> QED BY <2>2, <2>3, <2>5 DEF BackupNext, BackupSteps
<1> QED BY <1>2, <1>3, <1>4 DEF BackupRest

\* The jobs, the lock, the files in their order and the whole ones among them keep their types.
THEOREM BackupsAreTyped == BackupSpec => []BackupTypeOK
<1>1. BackupInit => BackupRest
  BY BackupAssumption DEF BackupInit, BackupRest
<1>2. LockInvariant /\ KeptInvariant /\ BackupRest => BackupTypeOK
  BY DEF LockInvariant, JobTyped, KeptInvariant, FilesTyped, BackupRest, BackupTypeOK, Jobs
<1> QED BY <1>1, <1>2, LockInvariantHolds, KeptHolds, BackupRestStep, PTL DEF BackupSpec

-----------------------------------------------------------------------------
(* SelfUpdate                                                              *)

\* What the stages of an update rely on in the repository: before the reset nothing that has
\* to be kept is in the tree alone, a stash that will be popped is there and meets a clean
\* tree, and what a conflict left in the tree is also in a stash or in the remote branch.
TreeInvariant ==
    /\ update.at \in {"fetch", "sync"}
         => history.entrusted \ history.unseen \subseteq pushed \cup UNION ToSet(stashes)
    /\ update.at = "pop" => tree = {} /\ ~conflict
    /\ update.at \in {"fetch", "sync", "pop"} /\ update.stashed => stashes # <<>>
    /\ update.at \in {"none", "check"} => ~update.stashed
    /\ update.at = "pop" => update.stashed
    /\ conflict => history.entrusted \ history.unseen \subseteq pushed \cup UNION ToSet(stashes)
    /\ EditsKept

-----------------------------------------------------------------------------
LEMMA StashPushed ==
    ASSUME NEW S, NEW s \in Seq(S), NEW e \in S
    PROVE  /\ <<e>> \o s \in Seq(S) /\ <<e>> \o s # <<>>
           /\ UNION ToSet(<<e>> \o s) = e \cup UNION ToSet(s)
<1> DEFINE t == <<e>> \o s
<1>1. /\ t \in Seq(S) /\ t # <<>> /\ Len(t) = Len(s) + 1 /\ Len(s) \in Nat
      /\ DOMAIN t = 1..Len(t) /\ DOMAIN s = 1..Len(s)
      /\ t[1] = e /\ \A i \in 1..Len(s) : t[i + 1] = s[i]
  OBVIOUS
<1> HIDE DEF t
<1>2. ToSet(t) \subseteq {e} \cup ToSet(s)
  <2> SUFFICES ASSUME NEW i \in 1..Len(t) PROVE t[i] \in {e} \cup ToSet(s)
    BY <1>1 DEF ToSet
  <2>1. i = 1 \/ (i - 1 \in 1..Len(s) /\ t[i] = s[i - 1])
    BY <1>1
  <2> QED BY <1>1, <2>1 DEF ToSet
<1>3. ToSet(s) \subseteq ToSet(t)
  <2> SUFFICES ASSUME NEW i \in 1..Len(s) PROVE s[i] \in ToSet(t)
    BY <1>1 DEF ToSet
  <2>1. i + 1 \in 1..Len(t) /\ s[i] = t[i + 1]
    BY <1>1
  <2> QED BY <1>1, <2>1 DEF ToSet
<1>4. e \in ToSet(t)
  BY <1>1 DEF ToSet
<1>5. ToSet(t) = {e} \cup ToSet(s)
  BY <1>2, <1>3, <1>4
<1>6. UNION ToSet(t) = e \cup UNION ToSet(s)
  BY <1>5
<1> QED BY <1>1, <1>6 DEF t

\* A stash that is not empty is its head pushed on its tail.
LEMMA StashPopped ==
    ASSUME NEW S, NEW s \in Seq(S), s # <<>>
    PROVE  /\ Tail(s) \in Seq(S) /\ Head(s) \in S
           /\ UNION ToSet(s) = Head(s) \cup UNION ToSet(Tail(s))
<1>1. Tail(s) \in Seq(S) /\ Head(s) \in S /\ s = <<Head(s)>> \o Tail(s)
  OBVIOUS
<1> QED BY <1>1, StashPushed

\* Each step of the update keeps the types; a stash that is popped is there.
LEMMA UpdateTypedStep ==
    ASSUME UpdateTypeOK, TreeInvariant, [UpdateNext]_updateVars
    PROVE  UpdateTypeOK'
<1> USE UpdateAssumption DEF UpdateTypeOK, Histories
<1>p. /\ Parts = {"panel", "frontend"} /\ Commits = 0..MaxCommits
      /\ Reports = {"undone", "ok", "failed"}
      /\ UpdateStages = {"none", "check", "fetch", "sync", "pop", "build", "publish", "launch"}
  BY DEF Parts, Commits, Reports, UpdateStages
<1>c. \A c \in Commits : c < MaxCommits => c + 1 \in Commits
  BY <1>p
<1>h. \A op : Upset(op) => agenda' \in [ops : SUBSET Upsets, faults : Nat, updates : Nat]
  <2>1. agenda \in [ops : SUBSET Upsets, faults : Nat, updates : Nat]
    OBVIOUS
  <2> HIDE DEF UpdateTypeOK
  <2> SUFFICES ASSUME NEW op, Upset(op)
               PROVE  agenda' \in [ops : SUBSET Upsets, faults : Nat, updates : Nat]
    OBVIOUS
  <2>2. agenda.faults - 1 \in Nat /\ agenda' = [agenda EXCEPT !.faults = @ - 1]
    BY <2>1 DEF Upset
  <2> QED BY ONLY <2>1, <2>2
<1>1. CASE \E e \in Edits : EditByHand(e)
  BY <1>1 DEF EditByHand, reportVars, serviceVars
<1>2. CASE CommitUpstream
  <2>1. repo.last + 1 \in Commits /\ repo' = [repo EXCEPT !.remote = repo.last + 1, !.last = @ + 1]
    BY <1>2, <1>c DEF CommitUpstream
  <2>2. repo' \in [remote : Commits, origin : Commits, head : Commits, last : Commits]
    BY <2>1
  <2> QED BY <1>2, <2>2 DEF CommitUpstream, reportVars, serviceVars
<1>3. CASE GitPush
  <2>1. repo.last + 1 \in Commits
    BY <1>3, <1>c DEF GitPush
  <2>2. /\ \/ repo' = [remote |-> repo.last + 1, origin |-> repo.last + 1,
                       head |-> repo.last + 1, last |-> repo.last + 1]
           \/ repo' = [repo EXCEPT !.head = repo.last + 1, !.last = @ + 1]
        /\ history' = history \/ history' = [history EXCEPT !.entrusted = @ \ tree]
        /\ agenda' \in [ops : SUBSET Upsets, faults : Nat, updates : Nat]
    BY <1>3, <1>h DEF GitPush
  <2>3. repo' \in [remote : Commits, origin : Commits, head : Commits, last : Commits]
    <3>1. [repo EXCEPT !.head = repo.last + 1, !.last = @ + 1]
            \in [remote : Commits, origin : Commits, head : Commits, last : Commits]
      BY <2>1
    <3>2. [remote |-> repo.last + 1, origin |-> repo.last + 1,
           head |-> repo.last + 1, last |-> repo.last + 1]
            \in [remote : Commits, origin : Commits, head : Commits, last : Commits]
      BY <2>1
    <3> HIDE DEF UpdateTypeOK
    <3> QED BY <2>2, <3>1, <3>2
  <2>4. history' \in Histories
    <3>1. history \in Histories /\ [history EXCEPT !.entrusted = @ \ tree] \in Histories
      OBVIOUS
    <3> HIDE DEF UpdateTypeOK, Histories
    <3> QED BY <2>2, <3>1
  <2> QED BY <1>3, <2>2, <2>3, <2>4 DEF GitPush, reportVars, serviceVars
<1>r. \A r \in Reports : Report(r) => /\ told' \in Reports
                                     /\ state' \in [says : Reports \cup {"absent"}, old : BOOLEAN]
  BY DEF Report
<1>4. CASE GitPull
  <2>1. update' \in [at : UpdateStages, stashed : BOOLEAN]
    BY <1>4, <1>p DEF GitPull, UpdateGoto
  <2>4. agenda' \in [ops : SUBSET Upsets, faults : Nat, updates : Nat]
    BY <1>4 DEF GitPull
  <2>2. history' \in Histories
    BY <1>4 DEF GitPull
  <2>3. told' \in Reports /\ state' \in [says : Reports \cup {"absent"}, old : BOOLEAN]
    BY <1>4, <1>p, <1>r DEF GitPull
  <2> QED BY <1>4, <2>1, <2>2, <2>3, <2>4 DEF GitPull, repoVars, serviceVars
<1>5. CASE Precheck
  <2>1. update' \in [at : UpdateStages, stashed : BOOLEAN]
    <3>1. update' \in {[at |-> "fetch", stashed |-> TRUE], [update EXCEPT !.at = "fetch"]}
      BY <1>5 DEF Precheck, UpdateGoto
    <3>2. [at |-> "fetch", stashed |-> TRUE] \in [at : UpdateStages, stashed : BOOLEAN]
      BY <1>p
    <3>3. [update EXCEPT !.at = "fetch"] \in [at : UpdateStages, stashed : BOOLEAN]
      BY <1>p
    <3> QED BY <3>1, <3>2, <3>3
  <2>2. <<tree>> \o stashes \in Seq(SUBSET Edits)
    BY StashPushed
  <2> QED BY <1>5, <2>1, <2>2 DEF Precheck, serviceVars
<1>25. CASE StatusFails
  <2>1. update' \in [at : UpdateStages, stashed : BOOLEAN] /\ history' \in Histories
    BY <1>25, <1>p DEF StatusFails, UpdateGoto
  <2> QED BY <1>25, <1>h, <2>1 DEF StatusFails, repoVars, serviceVars
<1>6. CASE PrecheckFails
  BY <1>6, <1>p, <1>h DEF PrecheckFails, NoUpdate, repoVars, serviceVars
<1>7. CASE Fetch
  BY <1>7, <1>p DEF Fetch, UpdateGoto, reportVars, serviceVars
<1>8. CASE FetchFails
  BY <1>8, <1>p, <1>h DEF FetchFails, NoUpdate, SetPullDone, Report, repoVars, serviceVars
<1>9. CASE ResetToOrigin
  BY <1>9, <1>p DEF ResetToOrigin, UpdateGoto, reportVars, serviceVars
<1>10. CASE StashPop \/ StashPopFails
  <2>1. update' \in [at : UpdateStages, stashed : BOOLEAN]
    BY <1>10, <1>p DEF StashPop, StashPopFails, UpdateGoto
  <2>2. stashes # <<>>
    BY <1>10 DEF StashPop, StashPopFails, UpdateAt, TreeInvariant
  <2>3. Tail(stashes) \in Seq(SUBSET Edits) /\ Head(stashes) \in SUBSET Edits
    BY <2>2, StashPopped
  <2> QED BY <1>10, <1>h, <2>1, <2>3 DEF StashPop, StashPopFails, reportVars, serviceVars
<1>11. CASE ComposeBuild
  BY <1>11, <1>p DEF ComposeBuild, Built, Both, UpdateGoto, repoVars, reportVars
<1>12. CASE BuildTakesLong
  BY <1>12, <1>h DEF BuildTakesLong, repoVars, serviceVars
<1>13. CASE ComposeBuildFails
  BY <1>13, <1>p, <1>h DEF ComposeBuildFails, NoUpdate, SetPullDone, Report, repoVars
<1>14. CASE Publish
  BY <1>14, <1>p DEF Publish, UpdateGoto, SetPullDone, Report, repoVars
<1>15. CASE LaunchHelper
  BY <1>15, <1>p DEF LaunchHelper, NoUpdate, repoVars, reportVars
<1>24. CASE LaunchHelperFails
  BY <1>24, <1>p, <1>h, <1>r DEF LaunchHelperFails, NoUpdate, SetPullDone, repoVars
<1>16. CASE UpdatePanics
  <2>1. told' \in Reports /\ state' \in [says : Reports \cup {"absent"}, old : BOOLEAN]
    BY <1>16, <1>p, <1>r DEF UpdatePanics, Fallback
  <2> QED BY <1>16, <1>p, <1>h, <2>1 DEF UpdatePanics, NoUpdate, repoVars, serviceVars
<1>17. CASE GitPullClearLog \/ CleanUpdateLogs
  <2>1. told' \in Reports
    BY <1>17, <1>p DEF GitPullClearLog, CleanUpdateLogs
  <2>2. state' = [says |-> "absent", old |-> FALSE]
    BY <1>17 DEF GitPullClearLog, CleanUpdateLogs
  <2>3. state' \in [says : Reports \cup {"absent"}, old : BOOLEAN]
    BY <2>2
  <2> QED BY <1>17, <2>1, <2>3 DEF GitPullClearLog, CleanUpdateLogs, repoVars, serviceVars
<1>18. CASE HelperFrontend
  BY <1>18, <1>p DEF HelperFrontend, repoVars, reportVars
<1>d. /\ Died \in Histories
      /\ PanelRestarts => /\ update' \in [at : UpdateStages, stashed : BOOLEAN]
                          /\ told' \in Reports
  <2>1. Died \in Histories
    BY DEF Died
  <2>2. ASSUME PanelRestarts
        PROVE  update' \in [at : UpdateStages, stashed : BOOLEAN] /\ told' \in Reports
    BY <2>2, <1>p DEF PanelRestarts, NoUpdate
  <2> QED BY <2>1, <2>2
<1>19. CASE HelperPanel
  <2>1. /\ update' \in [at : UpdateStages, stashed : BOOLEAN] /\ told' \in Reports
        /\ history' \in Histories
    BY <1>19, <1>d DEF HelperPanel
  <2> QED BY <1>19, <1>p, <2>1 DEF HelperPanel, repoVars
<1>20. CASE HelperFails
  BY <1>20, <1>h DEF HelperFails, repoVars, reportVars
<1>21. CASE PanelDies
  <2>1. /\ update' \in [at : UpdateStages, stashed : BOOLEAN] /\ told' \in Reports
        /\ history' \in Histories
    BY <1>21, <1>d DEF PanelDies
  <2> QED BY <1>21, <1>h, <2>1 DEF PanelDies, repoVars, serviceVars
<1>22. CASE CheckVersionConsistency
  BY <1>22 DEF CheckVersionConsistency, repoVars, serviceVars
<1>23. CASE UNCHANGED updateVars
  BY <1>23 DEF updateVars, repoVars, reportVars, serviceVars
<1> QED
  BY <1>1, <1>2, <1>3, <1>4, <1>5, <1>6, <1>7, <1>8, <1>9, <1>10, <1>11, <1>12, <1>13,
     <1>14, <1>15, <1>24, <1>25, <1>16, <1>17, <1>18, <1>19, <1>20, <1>21, <1>22, <1>23
  DEF UpdateNext

LEMMA TreeStep ==
    ASSUME UpdateTypeOK, TreeInvariant, [UpdateNext]_updateVars
    PROVE  TreeInvariant'
<1> USE DEF TreeInvariant, EditsKept, Histories
<1>t. /\ stashes \in Seq(SUBSET Edits) /\ tree \in SUBSET Edits
      /\ update \in [at : UpdateStages, stashed : BOOLEAN]
      /\ history \in Histories
      /\ conflict \in BOOLEAN
  BY DEF UpdateTypeOK
<1>q. ASSUME UNCHANGED <<tree, conflict, stashes, pushed>>,
             history'.entrusted = history.entrusted, history'.unseen = history.unseen,
             \/ update' = update \/ update' = NoUpdate
             \/ update'.at \in {"build", "publish", "launch"}
      PROVE  TreeInvariant'
  BY <1>q DEF NoUpdate
<1>1. CASE \E e \in Edits : EditByHand(e)
  BY <1>1 DEF EditByHand, UpdateAt
<1>2. CASE CommitUpstream
  BY <1>2, <1>q DEF CommitUpstream
<1>3. CASE GitPush
  <2>1. /\ tree' = {} /\ conflict' = FALSE /\ UNCHANGED <<stashes, update>>
        /\ \/ pushed' = pushed \cup tree /\ history' = history
           \/ /\ pushed' = pushed /\ history'.entrusted = history.entrusted \ tree
              /\ history'.unseen = history.unseen
    BY <1>3, <1>t DEF GitPush
  <2> QED BY <2>1
<1>4. CASE GitPull
  <2>1. /\ UNCHANGED <<tree, conflict, stashes, pushed>>
        /\ update'.at = "check" /\ update'.stashed = update.stashed /\ update.at = "none"
        /\ history'.entrusted = IF conflict THEN history.entrusted
                                ELSE history.entrusted \cup tree
        /\ history'.unseen = IF conflict THEN history.unseen ELSE history.unseen \ tree
    BY <1>4, <1>t DEF GitPull, UpdateGoto, UpdateAt, repoVars
  <2> QED BY <1>t, <2>1
<1>5. CASE Precheck
  <2>1. CASE MustStash
    <3>1. /\ stashes' = <<tree>> \o stashes /\ tree' = {} /\ pushed' = pushed
          /\ conflict' = conflict /\ ~conflict /\ history' = history
          /\ update' = [at |-> "fetch", stashed |-> TRUE]
      BY <1>5, <2>1 DEF Precheck, MustStash
    <3>2. stashes' # <<>> /\ UNION ToSet(stashes)' = tree \cup UNION ToSet(stashes)
      BY <1>t, <3>1, StashPushed
    <3> QED BY <3>1, <3>2
  <2>2. CASE ~MustStash
    <3>1. /\ tree' = IF conflict THEN {} ELSE tree
          /\ conflict' = FALSE /\ UNCHANGED <<stashes, pushed, history>>
          /\ update' = [update EXCEPT !.at = "fetch"]
          /\ tree' = {} /\ (tree = {} \/ conflict) /\ update.at = "check"
      BY <1>5, <2>2, <1>t DEF Precheck, MustStash, UpdateGoto, UpdateAt
    <3>2. update'.at = "fetch" /\ ~update'.stashed
      BY <1>t, <3>1
    <3> QED BY <3>1, <3>2
  <2> QED BY <2>1, <2>2
<1>24. CASE StatusFails
  <2>1. /\ update.at = "check" /\ update'.at = "fetch" /\ update'.stashed = update.stashed
        /\ UNCHANGED <<tree, conflict, stashes, pushed>>
        /\ history'.entrusted = history.entrusted
        /\ history'.unseen = IF conflict THEN history.unseen ELSE history.unseen \cup tree
    BY <1>24, <1>t DEF StatusFails, UpdateGoto, UpdateAt, repoVars
  <2> QED BY <1>t, <2>1
<1>6. CASE PrecheckFails
  BY <1>6, <1>q DEF PrecheckFails, NoUpdate, repoVars
<1>7. CASE Fetch
  <2>1. /\ UNCHANGED <<tree, conflict, stashes, pushed, history>>
        /\ update.at = "fetch" /\ update'.at = "sync" /\ update'.stashed = update.stashed
    BY <1>7, <1>t DEF Fetch, UpdateGoto, UpdateAt
  <2> QED BY <2>1
<1>8. CASE FetchFails
  BY <1>8, <1>q DEF FetchFails, NoUpdate, repoVars
<1>9. CASE ResetToOrigin
  <2>1. /\ tree' = {} /\ conflict' = FALSE /\ UNCHANGED <<stashes, pushed, history>>
        /\ update.at = "sync" /\ update'.stashed = update.stashed
        /\ update'.at = IF update.stashed THEN "pop" ELSE "build"
    BY <1>9, <1>t DEF ResetToOrigin, UpdateGoto, UpdateAt
  <2> QED BY <1>t, <2>1
<1>10. CASE StashPop \/ StashPopFails
  <2>1. /\ update.at = "pop" /\ update'.at = "build" /\ UNCHANGED <<pushed, history>>
        /\ tree' = tree \cup Head(stashes)
        /\ \/ stashes' = Tail(stashes) /\ conflict' = conflict
           \/ stashes' = stashes
    BY <1>10, <1>t DEF StashPop, StashPopFails, UpdateGoto, UpdateAt
  <2>2. UNION ToSet(stashes) = Head(stashes) \cup UNION ToSet(Tail(stashes))
    BY <1>t, <2>1, StashPopped
  <2>3. /\ tree = {} /\ ~conflict
        /\ history.entrusted \ history.unseen \subseteq pushed \cup UNION ToSet(stashes)
    BY <2>1
  <2>4. CASE stashes' = Tail(stashes) /\ conflict' = conflict
    BY <2>1, <2>2, <2>3, <2>4
  <2>5. CASE stashes' = stashes
    BY <2>1, <2>3, <2>5
  <2> QED BY <2>1, <2>4, <2>5
<1>11. CASE ComposeBuild
  BY <1>11, <1>t, <1>q DEF ComposeBuild, UpdateGoto, repoVars
<1>12. CASE BuildTakesLong
  BY <1>12, <1>q DEF BuildTakesLong, repoVars
<1>13. CASE ComposeBuildFails
  BY <1>13, <1>q DEF ComposeBuildFails, NoUpdate, repoVars
<1>14. CASE Publish
  BY <1>14, <1>t, <1>q DEF Publish, UpdateGoto, repoVars
<1>15. CASE LaunchHelper \/ LaunchHelperFails
  BY <1>15, <1>q DEF LaunchHelper, LaunchHelperFails, NoUpdate, repoVars
<1>16. CASE UpdatePanics
  BY <1>16, <1>t, <1>q DEF UpdatePanics, NoUpdate, repoVars
<1>17. CASE GitPullClearLog \/ CleanUpdateLogs
  BY <1>17, <1>q DEF GitPullClearLog, CleanUpdateLogs, repoVars
<1>18. CASE HelperFrontend
  BY <1>18, <1>q DEF HelperFrontend, repoVars
<1>d. Died.entrusted = history.entrusted /\ Died.unseen = history.unseen
  BY <1>t DEF Died
<1>19. CASE HelperPanel
  BY <1>19, <1>d, <1>q DEF HelperPanel, PanelRestarts, NoUpdate, repoVars
<1>20. CASE HelperFails
  BY <1>20, <1>t, <1>q DEF HelperFails, repoVars
<1>21. CASE PanelDies
  BY <1>21, <1>d, <1>q DEF PanelDies, PanelRestarts, NoUpdate, repoVars
<1>22. CASE CheckVersionConsistency
  BY <1>22, <1>q DEF CheckVersionConsistency, repoVars
<1>23. CASE UNCHANGED updateVars
  BY <1>23, <1>q DEF updateVars, repoVars
<1> QED
  BY <1>1, <1>2, <1>3, <1>4, <1>5, <1>6, <1>7, <1>8, <1>9, <1>10, <1>11, <1>12, <1>13,
     <1>14, <1>15, <1>16, <1>17, <1>18, <1>19, <1>20, <1>21, <1>22, <1>23, <1>24
  DEF UpdateNext

LEMMA UpdateInvariant == UpdateSpec => [](UpdateTypeOK /\ TreeInvariant)
<1>1. ASSUME UpdateInit PROVE UpdateTypeOK
  <2>1. <<>> \in Seq(SUBSET Edits) /\ Both(0) \in [Parts -> Commits] /\ 0 \in Commits
    BY UpdateAssumption DEF Both, Commits
  <2>2. agenda \in [ops : SUBSET Upsets, faults : Nat, updates : Nat]
    BY <1>1, UpdateAssumption DEF UpdateInit
  <2> QED BY <1>1, <2>1, <2>2 DEF UpdateInit, UpdateTypeOK, UpdateStages, Reports, Histories
<1>2. UpdateInit => TreeInvariant
  BY DEF UpdateInit, TreeInvariant, EditsKept
<1>3. UpdateTypeOK /\ TreeInvariant /\ [UpdateNext]_updateVars
        => (UpdateTypeOK /\ TreeInvariant)'
  BY UpdateTypedStep, TreeStep
<1> QED BY <1>1, <1>2, <1>3, PTL DEF UpdateSpec

\* The tree, the stashes, the commits, the reported state and what the containers run keep
\* their types, whatever stage of an update fails or is interrupted.
THEOREM UpdatesAreTyped == UpdateSpec => []UpdateTypeOK
<1> QED BY UpdateInvariant, PTL

\* An edit that an update was trusted with is in the tree, in a stash or in the remote, after
\* any number of updates, pushes, conflicts and failures, unless a failing git status hid it.
THEOREM EditsAreKept == UpdateSpec => []EditsKept
<1>1. TreeInvariant => EditsKept
  BY DEF TreeInvariant
<1> QED BY <1>1, UpdateInvariant, PTL

-----------------------------------------------------------------------------
\* How far a success has come: until it is reported nothing says "ok", then the images are
\* of one version, the published one, and the helper puts one container after the other on it.
ServedInvariant ==
    /\ update.at # "none" /\ ~history.upset => helper = "none"
    /\ update.at \notin {"none", "launch"} /\ ~history.upset => state.says # "ok"
    /\ update.at = "publish" => image = Both(image["panel"])
    /\ update.at = "launch" => image = Both(published)
    /\ update.at = "none" /\ state.says = "ok" /\ ~history.upset
         => /\ image = Both(published)
            /\ helper = "half" => running["frontend"] = published
            /\ helper = "none" => running = Both(published)

LEMMA ServedStep ==
    ASSUME UpdateTypeOK, ServedInvariant, [UpdateNext]_updateVars
    PROVE  ServedInvariant'
<1> USE DEF ServedInvariant, Histories
<1>t. /\ update \in [at : UpdateStages, stashed : BOOLEAN]
      /\ history \in Histories
      /\ state \in [says : Reports \cup {"absent"}, old : BOOLEAN]
      /\ image \in [Parts -> Commits] /\ running \in [Parts -> Commits]
      /\ Parts = {"panel", "frontend"}
      /\ helper \in {"none", "started", "half"}
  BY DEF UpdateTypeOK, Parts
<1>b. \A f \in [Parts -> Commits] : \A c : f = Both(c) <=> f["panel"] = c /\ f["frontend"] = c
  BY <1>t DEF Both
<1>q. ASSUME UNCHANGED <<update, image, running, published, helper>>,
             state'.says = state.says \/ state'.says # "ok",
             history'.upset = history.upset \/ history'.upset
      PROVE  ServedInvariant'
  BY <1>q, <1>t
<1>1. CASE \E e \in Edits : EditByHand(e)
  BY <1>1, <1>q DEF EditByHand, reportVars, serviceVars
<1>2. CASE CommitUpstream
  BY <1>2, <1>q DEF CommitUpstream, reportVars, serviceVars
<1>3. CASE GitPush
  <2>1. history'.upset = history.upset
    BY <1>3, <1>t DEF GitPush
  <2> QED BY <1>3, <2>1, <1>q DEF GitPush, reportVars, serviceVars
<1>4. CASE GitPull
  <2>1. /\ update'.at = "check" /\ history'.upset = (helper # "none")
        /\ state'.says = "undone" /\ helper' = helper
    BY <1>4, <1>t DEF GitPull, UpdateGoto, Report, serviceVars
  <2> QED BY <2>1
\* The stages before the report.
<1>5. ASSUME UNCHANGED serviceVars, UNCHANGED history,
             state'.says = state.says \/ state'.says # "ok",
             update.at \notin {"none", "launch"},
             update'.at \in {"none", "fetch", "sync", "pop", "build"}
      PROVE  ServedInvariant'
  BY <1>5, <1>t DEF serviceVars
<1>23. CASE StatusFails
  <2>1. /\ update'.at = "fetch" /\ update.at = "check" /\ state' = state
        /\ history'.upset = history.upset /\ UNCHANGED serviceVars
    BY <1>23, <1>t DEF StatusFails, UpdateGoto, UpdateAt
  <2> QED BY <2>1 DEF serviceVars
<1>6. CASE Precheck \/ PrecheckFails
  <2>1. update'.at \in {"none", "fetch"}
    BY <1>6, <1>t DEF Precheck, PrecheckFails, UpdateGoto, NoUpdate
  <2> QED BY <1>6, <2>1, <1>5 DEF Precheck, PrecheckFails, UpdateAt
<1>7. CASE Fetch \/ FetchFails \/ ResetToOrigin
  <2>1. update'.at \in {"none", "sync", "pop", "build"}
    BY <1>7, <1>t DEF Fetch, FetchFails, ResetToOrigin, UpdateGoto, NoUpdate
  <2>2. /\ UNCHANGED serviceVars /\ UNCHANGED history
        /\ update.at \in {"fetch", "sync"}
        /\ state'.says = state.says \/ state'.says # "ok"
    BY <1>7, <1>t DEF Fetch, FetchFails, ResetToOrigin, UpdateAt, SetPullDone, Report, reportVars
  <2> QED BY <2>1, <2>2, <1>5
<1>8. CASE StashPop \/ StashPopFails
  <2>1. update'.at = "build"
    BY <1>8, <1>t DEF StashPop, StashPopFails, UpdateGoto
  <2> QED BY <1>8, <2>1, <1>5 DEF StashPop, StashPopFails, UpdateAt, reportVars
<1>9. CASE ComposeBuild
  <2>1. /\ update.at = "build" /\ update'.at = "publish"
        /\ image' = Both(repo.head) /\ UNCHANGED <<history, helper, state>>
    BY <1>9, <1>t DEF ComposeBuild, UpdateGoto, UpdateAt, Built, reportVars
  <2>2. image' = Both(image'["panel"])
    BY <2>1, <1>t DEF Both
  <2> QED BY <2>1, <2>2
<1>10. CASE BuildTakesLong
  <2>1. state'.says = state.says
    BY <1>10, <1>t DEF BuildTakesLong
  <2> QED BY <1>10, <2>1, <1>q DEF BuildTakesLong, serviceVars
<1>11. CASE ComposeBuildFails
  <2>1. update'.at = "none" /\ state'.says = "failed"
    BY <1>11 DEF ComposeBuildFails, NoUpdate, SetPullDone, Report
  <2> QED BY <2>1
<1>12. CASE Publish
  <2>1. /\ update.at = "publish" /\ update'.at = "launch" /\ published' = image["panel"]
        /\ UNCHANGED <<image, helper, history>>
    BY <1>12, <1>t DEF Publish, UpdateGoto, UpdateAt
  <2> QED BY <2>1
<1>13. CASE LaunchHelper
  <2>1. /\ update.at = "launch" /\ update'.at = "none" /\ helper' = "started"
        /\ UNCHANGED <<image, published>>
    BY <1>13 DEF LaunchHelper, UpdateAt, NoUpdate
  <2> QED BY <2>1
<1>14. CASE LaunchHelperFails
  <2>1. update'.at = "none" /\ state'.says = "failed"
    BY <1>14 DEF LaunchHelperFails, NoUpdate, SetPullDone, Report
  <2> QED BY <2>1
<1>u. ASSUME history'.upset, update' = NoUpdate \/ update' = update,
             UNCHANGED <<image, published>>
      PROVE  ServedInvariant'
  BY <1>u, <1>t DEF NoUpdate
<1>15. CASE UpdatePanics
  BY <1>15, <1>t, <1>u DEF UpdatePanics, serviceVars
<1>16. CASE GitPullClearLog \/ CleanUpdateLogs
  BY <1>16, <1>q DEF GitPullClearLog, CleanUpdateLogs, serviceVars
<1>17. CASE HelperFrontend
  <2>1. /\ helper = "started" /\ helper' = "half"
        /\ running'["frontend"] = image["frontend"]
        /\ UNCHANGED <<image, published, update, state, history>>
    BY <1>17, <1>t DEF HelperFrontend, reportVars
  <2> QED BY <2>1, <1>t, <1>b
<1>18. CASE HelperPanel
  <2>1. /\ helper = "half" /\ helper' = "none"
        /\ running' \in [Parts -> Commits]
        /\ running'["panel"] = image["panel"] /\ running'["frontend"] = running["frontend"]
        /\ UNCHANGED <<image, published, state>>
    BY <1>18, <1>t DEF HelperPanel
  <2>2. \/ UNCHANGED <<update, history>>
        \/ update' = NoUpdate /\ update.at = "none" /\ history' = history
        \/ update' = NoUpdate /\ history'.upset
    BY <1>18, <1>t DEF HelperPanel, PanelRestarts, Died, UpdateAt
  <2> QED BY <2>1, <2>2, <1>t, <1>b DEF NoUpdate
<1>19. CASE HelperFails
  <2>1. history'.upset
    BY <1>19, <1>t DEF HelperFails
  <2> QED BY <1>19, <2>1, <1>u DEF HelperFails
<1>20. CASE PanelDies
  <2>1. \/ update.at = "none" /\ update' = NoUpdate /\ history' = history
        \/ update' = NoUpdate /\ history'.upset
    BY <1>20, <1>t DEF PanelDies, PanelRestarts, Died, UpdateAt
  <2> QED BY <1>20, <2>1, <1>u, <1>t DEF PanelDies, serviceVars, NoUpdate
<1>21. CASE CheckVersionConsistency
  BY <1>21, <1>q DEF CheckVersionConsistency, serviceVars
<1>22. CASE UNCHANGED updateVars
  BY <1>22, <1>q DEF updateVars, reportVars, serviceVars
<1> QED
  BY <1>1, <1>2, <1>3, <1>4, <1>6, <1>7, <1>8, <1>9, <1>10, <1>11, <1>12, <1>13,
     <1>14, <1>15, <1>16, <1>17, <1>18, <1>19, <1>20, <1>21, <1>22, <1>23 DEF UpdateNext

\* An update that says it succeeded, undisturbed, is served by both containers, for any number
\* of updates, failures and visits of the version patrol.
THEOREM UpdatesAreServed == UpdateSpec => []SuccessIsServed
<1>1. UpdateInit => ServedInvariant
  BY DEF UpdateInit, ServedInvariant
<1>2. UpdateTypeOK /\ ServedInvariant /\ [UpdateNext]_updateVars => ServedInvariant'
  BY ServedStep
<1>3. ServedInvariant => SuccessIsServed
  BY DEF ServedInvariant, SuccessIsServed, UpdateAt
<1> QED BY <1>1, <1>2, <1>3, UpdatesAreTyped, PTL DEF UpdateSpec

-----------------------------------------------------------------------------
(* Deploy                                                                  *)

Dep == [at : DepStages, node : Nodes \cup {NoOne}, token : Tokens,
        hash : Versions \cup {0}, copy : Binaries, tries : 0..1]
Dir == [env : Tokens, agent : Binaries, writer : Deployments \cup {NoOne}]
Agent == [agent : Binaries, token : Tokens]

\* Stages of a deployment that has hashed the source, that holds the build mutex, and that
\* has found or built the binary it deploys.
Hashed == {"cache", "lock", "compile", "write", "hashFile", "read", "send", "sent", "start",
           "verify"}
Building == {"compile", "write", "hashFile"}
Sending == {"read", "send", "sent", "start", "verify"}

DeployTyped == DeployTypeOK /\ \A d \in Deployments : UnderWay(d) => NodeOf(d) \in Nodes

\* One deployment compiles.  As long as no source changes under a deployment, the binary on
\* the panel's host is what agent.hash says except while it is being replaced, and nobody
\* replaces the binary of the present source.
BuildInvariant ==
    /\ source = 1 => ~met.source
    /\ \A d \in Deployments : dep[d].at \in Hashed => dep[d].hash \in Versions
    /\ \A d \in Deployments : dep[d].at \in Building => buildMutex = d
    /\ ~met.source =>
         /\ \A d \in Deployments : dep[d].at \in Hashed => dep[d].hash = source
         /\ \A d \in Deployments : dep[d].at \in Building => binary.hash # source
         /\ \A d \in Deployments : dep[d].at = "hashFile" => binary.agent = source
         /\ \A d \in Deployments : dep[d].at \in Sending =>
               binary.agent = source /\ binary.hash = source
         /\ \A d \in Deployments : dep[d].at \in {"send", "sent"} => dep[d].copy = source
         /\ (\A d \in Deployments : dep[d].at \notin {"write", "hashFile"})
               => IF binary.agent = NoFile THEN binary.hash = 0
                                           ELSE binary.agent = binary.hash

\* Two deployments on one node are remembered in met.  A deployment that is alone on its
\* node finds there what it sent; one that is not finds the present agent or a torn one.
ServerInvariant ==
    /\ \A d, e \in Deployments :
         UnderWay(d) /\ UnderWay(e) /\ NodeOf(d) = NodeOf(e) /\ d # e => NodeOf(d) \in met.nodes
    /\ ~met.source => \A d \in Deployments : LET n == NodeOf(d) IN
         /\ dep[d].at = "sent" /\ n \notin met.nodes /\ dir[n] # NoOne => dir[n].writer = d
         /\ dep[d].at = "start" /\ dir[n] # NoOne =>
               \/ dir[n].agent = source
               \/ dir[n].agent = Torn /\ n \in met.nodes
         /\ dep[d].at = "verify" => container[n].agent \in {NoFile, Torn, source}
    /\ AgentIsWhole

-----------------------------------------------------------------------------
LEMMA DeploymentKinds ==
    /\ Versions = {1, 2} /\ NoFile = 0 /\ Torn = -1 /\ Binaries = {1, 2, 0, -1}
    /\ Tokens = {0, 1, 2}
    /\ Blank \in Dep /\ Empty \in Dir /\ Stopped \in Agent
    /\ NoOne \notin Deployments /\ NoOne \notin Nodes
    /\ \A stage \in {"clean", "check", "docker", "files", "hash", "cache", "lock", "compile",
                    "write", "hashFile", "read", "send", "sent", "start", "verify", "done",
                    "failed", "idle"} : stage \in DepStages
<1>1. Versions = {1, 2} /\ Tokens = {0, 1, 2} /\ 0..1 = {0, 1} /\ NoFile = 0 /\ Torn = -1
  BY DEF Versions, Tokens, NoFile, Torn
<1>2. Binaries = {1, 2, 0, -1}
  BY <1>1 DEF Binaries
<1>3. "idle" \in DepStages
  BY DEF DepStages
<1>4. Blank \in Dep
  BY <1>1, <1>2, <1>3 DEF Blank, Dep
<1>5. Empty \in Dir /\ Stopped \in Agent
  BY <1>1, <1>2 DEF Empty, Dir, Stopped, Agent
<1> QED BY <1>1, <1>2, <1>4, <1>5, DeployAssumption DEF DepStages

\* The assignments to dep[d].
LEMMA DepChanges ==
    ASSUME DeployTypeOK, NEW d \in Deployments
    PROVE  /\ dep \in [Deployments -> Dep] /\ dep[d] \in Dep
           /\ \A r \in Dep : [dep EXCEPT ![d] = r] \in [Deployments -> Dep]
           /\ \A stage \in DepStages :
                /\ [dep EXCEPT ![d].at = stage] \in [Deployments -> Dep]
                /\ \A h \in Versions :
                      [dep EXCEPT ![d].at = stage, ![d].hash = h] \in [Deployments -> Dep]
                /\ \A c \in Binaries :
                      [dep EXCEPT ![d].at = stage, ![d].copy = c] \in [Deployments -> Dep]
                /\ [dep EXCEPT ![d].at = stage, ![d].tries = 1] \in [Deployments -> Dep]
           /\ [dep EXCEPT ![d].tries = 1] \in [Deployments -> Dep]
<1>1. dep \in [Deployments -> Dep] /\ dep[d] \in Dep
  BY DEF DeployTypeOK, Dep
<1>2. 1 \in 0..1
  OBVIOUS
<1>3. \A r \in Dep : [dep EXCEPT ![d] = r] \in [Deployments -> Dep]
  BY <1>1
<1>4. ASSUME NEW stage \in DepStages
      PROVE  /\ [dep[d] EXCEPT !.at = stage] \in Dep
             /\ \A h \in Versions : [dep[d] EXCEPT !.at = stage, !.hash = h] \in Dep
             /\ \A c \in Binaries : [dep[d] EXCEPT !.at = stage, !.copy = c] \in Dep
             /\ [dep[d] EXCEPT !.at = stage, !.tries = 1] \in Dep
  BY <1>1, <1>2 DEF Dep
<1>5. [dep[d] EXCEPT !.tries = 1] \in Dep
  BY <1>1, <1>2 DEF Dep
<1> QED BY <1>1, <1>3, <1>4, <1>5

\* A deployment that goes on to another stage and changes nothing else of its own.
LEMMA DeploymentGoes ==
    ASSUME DeployTypeOK, NEW d \in Deployments, NEW stage \in DepStages, DeployGoto(d, stage)
    PROVE  /\ dep' \in [Deployments -> Dep]
           /\ dep'[d].at = stage /\ dep'[d].node = dep[d].node
           /\ dep'[d].hash = dep[d].hash /\ dep'[d].copy = dep[d].copy
           /\ \A e \in Deployments \ {d} : dep'[e] = dep[e]
<1>1. dep \in [Deployments -> Dep]
  BY DepChanges
<1>2. dep' = [dep EXCEPT ![d].at = stage]
  BY DEF DeployGoto
<1>3. dep'[d] = [dep[d] EXCEPT !.at = stage]
  BY <1>1, <1>2
<1>4. dep[d] \in Dep /\ \A e \in Deployments \ {d} : dep'[e] = dep[e]
  BY <1>1, <1>2
<1>5. dep' \in [Deployments -> Dep]
  BY <1>2, DepChanges
<1> QED BY <1>3, <1>4, <1>5 DEF Dep

\* A container that has registered runs a version of the agent, and has the token of its node
\* unless that was changed since.
LogInvariant ==
    \A n \in heard : /\ container[n].agent \in Versions
                     /\ n \in stale \/ (container[n].token = token[n] /\ token[n] # 0)

DeployInvariant == DeployTyped /\ BuildInvariant /\ ServerInvariant /\ LogInvariant

\* The facts about types that the steps below use.
LEMMA DeployTypes ==
    ASSUME DeployTypeOK
    PROVE  /\ dep \in [Deployments -> Dep]
           /\ \A d \in Deployments :
                /\ dep[d].at \in DepStages /\ dep[d].node \in Nodes \cup {NoOne}
                /\ dep[d].hash \in {0, 1, 2} /\ dep[d].copy \in {0, 1, 2, -1}
           /\ source \in {1, 2}
           /\ binary \in [agent : Binaries, hash : Versions \cup {0}]
           /\ dir \in [Nodes -> Dir \cup {NoOne}]
           /\ container \in [Nodes -> Agent]
           /\ met \in [nodes : SUBSET Nodes, source : BOOLEAN]
           /\ outlook \in [ops : SUBSET Snags, faults : Nat]
BY DeploymentKinds DEF DeployTypeOK, Dep, Dir, Agent

LEMMA DeployTypedStep ==
    ASSUME DeployTyped, [DeployNext]_deployVars PROVE DeployTyped'
<1>t. DeployTypeOK
  BY DEF DeployTyped
<1>n. \A d \in Deployments : UnderWay(d) => dep[d].node \in Nodes
  BY DEF DeployTyped, NodeOf
<1>f. ASSUME dep' \in [Deployments -> Dep], buildMutex' \in Deployments \cup {NoOne},
             source' \in {1, 2}, binary' \in [agent : Binaries, hash : Versions \cup {0}],
             dir' \in [Nodes -> Dir \cup {NoOne}], container' \in [Nodes -> Agent],
             docker' \in {"absent", "down", "up"}, token' \in [Nodes -> Tokens],
             met' \in [nodes : SUBSET Nodes, source : BOOLEAN],
             heard' \in SUBSET Nodes, stale' \in SUBSET Nodes,
             outlook' \in [ops : SUBSET Snags, faults : Nat],
             \A d \in Deployments : dep'[d].at \notin {"idle", "done", "failed"}
                                      => dep'[d].node \in Nodes
      PROVE  DeployTyped'
  BY <1>f, DeploymentKinds DEF DeployTyped, DeployTypeOK, UnderWay, NodeOf, Dep, Dir, Agent
<1>k. /\ dep \in [Deployments -> Dep] /\ buildMutex \in Deployments \cup {NoOne}
      /\ source \in {1, 2} /\ binary \in [agent : Binaries, hash : Versions \cup {0}]
      /\ dir \in [Nodes -> Dir \cup {NoOne}] /\ container \in [Nodes -> Agent]
      /\ docker \in {"absent", "down", "up"} /\ token \in [Nodes -> Tokens]
      /\ met \in [nodes : SUBSET Nodes, source : BOOLEAN]
      /\ heard \in SUBSET Nodes /\ stale \in SUBSET Nodes
      /\ outlook \in [ops : SUBSET Snags, faults : Nat]
      /\ \A d \in Deployments : dep[d].at \notin {"idle", "done", "failed"} => dep[d].node \in Nodes
  BY <1>t, <1>n, DeploymentKinds DEF DeployTypeOK, UnderWay, Dep, Dir, Agent
<1>s. \A op : Snag(op) => outlook' \in [ops : SUBSET Snags, faults : Nat]
  BY <1>k DEF Snag
<1>c. \A n \in Nodes \cup {NoOne} : /\ [container EXCEPT ![n] = Stopped] \in [Nodes -> Agent]
                        /\ [dir EXCEPT ![n] = NoOne] \in [Nodes -> Dir \cup {NoOne}]
                        /\ [m \in Nodes |-> Stopped] \in [Nodes -> Agent]
  BY <1>k, DeploymentKinds
\* The moves of one deployment.
<1>g. ASSUME NEW d \in Deployments, UnderWay(d), NEW stage \in DepStages,
             DeployGoto(d, stage)
      PROVE  /\ dep' \in [Deployments -> Dep]
             /\ \A e \in Deployments : dep'[e].at \notin {"idle", "done", "failed"}
                                      => dep'[e].node \in Nodes
  BY <1>g, <1>t, <1>k, DeploymentGoes DEF UnderWay
<1>1. ASSUME NEW d \in Deployments, NEW n \in Nodes, StartDeploy(d, n) PROVE DeployTyped'
  <2> DEFINE r == [Blank EXCEPT !.at = "clean", !.node = n, !.token = token[n]]
  <2>1. r \in Dep /\ r.node \in Nodes
    BY <1>k, DeploymentKinds DEF Blank, Dep
  <2>2. dep' = [dep EXCEPT ![d] = r]
    BY <1>1 DEF StartDeploy
  <2>3. /\ dep' \in [Deployments -> Dep]
        /\ \A e \in Deployments : dep'[e].at \notin {"idle", "done", "failed"}
                                      => dep'[e].node \in Nodes
    <3> HIDE DEF r
    <3> QED BY <2>1, <2>2, <1>k
  <2>4. met' \in [nodes : SUBSET Nodes, source : BOOLEAN]
    BY <1>1, <1>k DEF StartDeploy
  <2> HIDE DEF r
  <2> QED BY <1>1, <1>k, <1>f, <2>3, <2>4 DEF StartDeploy, Panel, Server
<1>2. ASSUME NEW d \in Deployments, DeployBreaks(d) \/ CleanOldDeployment(d)
      PROVE  DeployTyped'
  <2>1. \E stage \in DepStages : UnderWay(d) /\ DeployGoto(d, stage)
    BY <1>2, DeploymentKinds DEF DeployBreaks, CleanOldDeployment, DeployFails, DeployAt, UnderWay
  <2>2. NodeOf(d) \in Nodes \cup {NoOne}
    BY <1>k DEF NodeOf, Dep
  <2>3. dir' \in [Nodes -> Dir \cup {NoOne}] /\ container' \in [Nodes -> Agent]
    BY <1>2, <1>k, <1>c, <2>2 DEF DeployBreaks, CleanOldDeployment, Server
  <2>4. outlook' \in [ops : SUBSET Snags, faults : Nat]
    BY <1>2, <1>k, <1>s DEF DeployBreaks, CleanOldDeployment
  <2> QED BY <1>2, <1>f, <1>g, <1>k, <2>1, <2>3, <2>4
          DEF DeployBreaks, CleanOldDeployment, Panel, Server, Given
<1>3. ASSUME NEW d \in Deployments, EnsureDocker(d) \/ EnsureDockerFails(d)
      PROVE  DeployTyped'
  <2>1. \E stage \in DepStages : UnderWay(d) /\ DeployGoto(d, stage)
    BY <1>3, DeploymentKinds DEF EnsureDocker, EnsureDockerFails, DeployFails, DeployAt, UnderWay
  <2>2. /\ container' \in [Nodes -> Agent] /\ docker' \in {"absent", "down", "up"}
        /\ outlook' \in [ops : SUBSET Snags, faults : Nat]
    BY <1>3, <1>k, <1>c, <1>s DEF EnsureDocker, EnsureDockerFails
  <2> QED BY <1>3, <1>f, <1>g, <1>k, <2>1, <2>2
          DEF EnsureDocker, EnsureDockerFails, Panel, Given
<1>4. ASSUME NEW d \in Deployments, PrepareFiles(d) PROVE DeployTyped'
  <2>1. \E stage \in DepStages : UnderWay(d) /\ DeployGoto(d, stage)
    BY <1>4, DeploymentKinds DEF PrepareFiles, DeployAt, UnderWay
  <2>2. [Empty EXCEPT !.env = dep[d].token, !.agent = binary.agent] \in Dir
    BY <1>k, DeploymentKinds DEF Empty, Dir, Dep
  <2>3. dir' \in [Nodes -> Dir \cup {NoOne}]
    BY <1>4, <1>k, <2>2 DEF PrepareFiles
  <2> QED BY <1>4, <1>f, <1>g, <1>k, <2>1, <2>3 DEF PrepareFiles, Panel, Given
<1>5. ASSUME NEW d \in Deployments,
             HashSource(d) \/ ReadBinary(d) \/ SendFails(d) \/ CompileFails(d)
      PROVE  DeployTyped'
  <2>1. UnderWay(d) /\ dep[d].node \in Nodes
    BY <1>5, <1>k DEF HashSource, ReadBinary, SendFails, CompileFails, DeployAt, UnderWay
  <2>2. \/ dep' = [dep EXCEPT ![d].at = "cache", ![d].hash = source]
        \/ dep' = [dep EXCEPT ![d].at = "send", ![d].copy = binary.agent]
        \/ dep' = [dep EXCEPT ![d].at = "read", ![d].tries = 1]
        \/ dep' = [dep EXCEPT ![d].tries = 1]
        \/ DeployGoto(d, "failed")
    BY <1>5 DEF HashSource, ReadBinary, SendFails, CompileFails, DeployFails
  <2>3. dep' \in [Deployments -> Dep]
    <3>1. /\ source \in Versions /\ binary.agent \in Binaries
          /\ "cache" \in DepStages /\ "send" \in DepStages /\ "read" \in DepStages
      BY <1>k, DeploymentKinds
    <3>2. /\ [dep EXCEPT ![d].at = "cache", ![d].hash = source] \in [Deployments -> Dep]
          /\ [dep EXCEPT ![d].at = "send", ![d].copy = binary.agent] \in [Deployments -> Dep]
          /\ [dep EXCEPT ![d].at = "read", ![d].tries = 1] \in [Deployments -> Dep]
          /\ [dep EXCEPT ![d].tries = 1] \in [Deployments -> Dep]
      BY <1>t, <3>1, DepChanges
    <3>3. DeployGoto(d, "failed") => dep' \in [Deployments -> Dep]
      BY <1>g, <2>1, DeploymentKinds
    <3> QED BY <2>2, <3>2, <3>3
  <2>4. \A e \in Deployments : dep'[e].node = dep[e].node
                             /\ (dep'[e].at = dep[e].at \/ e = d)
    <3>1. \A e \in Deployments \ {d} : dep'[e] = dep[e]
      BY <2>2, <1>k DEF DeployGoto
    <3>2. dep'[d].node = dep[d].node
      BY <2>2, <1>k DEF DeployGoto, Dep
    <3> QED BY <3>1, <3>2
  <2>5. /\ buildMutex' \in Deployments \cup {NoOne}
        /\ outlook' \in [ops : SUBSET Snags, faults : Nat]
    BY <1>5, <1>k, <1>s DEF HashSource, ReadBinary, SendFails, CompileFails, Panel, Unlocked
  <2> QED BY <1>5, <1>f, <1>k, <2>1, <2>3, <2>4, <2>5
          DEF HashSource, ReadBinary, SendFails, CompileFails, Panel, Server, Given
<1>6. ASSUME NEW d \in Deployments, CheckCache(d) \/ LockBuild(d) PROVE DeployTyped'
  <2>1. \E stage \in DepStages : UnderWay(d) /\ DeployGoto(d, stage)
    BY <1>6, DeploymentKinds DEF CheckCache, LockBuild, DeployAt, UnderWay
  <2>2. buildMutex' \in Deployments \cup {NoOne}
    BY <1>6, <1>k DEF CheckCache, LockBuild, Panel
  <2> QED BY <1>6, <1>f, <1>g, <1>k, <2>1, <2>2 DEF CheckCache, LockBuild, Panel, Server, Given
<1>7. ASSUME NEW d \in Deployments, Compile(d) \/ CompileEnds(d) \/ SaveHash(d)
      PROVE  DeployTyped'
  <2>1. \E stage \in DepStages : UnderWay(d) /\ DeployGoto(d, stage)
    BY <1>7, DeploymentKinds DEF Compile, CompileEnds, SaveHash, DeployAt, UnderWay
  <2>2. Torn \in Binaries /\ source \in Binaries /\ dep[d].hash \in Versions \cup {0}
    BY <1>k, DeploymentKinds DEF Dep
  <2>3. /\ binary' \in [agent : Binaries, hash : Versions \cup {0}]
        /\ buildMutex' \in Deployments \cup {NoOne}
    BY <1>7, <1>k, <2>2 DEF Compile, CompileEnds, SaveHash
  <2> QED BY <1>7, <1>f, <1>g, <1>k, <2>1, <2>3 DEF Compile, CompileEnds, SaveHash, Server, Given
<1>8. ASSUME NEW d \in Deployments, SendBegins(d) \/ SendEnds(d) PROVE DeployTyped'
  <2>1. \E stage \in DepStages : UnderWay(d) /\ DeployGoto(d, stage)
    BY <1>8, DeploymentKinds DEF SendBegins, SendEnds, DeployFails, DeployAt, UnderWay
  <2>2. NodeOf(d) \in Nodes /\ dep[d].copy \in Binaries /\ Torn \in Binaries
    BY <1>k, <2>1, DeploymentKinds DEF NodeOf, UnderWay, Dep
  <2>3. \A b \in Binaries : dir[NodeOf(d)] # NoOne =>
          /\ [dir EXCEPT ![NodeOf(d)].agent = b, ![NodeOf(d)].writer = d]
                \in [Nodes -> Dir \cup {NoOne}]
          /\ [dir EXCEPT ![NodeOf(d)].agent = b] \in [Nodes -> Dir \cup {NoOne}]
    <3> SUFFICES ASSUME NEW b \in Binaries, dir[NodeOf(d)] # NoOne
                 PROVE  /\ [dir EXCEPT ![NodeOf(d)].agent = b, ![NodeOf(d)].writer = d]
                              \in [Nodes -> Dir \cup {NoOne}]
                        /\ [dir EXCEPT ![NodeOf(d)].agent = b] \in [Nodes -> Dir \cup {NoOne}]
      OBVIOUS
    <3>1. dir[NodeOf(d)] \in Dir
      BY <1>k, <2>2
    <3>2. /\ [dir[NodeOf(d)] EXCEPT !.agent = b, !.writer = d] \in Dir
          /\ [dir[NodeOf(d)] EXCEPT !.agent = b] \in Dir
      BY <3>1 DEF Dir
    <3> QED BY <1>k, <2>2, <3>1, <3>2
  <2>4. dir' \in [Nodes -> Dir \cup {NoOne}]
    <3>1. CASE dir' = dir
      BY <1>k, <3>1
    <3>2. CASE dir' # dir
      <4>1. dir[NodeOf(d)] # NoOne
        BY <1>8, <3>2 DEF SendBegins, SendEnds
      <4>2. CASE SendBegins(d)
        BY <2>2, <2>3, <4>1, <4>2 DEF SendBegins
      <4>3. CASE SendEnds(d)
        BY <2>2, <2>3, <4>1, <4>3 DEF SendEnds
      <4> QED BY <1>8, <4>2, <4>3
    <3> QED BY <3>1, <3>2
  <2> QED BY <1>8, <1>f, <1>g, <1>k, <2>1, <2>4 DEF SendBegins, SendEnds, Panel, Given
<1>9. ASSUME NEW d \in Deployments, StartContainer(d) \/ VerifyRegistration(d)
      PROVE  DeployTyped'
  <2>1. \E stage \in DepStages : UnderWay(d) /\ DeployGoto(d, stage)
    BY <1>9, DeploymentKinds DEF StartContainer, VerifyRegistration, DeployFails, DeployAt, UnderWay
  <2>2. NodeOf(d) \in Nodes
    BY <1>k, <2>1 DEF NodeOf, UnderWay
  <2>3. container' \in [Nodes -> Agent]
    <3>1. dir[NodeOf(d)] # NoOne =>
            [agent |-> dir[NodeOf(d)].agent, token |-> dir[NodeOf(d)].env] \in Agent
      BY <1>k, <2>2 DEF Dir, Agent
    <3> QED BY <1>9, <1>k, <2>2, <3>1 DEF StartContainer, VerifyRegistration, Server
  <2> QED BY <1>9, <1>f, <1>g, <1>k, <2>1, <2>3
          DEF StartContainer, VerifyRegistration, Panel, Server, Given
<1>10. CASE DockerDies \/ \E d \in Deployments : DockerRevived(d)
  <2>1. outlook' \in [ops : SUBSET Snags, faults : Nat]
    BY <1>10, <1>k, <1>s DEF DockerDies, DockerRevived
  <2> QED BY <1>10, <1>f, <1>k, <2>1 DEF DockerDies, DockerRevived, Panel, Given
<1>11. CASE SourceChanges
  <2>1. met' \in [nodes : SUBSET Nodes, source : BOOLEAN]
    BY <1>11, <1>k DEF SourceChanges
  <2> QED BY <1>11, <1>f, <1>k, <1>s, <2>1 DEF SourceChanges, Panel, Server
<1>14. ASSUME NEW n \in Nodes, Register(n) PROVE DeployTyped'
  BY <1>14, <1>f, <1>k DEF Register, Panel, Given
<1>12. ASSUME NEW n \in Nodes, RotateToken(n) \/ CleanupWithProgress(n) PROVE DeployTyped'
  <2>1. token' \in [Nodes -> Tokens]
    BY <1>12, <1>k, DeploymentKinds DEF RotateToken, CleanupWithProgress
  <2>2. /\ container' \in [Nodes -> Agent] /\ dir' \in [Nodes -> Dir \cup {NoOne}]
        /\ docker' = docker /\ heard' \in SUBSET Nodes /\ stale' \in SUBSET Nodes
    BY <1>12, <1>k, <1>c DEF RotateToken, CleanupWithProgress, Server
  <2> QED BY <1>12, <1>f, <1>k, <1>s, <2>1, <2>2 DEF RotateToken, CleanupWithProgress, Panel
<1>13. CASE UNCHANGED deployVars
  BY <1>13, <1>f, <1>k DEF deployVars
<1> QED
  BY <1>1, <1>2, <1>3, <1>4, <1>5, <1>6, <1>7, <1>8, <1>9, <1>10, <1>11, <1>12, <1>13, <1>14
  DEF DeployNext, DeployStep

\* A step of d that leaves the source, the binary and every other deployment as they are.
LEMMA BuildKept ==
    ASSUME BuildInvariant, DeployTypeOK, NEW d \in Deployments,
           UNCHANGED <<source, binary, met>>,
           \A e \in Deployments \ {d} : dep'[e] = dep[e],
           \A e \in Deployments \ {d} : buildMutex = e => buildMutex' = e,
           dep'[d].at \in Building => buildMutex' = d,
           dep'[d].at \in Hashed => dep'[d].hash \in Versions,
           ~met.source =>
             /\ dep'[d].at \in Hashed => dep'[d].hash = source
             /\ dep'[d].at \in Building => binary.hash # source
             /\ dep'[d].at = "hashFile" => binary.agent = source
             /\ dep'[d].at \in Sending => binary.agent = source /\ binary.hash = source
             /\ dep'[d].at \in {"send", "sent"} => dep'[d].copy = source
             /\ dep[d].at \in {"write", "hashFile"} => dep'[d].at \in {"write", "hashFile"}
    PROVE  BuildInvariant'
BY DEF BuildInvariant

LEMMA BuildStep ==
    ASSUME DeployTyped, BuildInvariant, [DeployNext]_deployVars PROVE BuildInvariant'
<1>t. DeployTypeOK
  BY DEF DeployTyped
<1>k. /\ dep \in [Deployments -> Dep]
      /\ \A d \in Deployments :
            /\ dep[d].at \in DepStages
            /\ dep[d].hash \in {0, 1, 2} /\ dep[d].copy \in {0, 1, 2, -1}
      /\ source \in {1, 2} /\ Versions = {1, 2} /\ NoFile = 0 /\ Torn = -1
      /\ binary \in [agent : Binaries, hash : Versions \cup {0}]
      /\ met \in [nodes : SUBSET Nodes, source : BOOLEAN]
  BY <1>t, DeployTypes, DeploymentKinds
<1>q. ASSUME UNCHANGED <<dep, buildMutex, source, binary, met>> PROVE BuildInvariant'
  BY <1>q DEF BuildInvariant
<1>1. ASSUME NEW d \in Deployments, NEW n \in Nodes, StartDeploy(d, n) PROVE BuildInvariant'
  <2>1. /\ dep'[d].at = "clean" /\ \A e \in Deployments \ {d} : dep'[e] = dep[e]
        /\ dep[d].at = "idle" /\ UNCHANGED <<source, binary, buildMutex>>
        /\ met'.source = met.source
    BY <1>1, <1>k DEF StartDeploy, Blank, DeployAt, Panel
  <2> QED BY <2>1, <1>k DEF BuildInvariant, Hashed, Building, Sending
<1>2. ASSUME NEW d \in Deployments, NEW stage \in {"docker", "files", "hash", "failed", "done"},
             dep[d].at \notin Building, DeployGoto(d, stage),
             UNCHANGED <<source, binary, met, buildMutex>>
      PROVE  BuildInvariant'
  <2>1. stage \in DepStages
    BY DeploymentKinds
  <2>2. dep'[d].at = stage /\ \A e \in Deployments \ {d} : dep'[e] = dep[e]
    BY <1>2, <1>t, <2>1, DeploymentGoes
  <2> QED BY <1>2, <1>t, <2>2, BuildKept DEF Hashed, Building, Sending
<1>3. ASSUME NEW d \in Deployments,
             \/ DeployBreaks(d) \/ CleanOldDeployment(d) \/ EnsureDocker(d)
             \/ EnsureDockerFails(d) \/ PrepareFiles(d) \/ VerifyRegistration(d)
      PROVE  BuildInvariant'
  <2>1. /\ \E stage \in {"docker", "files", "hash", "failed", "done"} : DeployGoto(d, stage)
        /\ dep[d].at \notin Building
        /\ UNCHANGED <<source, binary, met, buildMutex>>
    BY <1>3 DEF DeployBreaks, CleanOldDeployment, EnsureDocker, EnsureDockerFails,
                PrepareFiles, VerifyRegistration, DeployFails, DeployAt, Building, Panel, Given
  <2> QED BY <1>2, <2>1
<1>4. ASSUME NEW d \in Deployments, HashSource(d) PROVE BuildInvariant'
  <2>1. /\ dep'[d].at = "cache" /\ dep'[d].hash = source
        /\ \A e \in Deployments \ {d} : dep'[e] = dep[e]
        /\ dep[d].at = "hash" /\ UNCHANGED <<source, binary, met, buildMutex>>
    BY <1>4, <1>k DEF HashSource, DeployAt, Panel, Given, Dep
  <2> QED BY <1>t, <1>k, <2>1, BuildKept DEF Hashed, Building, Sending
<1>5. ASSUME NEW d \in Deployments, CheckCache(d) \/ LockBuild(d) PROVE BuildInvariant'
  <2>1. \E stage \in {"read", "lock", "compile"} :
          /\ DeployGoto(d, stage)
          /\ dep[d].at \in {"cache", "lock"}
          /\ stage = "read" => Cached(d)
          /\ stage = "lock" => UNCHANGED buildMutex
          /\ stage = "compile" => buildMutex = NoOne /\ buildMutex' = d /\ ~Cached(d)
          /\ UNCHANGED <<source, binary, met>>
          /\ buildMutex' = buildMutex \/ stage = "compile"
    BY <1>5 DEF CheckCache, LockBuild, SecondLook, DeployAt, Panel, Given
  <2>2. PICK stage \in {"read", "lock", "compile"} :
          /\ DeployGoto(d, stage)
          /\ dep[d].at \in {"cache", "lock"}
          /\ stage = "read" => Cached(d)
          /\ stage = "compile" => buildMutex = NoOne /\ buildMutex' = d /\ ~Cached(d)
          /\ UNCHANGED <<source, binary, met>>
          /\ buildMutex' = buildMutex \/ stage = "compile"
    BY <2>1
  <2>3. /\ dep'[d].at = stage /\ dep'[d].hash = dep[d].hash
        /\ \A e \in Deployments \ {d} : dep'[e] = dep[e]
    BY <1>t, <2>2, DeploymentGoes, DeploymentKinds
  <2>4. dep[d].hash \in Versions /\ (~met.source => dep[d].hash = source)
    BY <2>2 DEF BuildInvariant, Hashed
  \* Nobody is building when the mutex is free, so the hash beside the binary is right.
  <2>5. CASE stage = "compile"
    <3>1. \A e \in Deployments : dep[e].at \notin Building
      BY <2>2, <2>5, DeploymentKinds DEF BuildInvariant
    <3>2. ~met.source => binary.hash # source
      BY <1>k, <2>2, <2>4, <2>5, <3>1 DEF BuildInvariant, Building, Cached
    <3>3. NoOne \notin Deployments
      BY DeploymentKinds
    <3> QED BY <1>t, <2>2, <2>3, <2>4, <2>5, <3>2, <3>3, BuildKept DEF Hashed, Building, Sending
  <2>6. CASE stage = "lock"
    BY <1>t, <2>2, <2>3, <2>4, <2>6, BuildKept DEF Hashed, Building, Sending
  \* A cached binary of the present source is whole: nobody replaces it.
  <2>7. CASE stage = "read"
    <3>1. binary.agent # NoFile /\ binary.hash = dep[d].hash
      BY <2>2, <2>7 DEF Cached
    <3>2. ~met.source => \A e \in Deployments : dep[e].at \notin Building
      BY <2>4, <3>1 DEF BuildInvariant
    <3>3. ~met.source => binary.agent = source
      BY <1>k, <2>4, <3>1, <3>2 DEF BuildInvariant, Building
    <3> QED BY <1>t, <2>2, <2>3, <2>4, <2>7, <3>1, <3>3, BuildKept DEF Hashed, Building, Sending
  <2> QED BY <2>2, <2>5, <2>6, <2>7
\* What a step of the holder of the mutex may assume.
<1>h. ASSUME NEW d \in Deployments, dep[d].at \in Building
      PROVE  /\ \A e \in Deployments \ {d} : dep[e].at \notin Building
             /\ dep[d].hash \in Versions
             /\ ~met.source => /\ dep[d].hash = source /\ binary.hash # source
                               /\ \A e \in Deployments : dep[e].at \notin Sending
  BY <1>h DEF BuildInvariant, Building, Hashed
<1>6. ASSUME NEW d \in Deployments, Compile(d) PROVE BuildInvariant'
  <2>1. /\ dep'[d].at = "write" /\ dep'[d].hash = dep[d].hash
        /\ \A e \in Deployments \ {d} : dep'[e] = dep[e]
    BY <1>6, <1>t, DeploymentGoes, DeploymentKinds DEF Compile
  <2>2. /\ dep[d].at = "compile" /\ UNCHANGED <<source, met, buildMutex>>
        /\ binary'.hash = binary.hash
    BY <1>6, <1>k DEF Compile, DeployAt, Given
  <2> QED BY <1>h, <1>k, <2>1, <2>2 DEF BuildInvariant, Hashed, Building, Sending
<1>7. ASSUME NEW d \in Deployments, CompileFails(d) PROVE BuildInvariant'
  <2>1. dep[d].at = "compile" /\ UNCHANGED <<source, met, binary>>
    BY <1>7 DEF CompileFails, DeployAt, Given
  <2>2. \/ /\ dep'[d].at = "compile" /\ dep'[d].hash = dep[d].hash
           /\ \A e \in Deployments \ {d} : dep'[e] = dep[e]
           /\ UNCHANGED buildMutex
        \/ /\ dep'[d].at = "failed"
           /\ \A e \in Deployments \ {d} : dep'[e] = dep[e]
    <3>1. CASE dep[d].tries = 0
      BY <1>7, <1>k, <2>1, <3>1 DEF CompileFails, Dep
    <3>2. CASE dep[d].tries # 0
      BY <1>7, <1>t, <3>2, DeploymentGoes, DeploymentKinds DEF CompileFails, DeployFails
    <3> QED BY <3>1, <3>2
  <2>3. buildMutex = d /\ NoOne \notin Deployments
    BY <2>1, DeploymentKinds DEF BuildInvariant, Building
  <2> QED BY <1>h, <1>t, <2>1, <2>2, <2>3, BuildKept DEF Hashed, Building, Sending
<1>8. ASSUME NEW d \in Deployments, CompileEnds(d) PROVE BuildInvariant'
  <2>1. /\ dep'[d].at = "hashFile" /\ dep'[d].hash = dep[d].hash
        /\ \A e \in Deployments \ {d} : dep'[e] = dep[e]
    BY <1>8, <1>t, DeploymentGoes, DeploymentKinds DEF CompileEnds
  <2>2. /\ dep[d].at = "write" /\ UNCHANGED <<source, met, buildMutex>>
        /\ binary'.hash = binary.hash /\ binary'.agent = source
    BY <1>8, <1>k DEF CompileEnds, DeployAt, Given
  <2> QED BY <1>h, <1>k, <2>1, <2>2 DEF BuildInvariant, Hashed, Building, Sending
<1>9. ASSUME NEW d \in Deployments, SaveHash(d) PROVE BuildInvariant'
  <2>1. /\ dep'[d].at = "read" /\ dep'[d].hash = dep[d].hash
        /\ \A e \in Deployments \ {d} : dep'[e] = dep[e]
    BY <1>9, <1>t, DeploymentGoes, DeploymentKinds DEF SaveHash
  <2>2. /\ dep[d].at = "hashFile" /\ UNCHANGED <<source, met>>
        /\ binary'.hash = dep[d].hash /\ binary'.agent = binary.agent
    BY <1>9, <1>k DEF SaveHash, DeployAt, Given
  <2> QED BY <1>h, <1>k, <2>1, <2>2 DEF BuildInvariant, Hashed, Building, Sending
<1>10. ASSUME NEW d \in Deployments, ReadBinary(d) \/ SendFails(d) PROVE BuildInvariant'
  <2>1. /\ dep[d].at \in {"read", "sent"} /\ dep'[d].at \in {"send", "read", "failed"}
        /\ dep'[d].hash = dep[d].hash
        /\ dep'[d].at = "send" => dep'[d].copy = binary.agent
        /\ \A e \in Deployments \ {d} : dep'[e] = dep[e]
        /\ UNCHANGED <<source, met, buildMutex, binary>>
    <3>1. CASE DeployFails(d)
      BY <1>10, <1>t, <3>1, DeploymentGoes, DeploymentKinds
         DEF ReadBinary, SendFails, DeployFails, DeployAt, Panel, Given
    <3>2. CASE ~DeployFails(d)
      BY <1>10, <1>k, <3>2 DEF ReadBinary, SendFails, DeployAt, Dep, Panel, Given
    <3> QED BY <3>1, <3>2
  <2> QED BY <1>t, <2>1, BuildKept DEF BuildInvariant, Hashed, Building, Sending
<1>11. ASSUME NEW d \in Deployments, SendBegins(d) \/ SendEnds(d) \/ StartContainer(d)
       PROVE  BuildInvariant'
  <2>1. \E stage \in {"sent", "start", "verify", "failed"} : DeployGoto(d, stage)
                 /\ (stage = "sent" => dep[d].at = "send")
    BY <1>11 DEF SendBegins, SendEnds, StartContainer, DeployFails, DeployAt
  <2>2. /\ dep'[d].at \in {"sent", "start", "verify", "failed"}
        /\ dep'[d].at = "sent" => dep[d].at = "send"
        /\ dep'[d].hash = dep[d].hash /\ dep'[d].copy = dep[d].copy
        /\ \A e \in Deployments \ {d} : dep'[e] = dep[e]
    BY <1>t, <2>1, DeploymentGoes, DeploymentKinds
  <2>3. /\ dep[d].at \in {"send", "sent", "start"}
        /\ UNCHANGED <<source, met, buildMutex, binary>>
    BY <1>11 DEF SendBegins, SendEnds, StartContainer, DeployAt, Panel, Given
  <2> QED BY <1>t, <2>2, <2>3, BuildKept DEF BuildInvariant, Hashed, Building, Sending
<1>12. CASE DockerDies \/ \E d \in Deployments : DockerRevived(d)
  BY <1>12, <1>q DEF DockerDies, DockerRevived, Panel, Given
<1>13. CASE SourceChanges
  <2>1. /\ source = 1 /\ source' = 2 /\ UNCHANGED <<dep, binary, buildMutex>>
        /\ met'.source = \E d \in Deployments : UnderWay(d) /\ dep[d].hash # 0
    BY <1>13, <1>k DEF SourceChanges, Panel
  <2>2. ~met.source
    BY <2>1 DEF BuildInvariant
  <2>3. ~met'.source => \A d \in Deployments : dep[d].at \notin Hashed
    BY <1>k, <2>1 DEF BuildInvariant, UnderWay, Hashed
  <2> QED BY <2>1, <2>2, <2>3 DEF BuildInvariant, Hashed, Building, Sending
<1>14. ASSUME NEW n \in Nodes, Register(n) \/ RotateToken(n) \/ CleanupWithProgress(n)
       PROVE  BuildInvariant'
  BY <1>14, <1>q DEF Register, RotateToken, CleanupWithProgress, Panel, Given
<1>15. CASE UNCHANGED deployVars
  BY <1>15, <1>q DEF deployVars
<1> QED
  BY <1>1, <1>3, <1>4, <1>5, <1>6, <1>7, <1>8, <1>9, <1>10, <1>11, <1>12, <1>13, <1>14, <1>15
  DEF DeployNext, DeployStep

\* A step of d, or of nobody, after which d neither sends, starts nor verifies: what is on
\* the server stays or goes.
LEMMA ServerKept ==
    ASSUME ServerInvariant, DeployTyped, NEW d \in Deployments,
           source' = source, met'.source = met.source, met.nodes \subseteq met'.nodes,
           \A e \in Deployments \ {d} : dep'[e] = dep[e],
           \A e \in Deployments \ {d} : UnderWay(d)' /\ UnderWay(e)' /\ NodeOf(d)' = NodeOf(e)'
                                         => NodeOf(d)' \in met'.nodes,
           dep'[d] = dep[d] \/ dep'[d].at \notin {"sent", "start", "verify"},
           \A n \in Nodes : dir'[n] \in {dir[n], NoOne},
           \A n \in Nodes : container'[n] \in {container[n], Stopped}
    PROVE  ServerInvariant'
<1>1. \A e \in Deployments : dep[e].at \in {"sent", "start", "verify"} => dep[e].node \in Nodes
  BY DEF DeployTyped, UnderWay, NodeOf
<1>2. /\ Stopped.agent = NoFile /\ NoFile # Torn
  BY DeploymentKinds DEF Stopped
<1>3. \A e, f \in Deployments :
         UnderWay(e)' /\ UnderWay(f)' /\ NodeOf(e)' = NodeOf(f)' /\ e # f
             => NodeOf(e)' \in met'.nodes
  BY DEF ServerInvariant, UnderWay, NodeOf
<1>4. AgentIsWhole'
  BY <1>2 DEF ServerInvariant, AgentIsWhole
<1>5. ASSUME ~met'.source, NEW e \in Deployments
      PROVE  /\ dep'[e].at = "sent" /\ NodeOf(e)' \notin met'.nodes /\ dir'[NodeOf(e)'] # NoOne
                   => dir'[NodeOf(e)'].writer = e
             /\ dep'[e].at = "start" /\ dir'[NodeOf(e)'] # NoOne =>
                   \/ dir'[NodeOf(e)'].agent = source'
                   \/ dir'[NodeOf(e)'].agent = Torn /\ NodeOf(e)' \in met'.nodes
             /\ dep'[e].at = "verify" => container'[NodeOf(e)'].agent \in {NoFile, Torn, source'}
  <2>1. dep'[e] = dep[e] \/ dep'[e].at \notin {"sent", "start", "verify"}
    OBVIOUS
  <2>2. CASE dep'[e].at \notin {"sent", "start", "verify"}
    BY <2>2
  <2>3. CASE dep'[e] = dep[e] /\ dep[e].at \in {"sent", "start", "verify"}
    <3>1. dep[e].node \in Nodes /\ NodeOf(e) = dep[e].node /\ NodeOf(e)' = dep[e].node
      BY <1>1, <2>3 DEF NodeOf
    <3>2. /\ dir'[dep[e].node] \in {dir[dep[e].node], NoOne}
          /\ container'[dep[e].node] \in {container[dep[e].node], Stopped}
      BY <3>1
    <3> QED BY <1>2, <1>5, <2>3, <3>1, <3>2 DEF ServerInvariant
  <2> QED BY <2>1, <2>2, <2>3
<1> QED BY <1>3, <1>4, <1>5 DEF ServerInvariant

LEMMA ServerStep ==
    ASSUME DeployInvariant, [DeployNext]_deployVars PROVE ServerInvariant'
<1>t. DeployTypeOK /\ DeployTyped /\ BuildInvariant /\ ServerInvariant
  BY DEF DeployTyped, DeployInvariant
<1>k. /\ dep \in [Deployments -> Dep]
      /\ \A d \in Deployments :
            /\ dep[d].at \in DepStages
            /\ dep[d].hash \in {0, 1, 2} /\ dep[d].copy \in {0, 1, 2, -1}
      /\ source \in {1, 2} /\ Versions = {1, 2} /\ NoFile = 0 /\ Torn = -1
      /\ binary \in [agent : Binaries, hash : Versions \cup {0}]
      /\ met \in [nodes : SUBSET Nodes, source : BOOLEAN]
      /\ dir \in [Nodes -> Dir \cup {NoOne}] /\ container \in [Nodes -> Agent]
  BY <1>t, DeployTypes, DeploymentKinds
<1>n. \A d \in Deployments : UnderWay(d) => NodeOf(d) \in Nodes
  BY <1>t DEF DeployTyped
\* Nobody moves; the server may lose something.
<1>q. ASSUME UNCHANGED <<dep, source, met>>,
             \A n \in Nodes : dir'[n] \in {dir[n], NoOne},
             \A n \in Nodes : container'[n] \in {container[n], Stopped}
      PROVE  ServerInvariant'
  <2>1. CASE Deployments = {}
    BY <1>q, <1>t, <2>1, DeploymentKinds DEF ServerInvariant, AgentIsWhole, Stopped
  <2>2. CASE Deployments # {}
    <3>1. PICK d \in Deployments : TRUE
      BY <2>2
    <3> QED BY <1>q, <1>t, <3>1, ServerKept DEF ServerInvariant, UnderWay, NodeOf
  <2> QED BY <2>1, <2>2
<1>m. ASSUME NEW d \in Deployments, UnderWay(d), NodeOf(d)' = NodeOf(d),
             UNCHANGED <<source, met>>,
             \A e \in Deployments \ {d} : dep'[e] = dep[e],
             dep'[d].at \notin {"sent", "start", "verify"},
             \A n \in Nodes : dir'[n] \in {dir[n], NoOne},
             \A n \in Nodes : container'[n] \in {container[n], Stopped}
      PROVE  ServerInvariant'
  <2>1. \A e \in Deployments \ {d} : UnderWay(d)' /\ UnderWay(e)' /\ NodeOf(d)' = NodeOf(e)'
                                         => NodeOf(d)' \in met'.nodes
    BY <1>m, <1>t DEF ServerInvariant, UnderWay, NodeOf
  <2> QED BY <1>m, <1>t, <2>1, ServerKept
<1>1. ASSUME NEW d \in Deployments, NEW n \in Nodes, StartDeploy(d, n) PROVE ServerInvariant'
  <2>1. /\ dep'[d].at = "clean" /\ dep'[d].node = n
        /\ \A e \in Deployments \ {d} : dep'[e] = dep[e]
        /\ dep[d].at = "idle" /\ UNCHANGED <<source, dir, container>>
        /\ met'.source = met.source
        /\ met'.nodes = IF \E e \in Deployments : UnderWay(e) /\ NodeOf(e) = n
                         THEN met.nodes \cup {n} ELSE met.nodes
    BY <1>1, <1>k DEF StartDeploy, Blank, DeployAt, Server
  <2> QED BY <1>t, <2>1, ServerKept DEF UnderWay, NodeOf
<1>2. ASSUME NEW d \in Deployments, NEW stage \in DepStages,
             stage \notin {"sent", "start", "verify"}, UnderWay(d), DeployGoto(d, stage),
             UNCHANGED <<source, met>>,
             \A n \in Nodes : dir'[n] \in {dir[n], NoOne},
             \A n \in Nodes : container'[n] \in {container[n], Stopped}
      PROVE  ServerInvariant'
  BY <1>2, <1>m, <1>t, DeploymentGoes DEF NodeOf
<1>3. ASSUME NEW d \in Deployments,
             \/ DeployBreaks(d) \/ CleanOldDeployment(d) \/ EnsureDocker(d)
             \/ EnsureDockerFails(d) \/ VerifyRegistration(d)
             \/ CheckCache(d) \/ LockBuild(d) \/ Compile(d) \/ CompileEnds(d) \/ SaveHash(d)
      PROVE  ServerInvariant'
  <2>1. \E stage \in DepStages : /\ stage \notin {"sent", "start", "verify"}
                                /\ DeployGoto(d, stage)
    BY <1>3, DeploymentKinds
       DEF DeployBreaks, CleanOldDeployment, EnsureDocker, EnsureDockerFails,
           VerifyRegistration, CheckCache, LockBuild, Compile, CompileEnds, SaveHash, DeployFails
  <2>2. UnderWay(d) /\ UNCHANGED <<source, met>>
    BY <1>3
       DEF DeployBreaks, CleanOldDeployment, EnsureDocker, EnsureDockerFails,
           VerifyRegistration, CheckCache, LockBuild, Compile, CompileEnds, SaveHash,
           DeployAt, UnderWay, Given
  <2>3. /\ \A n \in Nodes : dir'[n] \in {dir[n], NoOne}
        /\ \A n \in Nodes : container'[n] \in {container[n], Stopped}
    BY <1>3, <1>k
       DEF DeployBreaks, CleanOldDeployment, EnsureDocker, EnsureDockerFails,
           VerifyRegistration, CheckCache, LockBuild, Compile, CompileEnds, SaveHash, Server
  <2> QED BY <1>2, <2>1, <2>2, <2>3
<1>4. ASSUME NEW d \in Deployments,
             HashSource(d) \/ ReadBinary(d) \/ SendFails(d) \/ CompileFails(d)
      PROVE  ServerInvariant'
  <2>1. /\ UnderWay(d) /\ UNCHANGED <<source, met, dir, container>>
        /\ dep[d].at \in {"hash", "read", "sent", "compile"}
    BY <1>4 DEF HashSource, ReadBinary, SendFails, CompileFails, DeployAt, UnderWay, Given, Server
  <2>2. CASE DeployFails(d)
    BY <1>2, <2>1, <2>2, DeploymentKinds DEF DeployFails
  <2>3. CASE ~DeployFails(d)
    <3>1. \/ dep' = [dep EXCEPT ![d].at = "cache", ![d].hash = source]
          \/ dep' = [dep EXCEPT ![d].at = "send", ![d].copy = binary.agent]
          \/ dep' = [dep EXCEPT ![d].at = "read", ![d].tries = 1]
          \/ dep' = [dep EXCEPT ![d].tries = 1] /\ dep[d].at = "compile"
      BY <1>4, <2>3 DEF HashSource, ReadBinary, SendFails, CompileFails, DeployAt
    <3>2. /\ dep'[d].at \in {"cache", "send", "read", "compile"} /\ dep'[d].node = dep[d].node
          /\ \A e \in Deployments \ {d} : dep'[e] = dep[e]
      BY <1>k, <3>1 DEF Dep
    <3> QED BY <1>m, <2>1, <3>2 DEF NodeOf
  <2> QED BY <2>2, <2>3
\* A step of d that writes on its node: whoever else is on that node has been met.
<1>w. ASSUME NEW d \in Deployments, UnderWay(d), NodeOf(d)' = NodeOf(d),
             \A e \in Deployments \ {d} : dep'[e] = dep[e], UNCHANGED <<source, met>>,
             \A m \in Nodes \ {NodeOf(d)} : dir'[m] = dir[m] /\ container'[m] = container[m],
             ~met.source =>
               LET n == NodeOf(d) IN
               /\ dep'[d].at = "sent" /\ n \notin met.nodes /\ dir'[n] # NoOne
                     => dir'[n].writer = d
               /\ dep'[d].at = "start" /\ dir'[n] # NoOne =>
                     \/ dir'[n].agent = source
                     \/ dir'[n].agent = Torn /\ n \in met.nodes
               /\ dep'[d].at = "verify" => container'[n].agent \in {NoFile, Torn, source}
               /\ (\E e \in Deployments \ {d} : dep[e].at = "start" /\ NodeOf(e) = n)
                     /\ dir'[n] # NoOne => dir'[n].agent \in {source, Torn}
               /\ container'[n].agent \in {container[n].agent, Torn, source}
               /\ n \notin met.nodes => container'[n].agent \in {container[n].agent, source}
      PROVE  ServerInvariant'
  <2> DEFINE n == NodeOf(d)
  <2>1. n \in Nodes
    BY <1>n, <1>w
  <2>2. ASSUME NEW e \in Deployments \ {d}, UnderWay(e), NodeOf(e) = n
        PROVE  n \in met.nodes
    BY <1>t, <1>w, <2>2 DEF ServerInvariant
  <2>3. \A e, f \in Deployments :
               UnderWay(e)' /\ UnderWay(f)' /\ NodeOf(e)' = NodeOf(f)' /\ e # f
                  => NodeOf(e)' \in met'.nodes
    BY <1>t, <1>w DEF ServerInvariant, UnderWay, NodeOf
  <2>4. ASSUME NEW e \in Deployments \ {d}, dep[e].at \in {"sent", "start", "verify"}, ~met.source
        PROVE  LET m == NodeOf(e) IN
               /\ dep[e].at = "sent" /\ m \notin met.nodes /\ dir'[m] # NoOne => dir'[m].writer = e
               /\ dep[e].at = "start" /\ dir'[m] # NoOne =>
                     \/ dir'[m].agent = source
                     \/ dir'[m].agent = Torn /\ m \in met.nodes
               /\ dep[e].at = "verify" => container'[m].agent \in {NoFile, Torn, source}
    <3>1. UnderWay(e) /\ NodeOf(e) \in Nodes
      BY <1>n, <2>4 DEF UnderWay
    <3>2. CASE NodeOf(e) = n
      BY <1>t, <1>w, <2>2, <2>4, <3>1, <3>2 DEF ServerInvariant
    <3>3. CASE NodeOf(e) # n
      BY <1>t, <1>w, <2>4, <3>1, <3>3 DEF ServerInvariant
    <3> QED BY <3>2, <3>3
  <2>5. AgentIsWhole'
    <3>1. source # Torn
      BY <1>k
    <3> QED BY <1>t, <1>w, <2>1, <3>1 DEF ServerInvariant, AgentIsWhole
  <2>6. \A e \in Deployments \ {d} : NodeOf(e)' = NodeOf(e) /\ dep'[e].at = dep[e].at
    BY <1>w DEF NodeOf
  <2> HIDE DEF n
  <2> QED BY <1>w, <2>3, <2>4, <2>5, <2>6 DEF ServerInvariant
<1>5. ASSUME NEW d \in Deployments, PrepareFiles(d) PROVE ServerInvariant'
  <2>1. /\ dep'[d].at = "hash" /\ NodeOf(d)' = NodeOf(d)
        /\ \A e \in Deployments \ {d} : dep'[e] = dep[e]
    BY <1>5, <1>t, DeploymentGoes, DeploymentKinds DEF PrepareFiles, NodeOf
  <2>2. UnderWay(d) /\ NodeOf(d) \in Nodes /\ UNCHANGED <<source, met, container, binary>>
    BY <1>5, <1>n DEF PrepareFiles, DeployAt, UnderWay, Panel, Given
  <2>3. /\ \A m \in Nodes \ {NodeOf(d)} : dir'[m] = dir[m]
        /\ dir'[NodeOf(d)].agent = binary.agent
    BY <1>5, <1>k, <2>2 DEF PrepareFiles, Empty
  <2>4. ~met.source => \A e \in Deployments : dep[e].at = "start" => binary.agent = source
    BY <1>t DEF BuildInvariant, Sending
  <2> QED BY <1>w, <2>1, <2>2, <2>3, <2>4
<1>6. ASSUME NEW d \in Deployments, SendBegins(d) \/ SendEnds(d) PROVE ServerInvariant'
  <2> DEFINE n == NodeOf(d)
  <2>1. /\ UnderWay(d) /\ n \in Nodes /\ UNCHANGED <<source, met, container>>
        /\ dep[d].at \in {"send", "sent"}
    BY <1>6, <1>n DEF SendBegins, SendEnds, DeployAt, UnderWay, Given
  <2>2. CASE dir[n] = NoOne
    <3>1. DeployGoto(d, "failed") /\ dir' = dir
      BY <1>6, <2>2 DEF SendBegins, SendEnds, DeployFails
    <3> QED BY <1>2, <2>1, <3>1, DeploymentKinds
  <2>3. CASE dir[n] # NoOne
    <3>1. \E stage \in {"sent", "start"} : DeployGoto(d, stage)
      BY <1>6, <2>3 DEF SendBegins, SendEnds
    <3>2. /\ NodeOf(d)' = n
          /\ \A e \in Deployments \ {d} : dep'[e] = dep[e]
      BY <1>t, <3>1, DeploymentGoes, DeploymentKinds DEF NodeOf
    <3>3. \A m \in Nodes \ {n} : dir'[m] = dir[m]
      BY <1>6, <1>k, <2>3 DEF SendBegins, SendEnds
    <3>4. dir[n] \in Dir
      BY <1>k, <2>1, <2>3
    <3>5. CASE SendBegins(d)
      <4>1. dep'[d].at = "sent"
        BY <1>t, <2>3, <3>5, DeploymentGoes, DeploymentKinds DEF SendBegins
      <4>2. dir'[n].agent = Torn /\ dir'[n].writer = d
        BY <1>k, <2>1, <2>3, <3>4, <3>5 DEF SendBegins, Dir
      <4> HIDE DEF n
      <4> QED BY <1>w, <2>1, <3>2, <3>3, <4>1, <4>2 DEF n
    <3>6. CASE SendEnds(d)
      <4>1. dep'[d].at = "start" /\ dep[d].at = "sent"
        BY <1>t, <2>3, <3>6, DeploymentGoes, DeploymentKinds DEF SendEnds, DeployAt
      <4>2. dir'[n].agent = IF dir[n].writer = d THEN dep[d].copy ELSE Torn
        BY <1>k, <2>1, <2>3, <3>4, <3>6 DEF SendEnds, Dir
      <4>3. ~met.source => /\ dep[d].copy = source
                           /\ n \notin met.nodes => dir[n].writer = d
        BY <1>t, <2>3, <4>1 DEF BuildInvariant, ServerInvariant
      <4> HIDE DEF n
      <4> QED BY <1>w, <2>1, <3>2, <3>3, <4>1, <4>2, <4>3 DEF n
    <3> QED BY <1>6, <3>5, <3>6
  <2> QED BY <2>2, <2>3
<1>7. ASSUME NEW d \in Deployments, StartContainer(d) PROVE ServerInvariant'
  <2> DEFINE n == NodeOf(d)
  <2>1. /\ UnderWay(d) /\ n \in Nodes /\ UNCHANGED <<source, met, dir>>
        /\ dep[d].at = "start"
    BY <1>7, <1>n DEF StartContainer, DeployAt, UnderWay, Given
  <2>2. CASE DeployFails(d) /\ container' = container
    BY <1>2, <2>1, <2>2, DeploymentKinds DEF DeployFails
  <2>3. CASE ~(DeployFails(d) /\ container' = container)
    <3>1. /\ DeployGoto(d, "verify") /\ dir[n] # NoOne
          /\ container' = [container EXCEPT ![n] = [agent |-> dir[n].agent, token |-> dir[n].env]]
      BY <1>7, <2>3 DEF StartContainer
    <3>2. /\ NodeOf(d)' = n /\ dep'[d].at = "verify"
          /\ \A e \in Deployments \ {d} : dep'[e] = dep[e]
      BY <1>t, <3>1, DeploymentGoes, DeploymentKinds DEF NodeOf
    <3>3. /\ \A m \in Nodes \ {n} : container'[m] = container[m]
          /\ container'[n].agent = dir[n].agent
      BY <1>k, <2>1, <3>1
    <3>4. ~met.source => \/ dir[n].agent = source
                         \/ dir[n].agent = Torn /\ n \in met.nodes
      BY <1>t, <2>1, <3>1 DEF ServerInvariant
    <3>5. ~met.source => \A e \in Deployments \ {d} : dep[e].at = "start" /\ NodeOf(e) = n
                             /\ dir[n] # NoOne => dir[n].agent \in {source, Torn}
      BY <1>t DEF ServerInvariant
    <3> HIDE DEF n
    <3> QED BY <1>w, <2>1, <3>2, <3>3, <3>4, <3>5 DEF n
  <2> QED BY <2>2, <2>3
<1>8. CASE DockerDies \/ \E d \in Deployments : DockerRevived(d)
  BY <1>8, <1>q DEF DockerDies, DockerRevived, Panel, Given
<1>9. CASE SourceChanges
  <2>1. /\ source = 1 /\ UNCHANGED <<dep, dir, container>>
        /\ met'.source = \E d \in Deployments : UnderWay(d) /\ dep[d].hash # 0
        /\ met'.nodes = met.nodes
    BY <1>9, <1>k DEF SourceChanges, Server
  <2>2. ~met.source
    BY <1>t, <2>1 DEF BuildInvariant
  <2>3. ~met'.source => \A d \in Deployments : dep[d].at \notin {"sent", "start", "verify"}
    BY <1>k, <1>t, <2>1 DEF BuildInvariant, UnderWay, Hashed
  <2>4. AgentIsWhole'
    BY <1>t, <2>1, <2>2 DEF ServerInvariant, AgentIsWhole
  <2>5. \A d \in Deployments : NodeOf(d)' = NodeOf(d) /\ UnderWay(d)' = UnderWay(d)
    BY <2>1 DEF NodeOf, UnderWay
  <2> QED BY <1>t, <2>1, <2>3, <2>4, <2>5 DEF ServerInvariant
<1>10. ASSUME NEW n \in Nodes, Register(n) \/ RotateToken(n) \/ CleanupWithProgress(n)
       PROVE  ServerInvariant'
  <2>1. /\ UNCHANGED <<dep, source, met>>
        /\ \A m \in Nodes : dir'[m] \in {dir[m], NoOne}
        /\ \A m \in Nodes : container'[m] \in {container[m], Stopped}
    BY <1>10, <1>k DEF Register, RotateToken, CleanupWithProgress, Server, Given
  <2> QED BY <1>q, <2>1
<1>11. CASE UNCHANGED deployVars
  BY <1>11, <1>q DEF deployVars
<1> QED
  BY <1>1, <1>3, <1>4, <1>5, <1>6, <1>7, <1>8, <1>9, <1>10, <1>11 DEF DeployNext, DeployStep

LEMMA LogStep ==
    ASSUME DeployInvariant, [DeployNext]_deployVars PROVE LogInvariant'
<1>t. /\ container \in [Nodes -> Agent] /\ token \in [Nodes -> Tokens]
      /\ heard \subseteq Nodes /\ stale \subseteq Nodes /\ LogInvariant
      /\ \A d \in Deployments : UnderWay(d) => NodeOf(d) \in Nodes
  BY DeployTypes DEF DeployInvariant, DeployTyped, DeployTypeOK
<1>q. ASSUME UNCHANGED token, stale \subseteq stale',
             \A n \in heard' : n \in heard /\ container'[n] = container[n]
      PROVE  LogInvariant'
  BY <1>q, <1>t DEF LogInvariant
<1>1. ASSUME UNCHANGED <<token, stale, heard, container>> PROVE LogInvariant'
  BY <1>1, <1>q
<1>2. ASSUME NEW d \in Deployments, CleanOldDeployment(d) PROVE LogInvariant'
  BY <1>2, <1>t, <1>q DEF CleanOldDeployment, Given
<1>3. ASSUME NEW d \in Deployments, EnsureDocker(d) \/ EnsureDockerFails(d) PROVE LogInvariant'
  <2>1. UNCHANGED <<token, stale>> /\ (heard' = {} \/ UNCHANGED <<heard, container>>)
    BY <1>3 DEF EnsureDocker, EnsureDockerFails, Given
  <2> QED BY <2>1, <1>q
<1>4. ASSUME NEW d \in Deployments, StartContainer(d) PROVE LogInvariant'
  <2>1. CASE UNCHANGED <<container, heard, stale>>
    BY <1>4, <2>1, <1>1 DEF StartContainer
  <2>2. CASE ~(UNCHANGED <<container, heard, stale>>)
    <3>1. /\ token' = token /\ heard' = heard \ {NodeOf(d)} /\ stale' = stale \ {NodeOf(d)}
          /\ \A n \in Nodes \ {NodeOf(d)} : container'[n] = container[n]
      BY <1>4, <1>t, <2>2 DEF StartContainer
    <3> QED BY <3>1, <1>t DEF LogInvariant
  <2> QED BY <2>1, <2>2
<1>5. ASSUME NEW d \in Deployments,
             \/ DeployBreaks(d) \/ PrepareFiles(d) \/ HashSource(d) \/ CheckCache(d)
             \/ LockBuild(d) \/ Compile(d) \/ CompileEnds(d) \/ SaveHash(d) \/ ReadBinary(d)
             \/ SendBegins(d) \/ SendEnds(d) \/ VerifyRegistration(d) \/ CompileFails(d)
             \/ SendFails(d) \/ DockerRevived(d)
      PROVE  LogInvariant'
  BY <1>5, <1>1
  DEF DeployBreaks, PrepareFiles, HashSource, CheckCache, LockBuild, Compile, CompileEnds,
      SaveHash, ReadBinary, SendBegins, SendEnds, VerifyRegistration, CompileFails, SendFails,
      DockerRevived, Server, Given
<1>6. ASSUME NEW d \in Deployments, NEW n \in Nodes, StartDeploy(d, n) PROVE LogInvariant'
  BY <1>6, <1>1 DEF StartDeploy, Server
<1>7. CASE DockerDies \/ SourceChanges
  BY <1>7, <1>1 DEF DockerDies, SourceChanges, Server, Given
<1>8. ASSUME NEW n \in Nodes, Register(n) PROVE LogInvariant'
  BY <1>8, <1>t DEF Register, Given, LogInvariant
<1>9. ASSUME NEW n \in Nodes, RotateToken(n) \/ CleanupWithProgress(n) PROVE LogInvariant'
  <2>1. /\ stale' = stale \cup ({n} \cap heard) /\ heard' \subseteq heard
        /\ \A m \in Nodes \ {n} : token'[m] = token[m]
        /\ \A m \in heard' : container'[m] = container[m]
    BY <1>9, <1>t DEF RotateToken, CleanupWithProgress, Server
  <2> QED BY <2>1, <1>t DEF LogInvariant
<1>10. CASE UNCHANGED deployVars
  BY <1>10, <1>1 DEF deployVars
<1> QED
  BY <1>2, <1>3, <1>4, <1>5, <1>6, <1>7, <1>8, <1>9, <1>10 DEF DeployNext, DeployStep

LEMMA DeployInvariantHolds == DeploySpec => []DeployInvariant
<1>1. ASSUME DeployInit PROVE DeployInvariant
  <2>1. /\ \A d \in Deployments : dep[d] = Blank /\ dep[d].at = "idle"
        /\ \A n \in Nodes : container[n] = Stopped /\ container[n].agent # Torn
    BY <1>1, DeploymentKinds DEF DeployInit, Blank, Stopped
  <2>2. DeployTypeOK
    <3>1. /\ dep \in [Deployments -> Dep] /\ dir \in [Nodes -> Dir \cup {NoOne}]
          /\ container \in [Nodes -> Agent]
      BY <1>1, DeploymentKinds DEF DeployInit
    <3> QED BY <1>1, <3>1, DeploymentKinds, DeployAssumption
            DEF DeployInit, DeployTypeOK, Dep, Dir, Agent
  <2>3. BuildInvariant
    BY <1>1, <2>1, DeploymentKinds DEF DeployInit, BuildInvariant, Hashed, Building, Sending
  <2>4. ServerInvariant
    BY <1>1, <2>1 DEF DeployInit, ServerInvariant, AgentIsWhole, UnderWay
  <2>5. LogInvariant
    BY <1>1 DEF DeployInit, LogInvariant
  <2> QED BY <2>1, <2>2, <2>3, <2>4, <2>5 DEF DeployInvariant, DeployTyped, UnderWay
<1>2. DeployInvariant /\ [DeployNext]_deployVars => DeployInvariant'
  BY DeployTypedStep, BuildStep, ServerStep, LogStep DEF DeployInvariant
<1> QED BY <1>1, <1>2, PTL DEF DeploySpec

\* The deployments, the cached binary, the servers and the tokens keep their types, for any
\* deployments, nodes and faults.
THEOREM DeploymentsAreTyped == DeploySpec => []DeployTypeOK
<1>1. DeployInvariant => DeployTypeOK
  BY DEF DeployInvariant, DeployTyped
<1> QED BY <1>1, DeployInvariantHolds, PTL

\* No container is started with a half-written agent, for any deployments that compile, send
\* and start at once, while the source is still and a node is deployed once at a time.
THEOREM AgentsAreWhole == DeploySpec => []AgentIsWhole
<1>1. DeployInvariant => AgentIsWhole
  BY DEF DeployInvariant, ServerInvariant
<1> QED BY <1>1, DeployInvariantHolds, PTL

\* Success is reported by a step of VerifyRegistration alone, for a container that registered:
\* it runs a version of the agent, that of the source, and its token is the present one unless
\* that was changed since.
LEMMA DoneStep ==
    ASSUME DeployInvariant, [DeployNext]_deployVars, NEW d \in Deployments,
           dep'[d].at = "done", dep[d].at # "done"
    PROVE  LET n == NodeOf(d) IN
           /\ met.source \/ container[n].agent = dep[d].hash
           /\ n \in stale \/ (container[n].token = token[n] /\ token[n] # 0)
<1>t. /\ DeployTypeOK /\ BuildInvariant /\ ServerInvariant /\ LogInvariant
      /\ dep \in [Deployments -> Dep]
  BY DepChanges DEF DeployInvariant, DeployTyped
<1>1. VerifyRegistration(d) /\ Registered(NodeOf(d))
  <2>1. ASSUME NEW e \in Deployments, NEW n \in Nodes, StartDeploy(e, n) PROVE FALSE
    <3>1. dep'[e].at = "clean" /\ \A f \in Deployments \ {e} : dep'[f] = dep[f]
      BY <2>1, <1>t DEF StartDeploy, Blank
    <3> QED BY <3>1
  <2>2. ASSUME NEW e \in Deployments, NEW stage \in DepStages, DeployGoto(e, stage)
        PROVE  d = e /\ stage = "done"
    BY <1>t, <2>2, DeploymentGoes
  <2>3. ASSUME NEW e \in Deployments,
               \/ DeployBreaks(e) \/ EnsureDockerFails(e)
               \/ CleanOldDeployment(e) \/ EnsureDocker(e) \/ PrepareFiles(e)
               \/ CheckCache(e) \/ LockBuild(e) \/ Compile(e) \/ CompileEnds(e) \/ SaveHash(e)
               \/ SendBegins(e) \/ SendEnds(e) \/ StartContainer(e)
        PROVE  FALSE
    <3>1. \E stage \in DepStages \ {"done"} : DeployGoto(e, stage)
      BY <2>3, DeploymentKinds
         DEF DeployBreaks, EnsureDockerFails, CleanOldDeployment, EnsureDocker, PrepareFiles,
             CheckCache, LockBuild, Compile, CompileEnds, SaveHash, SendBegins, SendEnds,
             StartContainer, DeployFails
    <3> QED BY <2>2, <3>1
  <2>4. ASSUME NEW e \in Deployments,
               HashSource(e) \/ ReadBinary(e) \/ SendFails(e) \/ CompileFails(e)
        PROVE  FALSE
    <3>1. CASE DeployFails(e)
      BY <2>2, <3>1, DeploymentKinds DEF DeployFails
    <3>2. CASE ~DeployFails(e)
      <4>1. \/ dep' = [dep EXCEPT ![e].at = "cache", ![e].hash = source]
            \/ dep' = [dep EXCEPT ![e].at = "send", ![e].copy = binary.agent]
            \/ dep' = [dep EXCEPT ![e].at = "read", ![e].tries = 1]
            \/ dep' = [dep EXCEPT ![e].tries = 1]
        BY <2>4, <3>2 DEF HashSource, ReadBinary, SendFails, CompileFails
      <4>2. /\ dep'[e].at \in {"cache", "send", "read", dep[e].at}
            /\ \A f \in Deployments \ {e} : dep'[f] = dep[f]
        BY <1>t, <4>1 DEF Dep
      <4> QED BY <4>2
    <3> QED BY <3>1, <3>2
  <2>5. ASSUME NEW e \in Deployments, VerifyRegistration(e)
        PROVE  e = d /\ Registered(NodeOf(d))
    BY <2>2, <2>5, DeploymentKinds DEF VerifyRegistration
  <2>6. CASE \/ DockerDies \/ SourceChanges \/ UNCHANGED deployVars
             \/ \E e \in Deployments : DockerRevived(e)
             \/ \E n \in Nodes : Register(n) \/ RotateToken(n) \/ CleanupWithProgress(n)
    BY <2>6 DEF DockerDies, SourceChanges, DockerRevived, Register, RotateToken,
                CleanupWithProgress, deployVars
  <2> QED BY <2>1, <2>3, <2>4, <2>5, <2>6 DEF DeployNext, DeployStep
<1>2. dep[d].at = "verify" /\ (~met.source => dep[d].hash = source)
  BY <1>1, <1>t DEF VerifyRegistration, DeployAt, BuildInvariant, Hashed
<1>3. ~met.source => container[NodeOf(d)].agent \in {NoFile, Torn, source}
  BY <1>2, <1>t DEF ServerInvariant
<1>4. /\ container[NodeOf(d)].agent \in Versions
      /\ LET n == NodeOf(d) IN n \in stale \/ (container[n].token = token[n] /\ token[n] # 0)
  BY <1>1, <1>t DEF Registered, LogInvariant
<1> QED BY <1>2, <1>3, <1>4, DeploymentKinds

\* A deployment reports success only when its node runs the agent of the source it hashed and
\* has registered with the token of the database, changed since or not.
THEOREM DeploymentsServe == DeploySpec => DoneIsServing
<1>1. DeployInvariant /\ [DeployNext]_deployVars =>
        [\A d \in Deployments : dep'[d].at = "done" /\ dep[d].at # "done"
          => LET n == NodeOf(d) IN
             /\ met.source \/ container[n].agent = dep[d].hash
             /\ n \in stale \/ (container[n].token = token[n] /\ token[n] # 0)]_deployVars
  BY DoneStep
<1> QED BY <1>1, DeployInvariantHolds, PTL DEF DeploySpec, DoneIsServing
=============================================================================
