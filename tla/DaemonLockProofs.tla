--------------------------- MODULE DaemonLockProofs ---------------------------
(***************************************************************************)
(* What is proved of DaemonLock for every set of process ids, programs and *)
(* files, and any number of kills.                                         *)
(***************************************************************************)
EXTENDS DaemonLock, TLAPS

\* Whoever is about to send a signal knows to whom.
TargetInv == \A p \in Procs : pc[p] = "signal" => seen[p] \in Procs

TypeInv == TypeOK /\ TargetInv

-----------------------------------------------------------------------------
(* Types.                                                                    *)

PlaceTypes ==
  /\ pc \in [Procs -> {"gone", "boot"} \cup DaemonPcs \cup QueryPcs \cup CommandPcs]
  /\ ret \in [Procs -> Answers]
  /\ seen \in [Procs -> Procs \cup {NoFile}]
  /\ TargetInv

FileTypes ==
  /\ pidFile \in Procs \cup {Garbled, NoFile}
  /\ writers \subseteq Procs
  /\ Lock!LockFileTypeOK
  /\ Cmd!LockFileTypeOK

ServiceTypes ==
  /\ svc \in [Procs -> {"off", "on", "stopping"}]
  /\ signalled \subseteq Procs
  /\ raced \in BOOLEAN
  /\ crashes \in 0..MaxCrashes

LEMMA TypeParts == TypeInv <=> PlaceTypes /\ FileTypes /\ ServiceTypes
BY DEF TypeInv, TypeOK, PlaceTypes, FileTypes, ServiceTypes

\* A process gets an answer.
LEMMA AnswerPlaces ==
  ASSUME PlaceTypes, NEW p \in Procs, NEW r \in Procs \cup {NoFile}, Answer(p, r)
  PROVE  /\ PlaceTypes'
         /\ \E next \in QueryPcs \cup {"gone", "release", "spawn", "signal", "execute"} :
              pc' = [pc EXCEPT ![p] = next]
<1> USE DEF PlaceTypes, TargetInv, QueryPcs, CommandPcs, Answers
<1>1. CASE AnswerStart(p, r # NoFile)
  BY <1>1 DEF AnswerStart, Ask, Done
<1>2. CASE AnswerStop(p, r)
  BY <1>2 DEF AnswerStop, Ask, Done, Signal
<1>3. CASE AnswerRestart(p, r # NoFile)
  BY <1>3 DEF AnswerRestart, Ask, Done
<1>4. CASE AnswerStatus(p, r # NoFile)
  BY <1>4 DEF AnswerStatus, Ask, Done
<1>5. QED
  BY <1>1, <1>2, <1>3, <1>4 DEF Answer

LEMMA QueryPlaces ==
  ASSUME PlaceTypes, NEW p \in Procs, Query(p), pidFile \in Procs \cup {Garbled, NoFile}
  PROVE  /\ PlaceTypes'
         /\ pc[p] \in QueryPcs
         /\ \E next \in QueryPcs \cup {"gone", "release", "spawn", "signal", "execute"} :
              pc' = [pc EXCEPT ![p] = next]
<1> USE DEF PlaceTypes, TargetInv, QueryPcs, CommandPcs, Answers
<1>1. CASE ReadPid(p)
  BY <1>1 DEF ReadPid, Goto
<1>2. CASE CheckPid(p)
  <2>1. CASE seen[p] # p /\ Alive(seen[p])
    <3>1. Answer(p, seen[p]) /\ pc[p] = "check"
      BY <1>2, <2>1 DEF CheckPid
    <3>2. QED
      BY <3>1, AnswerPlaces
  <2>2. CASE ~(seen[p] # p /\ Alive(seen[p]))
    BY <1>2, <2>2 DEF CheckPid, Goto
  <2>3. QED
    BY <2>1, <2>2
<1>3. CASE RemoveStalePid(p)
  BY <1>3 DEF RemoveStalePid, RemovePidFile, Goto
<1>4. CASE RemoveStaleLock(p)
  BY <1>4 DEF RemoveStaleLock, RemoveLockFile, Goto
<1>5. CASE Search(p)
  <2>1. pc[p] = "search" /\ \E r \in Procs \cup {NoFile} : Answer(p, r)
    BY <1>5 DEF Search
  <2>2. QED
    BY <2>1, AnswerPlaces
<1>6. QED
  BY <1>1, <1>2, <1>3, <1>4, <1>5 DEF Query

LEMMA DiePlaces ==
  ASSUME PlaceTypes, NEW p \in Procs, Die(p)
  PROVE  PlaceTypes'
BY DEF PlaceTypes, TargetInv, Answers, Die

\* The daemon's steps that move it and leave what it asks and has read alone.
LEMMA MovePlaces ==
  ASSUME PlaceTypes, NEW p \in Procs, NEW here, NEW next \in DaemonPcs, Goto(p, here, next),
         UNCHANGED <<ret, seen>>
  PROVE  PlaceTypes'
BY DEF PlaceTypes, TargetInv, DaemonPcs, Goto

LEMMA DaemonPlaces ==
  ASSUME PlaceTypes, NEW p \in Procs, Daemon(p), pidFile \in Procs \cup {Garbled, NoFile}
  PROVE  PlaceTypes'
<1> USE DEF DaemonPcs
<1>1. CASE LockTimeout(p) \/ Exit(p)
  BY <1>1, DiePlaces DEF LockTimeout, Exit
<1>2. CASE ReadStale(p)
  BY <1>2 DEF ReadStale, PlaceTypes, TargetInv, Goto
<1>3. CASE VerifyStale(p)
  BY <1>3 DEF VerifyStale, PlaceTypes, TargetInv, Goto
<1>4. CASE Boot(p) \/ OpenLock(p) \/ TakeLock(p) \/ RetryLock(p)
  BY <1>4, MovePlaces DEF Boot, OpenLock, TakeLock, RetryLock, LockStep
<1>5. CASE RemoveUnstale(p) \/ GiveUpRemove(p) \/ UnlockRemove(p) \/ UnlockPid(p)
  BY <1>5, MovePlaces DEF RemoveUnstale, GiveUpRemove, UnlockRemove, UnlockPid, RemovePidFile,
    RemoveLockFile
<1>6. CASE CreatePid(p) \/ WritePid(p)
  BY <1>6, MovePlaces DEF CreatePid, WritePid
<1>7. CASE GiveUp(p) \/ UnlockLock(p) \/ StartService(p) \/ Shutdown(p)
  BY <1>7, MovePlaces DEF GiveUp, UnlockLock, StartService, Shutdown, LockStep, SvcStep
<1>8. QED
  BY <1>1, <1>2, <1>3, <1>4, <1>5, <1>6, <1>7 DEF Daemon

LEMMA CommandPlaces ==
  ASSUME PlaceTypes, NEW p \in Procs, Command(p)
  PROVE  PlaceTypes'
<1> USE DEF PlaceTypes, TargetInv, CommandPcs, QueryPcs, Answers
<1>1. CASE CmdOpen(p) \/ CmdRetry(p) \/ CmdTimeout(p) \/ CmdTake(p)
  BY <1>1 DEF CmdOpen, CmdRetry, CmdTimeout, CmdTake, CmdStep, Goto, Ask
<1>2. CASE Release(p) \/ CmdRemove(p) \/ Execute(p)
  BY <1>2 DEF Release, CmdRemove, CmdStep, Goto, Execute, Ask
<1>3. CASE Spawn(p)
  BY <1>3 DEF Spawn
<1>4. CASE Terminate(p)
  BY <1>4 DEF Terminate
<1>5. QED
  BY <1>1, <1>2, <1>3, <1>4 DEF Command

LEMMA InvokePlaces ==
  ASSUME PlaceTypes, NEW p \in Procs, Invoke(p)
  PROVE  PlaceTypes'
BY DEF PlaceTypes, TargetInv, CommandPcs, QueryPcs, Answers, Invoke, Goto, Ask

-----------------------------------------------------------------------------
(* The files.  What a step does to a lock file is one of the operations of    *)
(* LockFile, or nothing.                                                      *)

LEMMA LockFileTypes ==
  ASSUME NEW p \in Procs, Lock!LockFileTypeOK,
         \/ Lock!Open(p) \/ Lock!TryLock(p) \/ Lock!Close(p) \/ Lock!Remove
         \/ UNCHANGED lockVars
  PROVE  Lock!LockFileTypeOK'
BY DEF Lock!LockFileTypeOK, Lock!Open, Lock!TryLock, Lock!Close, Lock!Remove, lockVars

LEMMA CmdFileTypes ==
  ASSUME NEW p, Cmd!LockFileTypeOK,
         \/ p \in Procs /\ (Cmd!Open(p) \/ Cmd!TryLock(p))
         \/ Cmd!Close(p) \/ Cmd!Remove \/ UNCHANGED cmdVars
  PROVE  Cmd!LockFileTypeOK'
BY DEF Cmd!LockFileTypeOK, Cmd!Open, Cmd!TryLock, Cmd!Close, Cmd!Remove, cmdVars

LEMMA QueryFiles ==
  ASSUME FileTypes, ServiceTypes, NEW p \in Procs, Query(p)
  PROVE  FileTypes' /\ ServiceTypes'
<1>1. \/ Lock!Remove \/ UNCHANGED lockVars
  BY DEF Query, ReadPid, CheckPid, RemoveStalePid, RemoveStaleLock, Search, RemovePidFile,
    RemoveLockFile, Rest
<1>2. UNCHANGED <<cmdVars, svc, signalled, crashes>>
  BY DEF Query, ReadPid, CheckPid, RemoveStalePid, RemoveStaleLock, Search, RemovePidFile,
    RemoveLockFile, Rest
<1>3. (pidFile' = NoFile /\ writers' = {}) \/ UNCHANGED pidVars
  BY DEF Query, ReadPid, CheckPid, RemoveStalePid, RemoveStaleLock, Search, RemovePidFile,
    RemoveLockFile, Rest
<1>4. raced' \in BOOLEAN
  BY DEF ServiceTypes, Query, ReadPid, CheckPid, RemoveStalePid, RemoveStaleLock, Search,
    RemovePidFile, RemoveLockFile, Rest
<1>5. QED
  BY <1>1, <1>2, <1>3, <1>4, LockFileTypes, CmdFileTypes DEF FileTypes, ServiceTypes, pidVars

LEMMA DieFiles ==
  ASSUME FileTypes, NEW p \in Procs, Die(p)
  PROVE  FileTypes'
BY LockFileTypes, CmdFileTypes DEF FileTypes, Die

LEMMA DaemonFiles ==
  ASSUME FileTypes, ServiceTypes, NEW p \in Procs, Daemon(p)
  PROVE  FileTypes' /\ ServiceTypes'
<1>1. CASE LockTimeout(p) \/ Exit(p)
  BY <1>1, DieFiles DEF LockTimeout, Exit, ServiceTypes, Die
<1>2. CASE OpenLock(p) \/ TakeLock(p) \/ RetryLock(p) \/ GiveUp(p) \/ UnlockLock(p)
  BY <1>2, LockFileTypes, CmdFileTypes DEF OpenLock, TakeLock, RetryLock, GiveUp, UnlockLock,
    LockStep, FileTypes, ServiceTypes, pidVars
<1>3. CASE GiveUpRemove(p) \/ UnlockRemove(p)
  BY <1>3, LockFileTypes, CmdFileTypes DEF GiveUpRemove, UnlockRemove, RemoveLockFile,
    FileTypes, ServiceTypes, pidVars
<1>4. CASE RemoveUnstale(p) \/ UnlockPid(p)
  BY <1>4, LockFileTypes, CmdFileTypes DEF RemoveUnstale, UnlockPid, RemovePidFile, FileTypes,
    ServiceTypes
<1>5. CASE CreatePid(p) \/ WritePid(p)
  BY <1>5, LockFileTypes, CmdFileTypes DEF CreatePid, WritePid, FileTypes, ServiceTypes, pidVars
<1>6. CASE StartService(p) \/ Shutdown(p)
  BY <1>6, LockFileTypes, CmdFileTypes DEF StartService, Shutdown, SvcStep, FileTypes,
    ServiceTypes, pidVars
<1>7. CASE Boot(p) \/ ReadStale(p) \/ VerifyStale(p)
  BY <1>7, LockFileTypes, CmdFileTypes DEF Boot, ReadStale, VerifyStale, Rest, FileTypes,
    ServiceTypes, pidVars
<1>8. QED
  BY <1>1, <1>2, <1>3, <1>4, <1>5, <1>6, <1>7 DEF Daemon

LEMMA CommandFiles ==
  ASSUME PlaceTypes, FileTypes, ServiceTypes, NEW p \in Procs, Command(p)
  PROVE  FileTypes' /\ ServiceTypes'
<1>1. CASE CmdOpen(p) \/ CmdRetry(p) \/ CmdTimeout(p) \/ Release(p) \/ CmdRemove(p)
  BY <1>1, LockFileTypes, CmdFileTypes DEF CmdOpen, CmdRetry, CmdTimeout, Release, CmdRemove,
    CmdStep, FileTypes, ServiceTypes, pidVars
<1>2. CASE CmdTake(p)
  BY <1>2, LockFileTypes, CmdFileTypes DEF CmdTake, FileTypes, ServiceTypes, pidVars
<1>3. CASE Spawn(p) \/ Execute(p)
  BY <1>3, LockFileTypes, CmdFileTypes DEF Spawn, Execute, Rest, FileTypes, ServiceTypes, pidVars
<1>4. CASE Terminate(p)
  <2>1. seen[p] \in Procs
    BY <1>4 DEF Terminate, PlaceTypes, TargetInv
  <2>2. Cmd!Close(seen[p]) \/ UNCHANGED cmdVars
    BY <1>4 DEF Terminate
  <2>3. signalled' \subseteq Procs
    BY <1>4, <2>1 DEF Terminate, ServiceTypes
  <2>4. QED
    BY <1>4, <2>2, <2>3, LockFileTypes, CmdFileTypes DEF Terminate, FileTypes, ServiceTypes, pidVars
<1>5. QED
  BY <1>1, <1>2, <1>3, <1>4 DEF Command

\* What all processes leave alone has its type.
LEMMA RestFiles ==
  ASSUME FileTypes, ServiceTypes, Rest
  PROVE  FileTypes' /\ ServiceTypes'
BY LockFileTypes, CmdFileTypes DEF Rest, FileTypes, ServiceTypes, pidVars, lockVars, cmdVars,
  Lock!LockFileTypeOK, Cmd!LockFileTypeOK

LEMMA TypeStep ==
  ASSUME TypeInv, [Next]_vars
  PROVE  TypeInv'
<1>1. PlaceTypes /\ FileTypes /\ ServiceTypes
  BY TypeParts
<1>2. pidFile \in Procs \cup {Garbled, NoFile}
  BY <1>1 DEF FileTypes
<1>3. SUFFICES PlaceTypes' /\ FileTypes' /\ ServiceTypes'
  BY DEF TypeInv, TypeOK, PlaceTypes, FileTypes, ServiceTypes
<1>4. ASSUME NEW p \in Procs, Run(p)
      PROVE  PlaceTypes' /\ FileTypes' /\ ServiceTypes'
  BY <1>1, <1>2, <1>4, DaemonPlaces, QueryPlaces, CommandPlaces, DaemonFiles, QueryFiles,
    CommandFiles DEF Run
<1>5. ASSUME NEW p \in Procs, ServiceStopped(p)
      PROVE  PlaceTypes' /\ FileTypes' /\ ServiceTypes'
  BY <1>1, <1>5 DEF ServiceStopped, SvcStep, PlaceTypes, TargetInv, FileTypes, ServiceTypes,
    pidVars, lockVars, cmdVars, Lock!LockFileTypeOK, Cmd!LockFileTypeOK
<1>6. ASSUME NEW p \in Procs, Invoke(p)
      PROVE  PlaceTypes' /\ FileTypes' /\ ServiceTypes'
  BY <1>1, <1>6, InvokePlaces, RestFiles DEF Invoke
<1>7. ASSUME NEW p \in Procs, Crash(p)
      PROVE  PlaceTypes' /\ FileTypes' /\ ServiceTypes'
  <2>1. PlaceTypes' /\ FileTypes'
    BY <1>1, <1>7, DiePlaces, DieFiles DEF Crash
  <2>2. ServiceTypes'
    <3>1. MaxCrashes \in Nat
      BY DaemonAssumption DEF DaemonAssumption
    <3>2. QED
      BY <1>1, <1>7, <3>1 DEF Crash, Die, ServiceTypes
  <2>3. QED
    BY <2>1, <2>2
<1>8. CASE UNCHANGED vars
  BY <1>1, <1>8 DEF vars, PlaceTypes, TargetInv, FileTypes, ServiceTypes, pidVars, lockVars,
    cmdVars, Lock!LockFileTypeOK, Cmd!LockFileTypeOK
<1>9. QED
  BY <1>4, <1>5, <1>6, <1>7, <1>8 DEF Next

LEMMA TypeInit == Init => TypeInv
<1> SUFFICES ASSUME Init PROVE TypeInv
  OBVIOUS
<1>1. PlaceTypes
  BY DEF Init, PlaceTypes, TargetInv, Answers
<1>2. FileTypes
  BY DEF Init, FileTypes, Lock!LockFileInit, Cmd!LockFileInit, Lock!LockFileTypeOK,
    Cmd!LockFileTypeOK
<1>3. ServiceTypes
  <2>1. MaxCrashes \in Nat
    BY DaemonAssumption DEF DaemonAssumption
  <2>2. /\ svc \in [Procs -> {"off", "on", "stopping"}]
        /\ signalled \subseteq Procs
        /\ crashes \in 0..MaxCrashes
    BY <2>1 DEF Init
  <2>3. raced \in BOOLEAN
    BY DEF Init
  <2>4. QED
    BY <2>2, <2>3 DEF ServiceTypes
<1>4. QED
  BY <1>1, <1>2, <1>3, TypeParts

\* Every variable keeps to its type, and no process sends a signal to nobody.
LEMMA TypeInvCorrect == Spec => []TypeInv
BY TypeInit, TypeStep, PTL DEF Spec

\* Every place, answer, file and set of DaemonLock keeps to its type.
THEOREM TypeCorrect == Spec => []TypeOK
<1>1. TypeInv => TypeOK
  BY DEF TypeInv
<1>2. QED
  BY <1>1, TypeInvCorrect, PTL

-----------------------------------------------------------------------------
(* One daemon.  Where a daemon is says which files it has open and which lock *)
(* it has; while no file in use was removed, all open lock files are the one  *)
(* at the path, so that the kernel keeps their holders apart.                 *)

Holding == {"cleanup", "verify", "unstale", "create", "write", "service", "serving", "giveup",
            "unlock"}
Opened == Holding \cup {"flock"}

LockInv ==
  /\ \A p \in Procs : lockFd[p] # NoFile <=> pc[p] \in Opened
  /\ \A p \in Procs : p \in lockHolders <=> pc[p] \in Holding
  /\ \A p, q \in lockHolders : lockFd[p] = lockFd[q] => p = q
  /\ ~raced => \A p \in Procs : pc[p] \in Opened => lockFd[p] = lockPath

PidInv ==
  ~raced => \A p \in Procs : /\ pc[p] = "write" => p \in writers
                             /\ pc[p] \in {"service", "serving"} => pidFile = p

\* As long as nobody was killed, each file has someone who will remove it.
CleanInv ==
  crashes = 0 =>
    /\ lockPath # NoFile =>
         \E p \in Procs : pc[p] \in Opened \cup {"giveupRemove", "unlockRemove"}
    /\ pidFile \in Procs =>
         pc[pidFile] \in {"service", "serving", "unlock", "unlockRemove", "unlockPid"}

DaemonInv == TypeInv /\ LockInv /\ PidInv /\ CleanInv

\* Places at which a process has something to do with the files of the daemon.
FilePlaces == Opened \cup {"giveupRemove", "unlockRemove", "unlockPid"}

Aside == \A q \in Procs : pc'[q] = pc[q] \/ (pc[q] \notin FilePlaces /\ pc'[q] \notin FilePlaces)

LEMMA AsideSteps ==
  ASSUME TypeInv, NEW p \in Procs, Boot(p) \/ Query(p) \/ Command(p) \/ Invoke(p)
  PROVE  Aside
<1> USE DEF FilePlaces, Opened, Holding
<1>1. PlaceTypes /\ pidFile \in Procs \cup {Garbled, NoFile}
  BY TypeParts DEF FileTypes
<1>2. CASE Query(p)
  BY <1>1, <1>2, QueryPlaces DEF Aside, QueryPcs, PlaceTypes
<1>3. CASE Boot(p)
  BY <1>1, <1>3 DEF Aside, Boot, Goto, PlaceTypes
<1>4. CASE Invoke(p)
  BY <1>1, <1>4 DEF Aside, Invoke, Goto, Ask, PlaceTypes
<1>5. CASE Command(p)
  <2>1. CASE CmdOpen(p) \/ CmdRetry(p) \/ CmdTimeout(p) \/ Release(p) \/ CmdRemove(p)
    BY <1>1, <2>1 DEF Aside, CmdOpen, CmdRetry, CmdTimeout, Release, CmdRemove, Goto, PlaceTypes
  <2>2. CASE CmdTake(p) \/ Execute(p) \/ Spawn(p)
    BY <1>1, <2>2 DEF Aside, CmdTake, Execute, Spawn, Ask, PlaceTypes
  <2>3. CASE Terminate(p)
    BY <1>1, <2>3 DEF Aside, Terminate, DaemonPcs, PlaceTypes
  <2>4. QED
    BY <1>5, <2>1, <2>2, <2>3 DEF Command
<1>6. QED
  BY <1>2, <1>3, <1>4, <1>5

LEMMA AsideKeeps ==
  ASSUME DaemonInv, Aside, UNCHANGED <<pidVars, lockVars, raced, crashes>>
  PROVE  LockInv' /\ PidInv' /\ CleanInv'
<1> USE DEF Aside, FilePlaces, Opened, Holding, pidVars, lockVars
<1>1. LockInv'
  BY DEF DaemonInv, TypeInv, TypeOK, LockInv
<1>2. PidInv'
  BY DEF DaemonInv, PidInv
<1>3. CleanInv'
  <2>1. SUFFICES ASSUME crashes = 0
                 PROVE  CleanInv'
    BY DEF CleanInv
  <2>2. lockPath # NoFile =>
          \E q \in Procs : pc'[q] \in Opened \cup {"giveupRemove", "unlockRemove"}
    BY <2>1 DEF DaemonInv, CleanInv
  <2>3. pidFile \in Procs =>
          pc'[pidFile] \in {"service", "serving", "unlock", "unlockRemove", "unlockPid"}
    BY <2>1 DEF DaemonInv, CleanInv
  <2>4. QED
    BY <2>2, <2>3 DEF CleanInv
<1>4. QED
  BY <1>1, <1>2, <1>3

LEMMA RemovePidFileKeeps ==
  ASSUME DaemonInv, NEW p \in Procs, NEW here, NEW next, RemovePidFile(p, here, next),
         \/ here = "removePid" /\ next = "removeLock"
         \/ here = "unstale" /\ next = "create"
         \/ here = "unlockPid" /\ next = "unlocked"
  PROVE  LockInv' /\ PidInv' /\ CleanInv'
<1> USE DEF RemovePidFile, Goto, Opened, Holding, DaemonInv, TypeInv, TypeOK
<1>1. LockInv'
  BY DEF LockInv, lockVars
<1>2. PidInv'
  BY DEF PidInv, Needs
<1>3. CleanInv'
  BY DaemonAssumption DEF DaemonAssumption, CleanInv, lockVars
<1>4. QED
  BY <1>1, <1>2, <1>3

LEMMA RemoveLockFileKeeps ==
  ASSUME DaemonInv, NEW p \in Procs, NEW here, NEW next, RemoveLockFile(p, here, next),
         \/ here = "removeLock" /\ next \in {"execute", "search"}
         \/ here = "giveupRemove" /\ next = "unlocked"
         \/ here = "unlockRemove" /\ next = "unlockPid"
  PROVE  LockInv' /\ PidInv' /\ CleanInv'
<1> USE DEF RemoveLockFile, Goto, Opened, Holding, DaemonInv, TypeInv, TypeOK, Lock!Remove
<1>1. LockInv'
  BY DEF LockInv, Lock!InUse
<1>2. PidInv'
  BY DEF PidInv, pidVars
<1>3. CleanInv'
  BY DaemonAssumption DEF DaemonAssumption, CleanInv, pidVars
<1>4. QED
  BY <1>1, <1>2, <1>3

\* A daemon moves on beside its files: it neither opens, closes nor leaves one.
LEMMA MoveKeeps ==
  ASSUME DaemonInv, NEW p \in Procs, NEW here, NEW next, Goto(p, here, next),
         \/ here \in {"cleanup", "verify"} /\ next \in {"create", "giveup", "unstale", "verify"}
         \/ here = "service" /\ next \in {"serving", "unlock"}
         \/ here = "serving" /\ next = "unlock",
         UNCHANGED <<pidVars, lockVars, raced, crashes>>
  PROVE  LockInv' /\ PidInv' /\ CleanInv'
<1> USE DEF Goto, Opened, Holding, DaemonInv, TypeInv, TypeOK, pidVars, lockVars
<1>1. LockInv'
  BY DEF LockInv
<1>2. PidInv'
  BY DEF PidInv
<1>3. CleanInv'
  BY DEF CleanInv
<1>4. QED
  BY <1>1, <1>2, <1>3

LEMMA OpenLockKeeps ==
  ASSUME DaemonInv, NEW p \in Procs, OpenLock(p)
  PROVE  LockInv' /\ PidInv' /\ CleanInv'
<1> USE DEF OpenLock, LockStep, Goto, Opened, Holding, DaemonInv, TypeInv, TypeOK, Lock!Open,
            Lock!LockFileTypeOK
<1>1. LockInv'
  BY DaemonAssumption DEF DaemonAssumption, LockInv
<1>2. PidInv'
  BY DEF PidInv, pidVars
<1>3. CleanInv'
  BY DEF CleanInv, pidVars
<1>4. QED
  BY <1>1, <1>2, <1>3

LEMMA TakeLockKeeps ==
  ASSUME DaemonInv, NEW p \in Procs, TakeLock(p)
  PROVE  LockInv' /\ PidInv' /\ CleanInv'
<1> USE DEF TakeLock, LockStep, Goto, Opened, Holding, DaemonInv, TypeInv, TypeOK, Lock!TryLock
<1>1. LockInv'
  BY DEF LockInv, Lock!Blocked
<1>2. PidInv'
  BY DEF PidInv, pidVars
<1>3. CleanInv'
  BY DEF CleanInv, pidVars
<1>4. QED
  BY <1>1, <1>2, <1>3

\* Whoever is kept out by a lock leaves the removal of the file to its holder.
LEMMA BlockedKeeps ==
  ASSUME DaemonInv, NEW p \in Procs, RetryLock(p) \/ LockTimeout(p)
  PROVE  LockInv' /\ PidInv' /\ CleanInv'
<1> USE DEF RetryLock, LockTimeout, LockStep, Die, Goto, Opened, Holding, DaemonInv, TypeInv,
            TypeOK, Lock!Close, Lock!Blocked, Lock!LockFileTypeOK, pidVars
<1>1. LockInv'
  BY DEF LockInv
<1>2. PidInv'
  BY DEF PidInv
<1>3. \E q \in Procs \ {p} : pc'[q] \in Holding
  BY DEF LockInv
<1>4. CleanInv'
  BY <1>3 DEF CleanInv
<1>5. QED
  BY <1>1, <1>2, <1>4

\* The only daemon that has the lock writes the PID file.
LEMMA PidFileKeeps ==
  ASSUME DaemonInv, NEW p \in Procs, CreatePid(p) \/ WritePid(p)
  PROVE  LockInv' /\ PidInv' /\ CleanInv'
<1> USE DEF CreatePid, WritePid, Goto, Opened, Holding, DaemonInv, TypeInv, TypeOK, lockVars,
            pidVars
<1>1. LockInv'
  BY DEF LockInv
<1>2. PidInv'
  <2>1. ~raced => \A q \in Procs : q # p => pc[q] \notin Holding
    BY DEF LockInv
  <2>2. QED
    BY <2>1 DEF PidInv
<1>3. CleanInv'
  BY DaemonAssumption DEF DaemonAssumption, CleanInv
<1>4. QED
  BY <1>1, <1>2, <1>3

LEMMA CloseKeeps ==
  ASSUME DaemonInv, NEW p \in Procs, GiveUp(p) \/ UnlockLock(p)
  PROVE  LockInv' /\ PidInv' /\ CleanInv'
<1> USE DEF GiveUp, UnlockLock, LockStep, Goto, Opened, Holding, DaemonInv, TypeInv, TypeOK,
            Lock!Close, Lock!LockFileTypeOK, pidVars
<1>1. LockInv'
  BY DEF LockInv
<1>2. PidInv'
  BY DEF PidInv
<1>3. CleanInv'
  BY DEF CleanInv
<1>4. QED
  BY <1>1, <1>2, <1>3

LEMMA EndKeeps ==
  ASSUME DaemonInv, NEW p \in Procs, Exit(p) \/ Crash(p)
  PROVE  LockInv' /\ PidInv' /\ CleanInv'
<1> USE DEF Exit, Crash, Die, Goto, Opened, Holding, DaemonInv, TypeInv, TypeOK, Lock!Close,
            Lock!LockFileTypeOK
<1>1. LockInv'
  BY DEF LockInv
<1>2. PidInv'
  BY DEF PidInv
<1>3. CleanInv'
  <2>1. CASE Exit(p)
    BY <2>1 DEF CleanInv
  <2>2. CASE Crash(p)
    BY <2>2 DEF CleanInv
  <2>3. QED
    BY <2>1, <2>2
<1>4. QED
  BY <1>1, <1>2, <1>3

LEMMA DaemonStep ==
  ASSUME DaemonInv, [Next]_vars
  PROVE  DaemonInv'
<1>1. TypeInv'
  BY TypeStep DEF DaemonInv
<1>2. SUFFICES LockInv' /\ PidInv' /\ CleanInv'
  BY <1>1 DEF DaemonInv
<1>3. ASSUME NEW p \in Procs, Daemon(p)
      PROVE  LockInv' /\ PidInv' /\ CleanInv'
  <2>1. CASE Boot(p)
    BY <2>1, AsideSteps, AsideKeeps DEF DaemonInv, Boot, Rest
  <2>2. CASE RemoveUnstale(p) \/ UnlockPid(p)
    BY <2>2, RemovePidFileKeeps DEF RemoveUnstale, UnlockPid
  <2>3. CASE GiveUpRemove(p) \/ UnlockRemove(p)
    BY <2>3, RemoveLockFileKeeps DEF GiveUpRemove, UnlockRemove
  <2>4. CASE ReadStale(p)
    <3>1. \E next \in {"create", "giveup", "unstale", "verify"} : Goto(p, "cleanup", next)
      BY <2>4, Zenon DEF ReadStale
    <3>2. QED
      BY <2>4, <3>1, MoveKeeps DEF ReadStale, Rest
  <2>5. CASE VerifyStale(p)
    <3>1. \E next \in {"giveup", "unstale"} : Goto(p, "verify", next)
      BY <2>5 DEF VerifyStale
    <3>2. QED
      BY <2>5, <3>1, MoveKeeps DEF VerifyStale, Rest
  <2>6. CASE StartService(p) \/ Shutdown(p)
    BY <2>6, MoveKeeps DEF StartService, Shutdown, SvcStep
  <2>7. QED
    BY <1>3, <2>1, <2>2, <2>3, <2>4, <2>5, <2>6, OpenLockKeeps, TakeLockKeeps, BlockedKeeps,
      PidFileKeeps, CloseKeeps, EndKeeps DEF Daemon
<1>4. ASSUME NEW p \in Procs, Query(p)
      PROVE  LockInv' /\ PidInv' /\ CleanInv'
  <2>1. CASE RemoveStalePid(p)
    BY <2>1, RemovePidFileKeeps DEF RemoveStalePid
  <2>2. CASE RemoveStaleLock(p)
    BY <2>2, RemoveLockFileKeeps DEF RemoveStaleLock
  <2>3. CASE ReadPid(p) \/ CheckPid(p) \/ Search(p)
    BY <1>4, <2>3, AsideSteps, AsideKeeps DEF DaemonInv, ReadPid, CheckPid, Search, Rest
  <2>4. QED
    BY <1>4, <2>1, <2>2, <2>3 DEF Query
<1>5. ASSUME NEW p \in Procs, Command(p) \/ Invoke(p)
      PROVE  LockInv' /\ PidInv' /\ CleanInv'
  <2>1. UNCHANGED <<pidVars, lockVars, raced, crashes>>
    BY <1>5 DEF Command, CmdOpen, CmdRetry, CmdTimeout, CmdTake, Release, CmdRemove, CmdStep,
      Spawn, Terminate, Execute, Invoke, Rest
  <2>2. QED
    BY <1>5, <2>1, AsideSteps, AsideKeeps DEF DaemonInv
<1>6. ASSUME NEW p \in Procs, ServiceStopped(p)
      PROVE  LockInv' /\ PidInv' /\ CleanInv'
  BY <1>6, AsideKeeps DEF Aside, ServiceStopped, SvcStep
<1>7. CASE UNCHANGED vars
  BY <1>7, AsideKeeps DEF Aside, vars
<1>8. QED
  BY <1>3, <1>4, <1>5, <1>6, <1>7, EndKeeps DEF Next, Run

LEMMA DaemonInit == Init => DaemonInv
<1> SUFFICES ASSUME Init PROVE DaemonInv
  OBVIOUS
<1>1. LockInv /\ PidInv
  BY DEF Init, Lock!LockFileInit, LockInv, PidInv, Opened, Holding
<1>2. CleanInv
  BY DaemonAssumption DEF DaemonAssumption, Init, Lock!LockFileInit, CleanInv
<1>3. QED
  BY <1>1, <1>2, TypeInit DEF DaemonInv

LEMMA DaemonInvCorrect == Spec => []DaemonInv
BY DaemonInit, DaemonStep, PTL DEF Spec

\* WritePIDExclusive: as long as no process has removed a file in use, one daemon
\* has the lock, on the file at the path, and the PID file names the one at work.
THEOREM SingletonCorrect == Spec => []Singleton
<1>1. DaemonInv => Singleton
  <2>1. DaemonInv /\ ~raced => \A p, q \in lockHolders : p = q
    BY DEF DaemonInv, TypeInv, TypeOK, Lock!LockFileTypeOK, LockInv, Opened
  <2>2. DaemonInv /\ ~raced => \A p \in Procs : pc[p] \in {"service", "serving"} =>
          pidFile = p /\ p \in lockHolders /\ lockFd[p] = lockPath
    BY DEF DaemonInv, LockInv, PidInv, Opened, Holding
  <2>3. QED
    BY <2>1, <2>2 DEF Singleton
<1>2. QED
  BY <1>1, DaemonInvCorrect, PTL

\* Unlock and RemovePID: when all processes have ended and none was killed, no
\* lock file is left and no PID file that names a process.
THEOREM EndsCleanCorrect == Spec => []EndsClean
<1>1. DaemonInv => EndsClean
  BY DEF DaemonInv, TypeInv, TypeOK, CleanInv, EndsClean, Opened, Holding
<1>2. QED
  BY <1>1, DaemonInvCorrect, PTL
=============================================================================
