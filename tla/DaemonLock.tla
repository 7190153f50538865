------------------------------ MODULE DaemonLock ------------------------------
(***************************************************************************)
(* internal/process/daemon.go, command_lock.go, process_unix.go and the    *)
(* commands start, stop, restart and status: how the daemon is found,      *)
(* started and ended through its PID file, and kept alone by a lock file.  *)
(*                                                                         *)
(* A process is its process id.  It runs one command or a daemon, may be   *)
(* killed at any step, and its id may then be used again.  Other programs  *)
(* do not matter: their names differ, so that they count as no process.    *)
(***************************************************************************)
EXTENDS Naturals

CONSTANTS
  Procs,       \* process ids
  May,         \* the programs that may get each id
  Inodes, CmdInodes,   \* identities of the files of either lock
  NoFile,      \* no file
  Garbled,     \* a PID file without a PID: created or truncated, not yet written
  MaxCrashes   \* bound on the processes that are killed from outside

Programs == {"daemon", "start", "stop", "restart", "status"}

ASSUME DaemonAssumption ==
  /\ NoFile \notin Procs \cup Inodes \cup CmdInodes
  /\ Garbled \notin Procs /\ Garbled # NoFile
  /\ May \in [Procs -> SUBSET Programs]
  /\ MaxCrashes \in Nat

VARIABLES
  pc,          \* where each process is; "gone": there is none
  ret,         \* what it asks the PID file for
  seen,        \* the process id it has read, or found
  pidFile,     \* the process id in the PID file, Garbled or NoFile
  writers,     \* processes that have that file open for writing
  lockPath, lockFd, lockHolders,   \* the daemon's lock file
  cmdPath, cmdFd, cmdHolders,      \* the lock file of the start command
  svc,         \* the sync service of each daemon
  signalled,   \* daemons whose signal context is done
  raced,       \* a file was removed while another process was using it
  crashes

lockVars == <<lockPath, lockFd, lockHolders>>
cmdVars == <<cmdPath, cmdFd, cmdHolders>>
pidVars == <<pidFile, writers>>
vars == <<pc, ret, seen, pidVars, lockVars, cmdVars, svc, signalled, raced, crashes>>

Lock == INSTANCE LockFile WITH path <- lockPath, fd <- lockFd, holders <- lockHolders
Cmd == INSTANCE LockFile
  WITH path <- cmdPath, fd <- cmdFd, holders <- cmdHolders, Inodes <- CmdInodes

\* runForegroundDaemon up to NotifyContext; then the signals are caught.
DaemonPcs == {"open", "flock", "cleanup", "verify", "unstale", "create", "write", "service",
              "serving", "giveup", "giveupRemove", "unlock", "unlockRemove", "unlockPid",
              "unlocked"}
QueryPcs == {"read", "check", "removePid", "removeLock", "search"}
CommandPcs == {"cmdOpen", "cmdLock", "spawn", "release", "cmdRemove", "signal", "execute"}
Answers == {"begin", "poll", "report", "stop", "target", "status", "statusPid", "restart", "restartStop",
            "restartTarget", "restartWait", "restartLast", "force", "none"}

TypeOK ==
  /\ pc \in [Procs -> {"gone", "boot"} \cup DaemonPcs \cup QueryPcs \cup CommandPcs]
  /\ ret \in [Procs -> Answers]
  /\ seen \in [Procs -> Procs \cup {NoFile}]
  /\ pidFile \in Procs \cup {Garbled, NoFile}
  /\ writers \subseteq Procs
  /\ Lock!LockFileTypeOK
  /\ Cmd!LockFileTypeOK
  /\ svc \in [Procs -> {"off", "on", "stopping"}]
  /\ signalled \subseteq Procs
  /\ raced \in BOOLEAN
  /\ crashes \in 0..MaxCrashes

Init ==
  /\ pc = [p \in Procs |-> "gone"]
  /\ ret = [p \in Procs |-> "none"]
  /\ seen = [p \in Procs |-> NoFile]
  /\ pidFile = NoFile /\ writers = {}
  /\ Lock!LockFileInit /\ Cmd!LockFileInit
  /\ svc = [p \in Procs |-> "off"]
  /\ signalled = {}
  /\ raced = FALSE
  /\ crashes = 0

\* processExists and verifyProcessName: every process here has the name.
Alive(p) == p \in Procs /\ pc[p] # "gone"

Goto(p, here, next) == pc[p] = here /\ pc' = [pc EXCEPT ![p] = next]

\* What a process leaves behind are its files.
Die(p) ==
  /\ pc' = [pc EXCEPT ![p] = "gone"]
  /\ Lock!Close(p)
  /\ Cmd!Close(p)
  /\ svc' = [svc EXCEPT ![p] = "off"]
  /\ signalled' = signalled \ {p}
  /\ writers' = writers \ {p}
  /\ ret' = [ret EXCEPT ![p] = "none"]
  /\ seen' = [seen EXCEPT ![p] = NoFile]
  /\ UNCHANGED <<pidFile, raced>>

\* Kept by every step that touches neither file and ends no process.
Rest == UNCHANGED <<pidVars, lockVars, cmdVars, svc, signalled, raced, crashes>>
-----------------------------------------------------------------------------
(* Removing files.  A daemon that has written its PID needs the file until    *)
(* it shuts down.                                                            *)

Needs(q) == \/ pidFile = q /\ pc[q] \in {"service", "serving"}
            \/ q \in writers

RemovePidFile(p, here, next) ==
  /\ Goto(p, here, next)
  /\ pidFile' = NoFile
  /\ writers' = {}
  /\ raced' = (raced \/ \E q \in Procs \ {p} : Needs(q))
  /\ UNCHANGED <<ret, seen, lockVars, cmdVars, svc, signalled, crashes>>

RemoveLockFile(p, here, next) ==
  /\ Goto(p, here, next)
  /\ Lock!Remove
  /\ raced' = (raced \/ Lock!InUse(p))
  /\ UNCHANGED <<ret, seen, pidVars, cmdVars, svc, signalled, crashes>>
-----------------------------------------------------------------------------
(* IsDaemonRunningPIDOnly, IsDaemonRunning and GetDaemonPID, called for the    *)
(* answer ret[p]; the first does not search for a process by name.             *)

Ask(p, answer) ==
  /\ pc' = [pc EXCEPT ![p] = "read"]
  /\ ret' = [ret EXCEPT ![p] = answer]
  /\ seen' = [seen EXCEPT ![p] = NoFile]

\* The question is answered: it is forgotten, but for what is still needed.
Done(p, next) ==
  /\ pc' = [pc EXCEPT ![p] = next]
  /\ ret' = [ret EXCEPT ![p] = "none"]
  /\ seen' = [seen EXCEPT ![p] = NoFile]

PidOnly(p) == ret[p] \in {"begin", "poll"}

\* What the caller does with the answer: r, or NoFile if there is no daemon.
Signal(p, r) ==
  /\ pc' = [pc EXCEPT ![p] = "signal"]
  /\ seen' = [seen EXCEPT ![p] = r]
  /\ UNCHANGED ret

\* runStart: nothing may run before, a daemon has to show up afterwards.
AnswerStart(p, found) ==
  \/ ret[p] = "begin" /\ Done(p, IF found THEN "release" ELSE "spawn")
  \/ ret[p] = "poll" /\ found /\ Ask(p, "report")
  \/ ret[p] = "poll" /\ ~found /\ (Ask(p, "poll") \/ Done(p, "release"))
  \/ ret[p] = "report" /\ Done(p, "release")

\* runStop, in the command restart too.
AnswerStop(p, r) ==
  \/ ret[p] = "stop" /\ (IF r # NoFile THEN Ask(p, "target") ELSE Done(p, "gone"))
  \/ ret[p] = "target" /\ (IF r # NoFile THEN Signal(p, r) ELSE Done(p, "gone"))
  \/ ret[p] = "restartStop" /\ Ask(p, IF r # NoFile THEN "restartTarget" ELSE "restartWait")
  \/ ret[p] = "restartTarget"
       /\ (IF r # NoFile THEN Signal(p, r) ELSE Ask(p, "restartWait"))

\* runRestart: stop, wait for the end or for five seconds, look once more and
\* remove the files of a daemon that is still there.
AnswerRestart(p, found) ==
  \/ ret[p] = "restart" /\ (IF found THEN Ask(p, "restartStop") ELSE Done(p, "execute"))
  \/ ret[p] = "restartWait" /\ found /\ Ask(p, "restartWait")
  \/ ret[p] = "restartWait" /\ Ask(p, "restartLast")
  \/ /\ ret[p] = "restartLast" /\ found
     /\ pc' = [pc EXCEPT ![p] = "removePid"]
     /\ ret' = [ret EXCEPT ![p] = "force"]
     /\ seen' = [seen EXCEPT ![p] = NoFile]
  \/ ret[p] = "restartLast" /\ ~found /\ Done(p, "execute")

AnswerStatus(p, found) ==
  \/ ret[p] = "status" /\ found /\ Ask(p, "statusPid")
  \/ ret[p] = "status" /\ ~found /\ Done(p, "gone")
  \/ ret[p] = "statusPid" /\ Done(p, "gone")

Answer(p, r) == \/ AnswerStart(p, r # NoFile) \/ AnswerStop(p, r)
                \/ AnswerRestart(p, r # NoFile) \/ AnswerStatus(p, r # NoFile)

\* Mutation: the content of the PID file is not checked.
ReadPidUnparsed(p) ==
  /\ Goto(p, "read", IF pidFile # NoFile THEN "check" ELSE "search")
  /\ seen' = [seen EXCEPT ![p] = pidFile]
  /\ UNCHANGED ret /\ Rest

ReadPid(p) ==
  /\ Goto(p, "read", IF pidFile \in Procs THEN "check" ELSE "search")
  /\ seen' = [seen EXCEPT ![p] = IF pidFile \in Procs THEN pidFile ELSE NoFile]
  /\ UNCHANGED ret /\ Rest

CheckPid(p) ==
  /\ pc[p] = "check"
  /\ IF seen[p] # p /\ Alive(seen[p])
     THEN Answer(p, seen[p])
     ELSE /\ Goto(p, "check", "removePid")
          /\ seen' = [seen EXCEPT ![p] = NoFile]
          /\ UNCHANGED ret
  /\ Rest

\* RemovePID
RemoveStalePid(p) == RemovePidFile(p, "removePid", "removeLock")
RemoveStaleLock(p) ==
  RemoveLockFile(p, "removeLock", IF ret[p] = "force" THEN "execute" ELSE "search")

\* findProcessByName takes the first one it meets.
Search(p) ==
  /\ pc[p] = "search"
  /\ LET others == {q \in Procs \ {p} : Alive(q)} IN
       IF PidOnly(p) \/ others = {} THEN Answer(p, NoFile)
       ELSE \E q \in others : Answer(p, q)
  /\ Rest

Query(p) ==
  ReadPid(p) \/ CheckPid(p) \/ RemoveStalePid(p) \/ RemoveStaleLock(p) \/ Search(p)
-----------------------------------------------------------------------------
(* The daemon: WritePIDExclusive, the service, gracefulShutdown.              *)

\* The rest of a daemon's step that moves it and uses its lock file only.
LockStep == UNCHANGED <<ret, seen, pidVars, cmdVars, svc, signalled, raced, crashes>>

\* The signals are caught from here on.
Boot(p) == Goto(p, "boot", "open") /\ UNCHANGED <<ret, seen>> /\ Rest

\* TryLockContext, which opens the file anew for every try.
OpenLock(p) == Goto(p, "open", "flock") /\ Lock!Open(p) /\ LockStep

\* Mutation: the lock is shared.
TakeLockShared(p) == Goto(p, "flock", "cleanup") /\ lockHolders' = lockHolders \cup {p}
                     /\ UNCHANGED <<lockPath, lockFd>> /\ LockStep

TakeLock(p) == Goto(p, "flock", "cleanup") /\ Lock!TryLock(p) /\ LockStep
RetryLock(p) == Goto(p, "flock", "open") /\ Lock!Blocked(p) /\ Lock!Close(p) /\ LockStep
LockTimeout(p) ==
  /\ pc[p] = "flock" /\ Lock!Blocked(p)
  /\ Die(p) /\ UNCHANGED crashes

\* cleanupStalePIDFile: the file names nobody, this process, or another one
\* to be looked at; a file that cannot be parsed is an error.
ReadStale(p) ==
  /\ Goto(p, "cleanup", CASE pidFile = NoFile -> "create"
                          [] pidFile = Garbled -> "giveup"
                          [] pidFile = p -> "unstale"
                          [] OTHER -> "verify")
  /\ seen' = [seen EXCEPT ![p] = IF pidFile \in Procs \ {p} THEN pidFile ELSE NoFile]
  /\ UNCHANGED ret /\ Rest

VerifyStale(p) ==
  /\ Goto(p, "verify", IF Alive(seen[p]) THEN "giveup" ELSE "unstale")
  /\ seen' = [seen EXCEPT ![p] = NoFile]
  /\ UNCHANGED ret /\ Rest

RemoveUnstale(p) == RemovePidFile(p, "unstale", "create")

\* os.WriteFile opens and truncates, then writes; either may fail.  What is
\* written to a file that is no longer at the path is lost.
CreatePid(p) ==
  /\ \/ /\ Goto(p, "create", "write")
        /\ pidFile' = Garbled /\ writers' = writers \cup {p}
     \/ Goto(p, "create", "giveup") /\ UNCHANGED pidVars
  /\ UNCHANGED <<ret, seen, lockVars, cmdVars, svc, signalled, raced, crashes>>

WritePid(p) ==
  /\ \/ /\ Goto(p, "write", "service")
        /\ pidFile' = IF p \in writers THEN p ELSE pidFile
     \/ Goto(p, "write", "giveup") /\ UNCHANGED pidFile
  /\ writers' = writers \ {p}
  /\ UNCHANGED <<ret, seen, lockVars, cmdVars, svc, signalled, raced, crashes>>

GiveUp(p) == Goto(p, "giveup", "giveupRemove") /\ Lock!Close(p) /\ LockStep
GiveUpRemove(p) == RemoveLockFile(p, "giveupRemove", "unlocked")

SvcStep == UNCHANGED <<ret, seen, pidVars, lockVars, cmdVars, signalled, raced, crashes>>

StartService(p) ==
  /\ \/ Goto(p, "service", "serving") /\ svc' = [svc EXCEPT ![p] = "on"]
     \/ Goto(p, "service", "unlock") /\ UNCHANGED svc
  /\ SvcStep

\* gracefulShutdown: the service is stopped in one goroutine, the files go in
\* another one after a pause.
Shutdown(p) ==
  /\ p \in signalled
  /\ Goto(p, "serving", "unlock")
  /\ svc' = [svc EXCEPT ![p] = "stopping"]
  /\ SvcStep

ServiceStopped(p) ==
  /\ svc[p] = "stopping"
  /\ svc' = [svc EXCEPT ![p] = "off"]
  /\ UNCHANGED pc /\ SvcStep

UnlockLock(p) == Goto(p, "unlock", "unlockRemove") /\ Lock!Close(p) /\ LockStep
\* Mutation: the lock file is left.
UnlockRemoveNothing(p) == Goto(p, "unlockRemove", "unlockPid") /\ UNCHANGED lockVars /\ LockStep

UnlockRemove(p) == RemoveLockFile(p, "unlockRemove", "unlockPid")
UnlockPid(p) == RemovePidFile(p, "unlockPid", "unlocked")

\* When both goroutines have ended, or when the shutdown has taken too long.
Exit(p) == pc[p] = "unlocked" /\ Die(p) /\ UNCHANGED crashes

Daemon(p) ==
  \/ Boot(p) \/ OpenLock(p) \/ TakeLock(p) \/ RetryLock(p) \/ LockTimeout(p)
  \/ ReadStale(p) \/ VerifyStale(p) \/ RemoveUnstale(p) \/ CreatePid(p) \/ WritePid(p)
  \/ GiveUp(p) \/ GiveUpRemove(p) \/ StartService(p) \/ Shutdown(p)
  \/ UnlockLock(p) \/ UnlockRemove(p) \/ UnlockPid(p) \/ Exit(p)
-----------------------------------------------------------------------------
(* The commands.                                                              *)

CmdStep == UNCHANGED <<ret, seen, pidVars, lockVars, svc, signalled, raced, crashes>>

\* AcquireCommandLock and Release, around start.
CmdOpen(p) == Goto(p, "cmdOpen", "cmdLock") /\ Cmd!Open(p) /\ CmdStep
CmdRetry(p) == Goto(p, "cmdLock", "cmdOpen") /\ Cmd!Blocked(p) /\ Cmd!Close(p) /\ CmdStep
CmdTimeout(p) == Goto(p, "cmdLock", "gone") /\ Cmd!Blocked(p) /\ Cmd!Close(p) /\ CmdStep
CmdTake(p) ==
  /\ pc[p] = "cmdLock" /\ Ask(p, "begin") /\ Cmd!TryLock(p)
  /\ UNCHANGED <<pidVars, lockVars, svc, signalled, raced, crashes>>
Release(p) == Goto(p, "release", "cmdRemove") /\ Cmd!Close(p) /\ CmdStep
CmdRemove(p) == Goto(p, "cmdRemove", "gone") /\ Cmd!Remove /\ CmdStep

\* runStart: the daemon is a new process; what it does is waited for.
Spawn(p) ==
  /\ pc[p] = "spawn"
  /\ \E d \in Procs :
       /\ pc[d] = "gone" /\ "daemon" \in May[d]
       /\ pc' = [pc EXCEPT ![p] = "read", ![d] = "boot"]
  /\ ret' = [ret EXCEPT ![p] = "poll"]
  /\ UNCHANGED seen /\ Rest

\* TerminateProcess: a daemon that catches signals takes note, any other
\* process ends.  runStop ends too, called by runRestart it returns.
Terminate(p) ==
  LET r == seen[p]
      catches == pc[r] \in DaemonPcs
      back == ret[p] = "restartTarget"
  IN
  /\ pc[p] = "signal"
  /\ pc' = [pc EXCEPT ![p] = IF back THEN "read" ELSE "gone",
                      ![r] = IF catches THEN @ ELSE "gone"]
  /\ ret' = [ret EXCEPT ![p] = IF back THEN "restartWait" ELSE "none",
                        ![r] = IF catches THEN @ ELSE "none"]
  /\ seen' = [seen EXCEPT ![p] = NoFile, ![r] = IF catches THEN @ ELSE NoFile]
  /\ IF catches THEN signalled' = signalled \cup {r} /\ UNCHANGED cmdVars
     ELSE UNCHANGED signalled /\ Cmd!Close(r)
  /\ UNCHANGED <<pidVars, lockVars, svc, raced, crashes>>

\* startCmd.Execute runs the root command, and that with the arguments of the
\* process: this command again.
Execute(p) == pc[p] = "execute" /\ Ask(p, "restart") /\ Rest

Command(p) ==
  \/ CmdOpen(p) \/ CmdRetry(p) \/ CmdTimeout(p) \/ CmdTake(p) \/ Release(p) \/ CmdRemove(p)
  \/ Spawn(p) \/ Terminate(p) \/ Execute(p)

\* The user runs a program.
Invoke(p) ==
  /\ pc[p] = "gone"
  /\ \/ "daemon" \in May[p] /\ Goto(p, "gone", "boot") /\ UNCHANGED <<ret, seen>>
     \/ "start" \in May[p] /\ Goto(p, "gone", "cmdOpen") /\ UNCHANGED <<ret, seen>>
     \/ \E g \in May[p] \cap {"stop", "restart", "status"} : Ask(p, g)
  /\ Rest

Crash(p) ==
  /\ Alive(p) /\ crashes < MaxCrashes
  /\ Die(p)
  /\ crashes' = crashes + 1

Run(p) == Daemon(p) \/ Query(p) \/ Command(p)
Next == \E p \in Procs : Run(p) \/ ServiceStopped(p) \/ Invoke(p) \/ Crash(p)
Spec == Init /\ [][Next]_vars

\* Processes run on; a deadline that is asked for again and again passes.
FairSpec == /\ Spec
            /\ \A p \in Procs : WF_vars(Run(p)) /\ SF_vars(LockTimeout(p))
-----------------------------------------------------------------------------
(* Properties.                                                                *)

\* The lock file keeps daemons apart, and a daemon at work is the one that the
\* PID file names, as long as no process removes a file that another one is
\* using: WritePIDExclusive, with every way to give up, shut down and crash.
Singleton ==
  ~raced => /\ \A p, q \in lockHolders : p = q
            /\ \A p \in Procs : pc[p] \in {"service", "serving"} =>
                 pidFile = p /\ p \in lockHolders /\ lockFd[p] = lockPath

\* When all processes have ended by themselves, their files are gone; a PID
\* file that could not be written stays behind (Unlock, RemovePID).
EndsClean ==
  (crashes = 0 /\ \A p \in Procs : pc[p] = "gone")
    => lockPath = NoFile /\ pidFile \in {NoFile, Garbled}
-----------------------------------------------------------------------------
(* What the comments say and the program does not do.                         *)

\* WritePIDExclusive: "enforcing the singleton daemon guarantee: only one
\* daemon process can run at a time"; the lock "must be held for the daemon's
\* entire lifetime".  A daemon whose service is being stopped has given its
\* files away already.
OneAtWork == \A p, q \in Procs : svc[p] # "off" /\ svc[q] # "off" => p = q

\* cleanupStalePIDFile: "PID file doesn't exist or can't be read - that's
\* fine".  A file that was created and not written keeps every daemon out.
KeptOutByTheLiving == [][\A p \in Procs : ReadStale(p) => pc'[p] # "giveup"]_vars

\* restart is "equivalent to running 'dsm stop' followed by 'dsm start'".
RestartStarts == \A p \in Procs :
  pc[p] = "execute" ~> pc[p] = "gone" \/ \E d \in Procs : svc[d] = "on"
=============================================================================
