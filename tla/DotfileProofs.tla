---------------------------- MODULE DotfileProofs ----------------------------
(***************************************************************************)
(* What is proved of DotfileTransaction for every set of processes, files, *)
(* names and settings, any number of commands, faults and edits.           *)
(***************************************************************************)
EXTENDS DotfileTransaction, FiniteSetTheorems, WellFoundedInduction, TLAPS

OneTarget(cfg) ==
  \A m, n \in Names : cfg.maps[m] = cfg.maps[n] /\ cfg.maps[m] # Absent => m = n

\* What every command has in memory: a configuration with one name for a target,
\* though it need not be valid before it is saved.
Held(cfg) == cfg \in Configs /\ OneTarget(cfg)

\* The shape of a job.
IsJob(j) ==
  /\ j = [cmd |-> j.cmd, h |-> j.h, n |-> j.n, option |-> j.option, key |-> j.key, to |-> j.to,
          cfg |-> j.cfg, backup |-> j.backup, was |-> j.was, sound |-> j.sound, stale |-> j.stale]
  /\ j.cmd \in Commands /\ j.key \in Settings

\* A job at a place.
JobInv(j, at) ==
  /\ IsJob(j)
  /\ at # "idle" => Held(j.cfg) /\ (j.cmd # "set" => j.h \in Homes)
  /\ at \in {"lock", "reload"} => j.to \in Durations
  /\ at \in {"clear", "restore"} => j.cmd \in {"add", "link", "unlink"}
  /\ at = "write" => Validate(j.cfg)

FileInv == disk \in Broken \/ (Held(disk) /\ Validate(disk))

ConfigInv ==
  /\ FileInv
  /\ DOMAIN pc = Procs /\ job = [p \in Procs |-> job[p]]
  /\ \A p \in Procs : JobInv(job[p], pc[p])

-----------------------------------------------------------------------------
(* Changes of a configuration in memory.                                     *)

LEMMA WithMappingHeld ==
  ASSUME NEW cfg, Held(cfg), NEW n, NEW h \in Homes, Addable(cfg, n, h)
  PROVE  Held(WithMapping(cfg, n, h))
<1> DEFINE c == WithMapping(cfg, n, h)
<1>1. /\ c = [maps |-> [cfg.maps EXCEPT ![n] = h], pull |-> cfg.pull, debounce |-> cfg.debounce]
      /\ c.maps = [cfg.maps EXCEPT ![n] = h]
  BY DEF Held, Configs, WithMapping
<1>2. cfg.maps \in [Names -> Homes \cup {Absent}] /\ cfg.pull \in Durations /\ cfg.debounce \in Durations
  BY DEF Held, Configs
<1> HIDE DEF c
<1>3. c \in Configs
  <2>1. [cfg.maps EXCEPT ![n] = h] \in [Names -> Homes \cup {Absent}]
    BY <1>2
  <2>2. QED
    BY <1>1, <1>2, <2>1 DEF Configs
<1>4. \A m \in Names : cfg.maps[m] # h
  BY ConfigAssumption DEF Addable, TargetConflict
<1>5. OneTarget(c)
  BY <1>1, <1>2, <1>4 DEF Held, OneTarget
<1>6. QED
  BY <1>3, <1>5 DEF Held, c

LEMMA WithoutMappingHeld ==
  ASSUME NEW cfg, Held(cfg), NEW n
  PROVE  Held(WithoutMapping(cfg, n))
<1> DEFINE c == WithoutMapping(cfg, n)
<1>1. /\ c = [maps |-> [cfg.maps EXCEPT ![n] = Absent], pull |-> cfg.pull, debounce |-> cfg.debounce]
      /\ c.maps = [cfg.maps EXCEPT ![n] = Absent]
  BY DEF Held, Configs, WithoutMapping
<1>2. cfg.maps \in [Names -> Homes \cup {Absent}] /\ cfg.pull \in Durations /\ cfg.debounce \in Durations
  BY DEF Held, Configs
<1> HIDE DEF c
<1>3. c \in Configs
  <2>1. [cfg.maps EXCEPT ![n] = Absent] \in [Names -> Homes \cup {Absent}]
    BY <1>2
  <2>2. QED
    BY <1>1, <1>2, <2>1 DEF Configs
<1>4. OneTarget(c)
  BY <1>1, <1>2 DEF Held, OneTarget
<1>5. QED
  BY <1>3, <1>4 DEF Held, c

LEMMA WithSettingHeld ==
  ASSUME NEW cfg, Held(cfg), NEW key \in Settings, NEW d \in Durations
  PROVE  Held(WithSetting(cfg, key, d))
<1>1. CASE key = "pull"
  <2>1. WithSetting(cfg, key, d) = [cfg EXCEPT !.pull = d]
    BY <1>1 DEF WithSetting
  <2>2. [cfg EXCEPT !.pull = d] = [maps |-> cfg.maps, pull |-> d, debounce |-> cfg.debounce]
    BY DEF Held, Configs
  <2>3. QED
    BY <2>1, <2>2 DEF Held, Configs, OneTarget
<1>2. CASE key = "debounce"
  <2>1. WithSetting(cfg, key, d) = [cfg EXCEPT !.debounce = d]
    BY <1>2 DEF WithSetting
  <2>2. [cfg EXCEPT !.debounce = d] = [maps |-> cfg.maps, pull |-> cfg.pull, debounce |-> d]
    BY DEF Held, Configs
  <2>3. QED
    BY <2>1, <2>2 DEF Held, Configs, OneTarget
<1>3. QED
  BY <1>1, <1>2 DEF Settings

-----------------------------------------------------------------------------
(* Steps of a command that leave the file alone.                             *)

LEMMA NoJobIdle == JobInv(NoJob, "idle")
BY DEF NoJob, JobInv, IsJob, Commands, Settings

\* What is cut short is broken, or as it was.
LEMMA FileKept ==
  ASSUME FileInv, UNCHANGED disk \/ SaveCut
  PROVE  FileInv'
<1>1. disk' = disk \/ disk' \in Broken
  BY DEF SaveCut, Broken
<1>2. QED
  BY <1>1 DEF FileInv, Held, OneTarget, Validate

LEMMA CommandMoves ==
  ASSUME ConfigInv, NEW p \in Procs, NEW at, NEW j, FileInv',
         pc' = [pc EXCEPT ![p] = at], job' = [job EXCEPT ![p] = j], JobInv(j, at)
  PROVE  ConfigInv'
BY DEF ConfigInv

\* A step that changes neither what the command is to do nor its configuration.
SameTask(j, i) ==
  /\ IsJob(i)
  /\ i.cmd = j.cmd /\ i.h = j.h /\ i.cfg = j.cfg

LEMMA CommandGoesOn ==
  ASSUME ConfigInv, NEW p \in Procs, pc[p] # "idle", NEW at, NEW i,
         UNCHANGED disk \/ SaveCut, pc' = [pc EXCEPT ![p] = at], Keep(p, i), SameTask(job[p], i),
         at \notin {"lock", "reload", "write"},
         at \in {"clear", "restore"} => job[p].cmd \in {"add", "link", "unlink"}
  PROVE  ConfigInv'
<1>1. FileInv'
  BY FileKept DEF ConfigInv
<1>2. CASE at = "idle"
  <2>1. job' = [job EXCEPT ![p] = NoJob]
    BY <1>2 DEF Keep, ConfigInv
  <2>2. QED
    BY <1>1, <1>2, <2>1, CommandMoves, NoJobIdle
<1>3. CASE at # "idle"
  <2>1. job' = [job EXCEPT ![p] = i]
    BY <1>3 DEF Keep, ConfigInv
  <2>2. JobInv(i, at)
    BY DEF ConfigInv, JobInv, SameTask
  <2>3. QED
    BY <1>1, <2>1, <2>2, CommandMoves
<1>4. QED
  BY <1>2, <1>3

LEMMA SameTaskItself ==
  ASSUME NEW j, IsJob(j)
  PROVE  /\ SameTask(j, j)
         /\ \A i, b : i = [j EXCEPT !.backup = b] => SameTask(j, i)
         /\ \A i : i = [j EXCEPT !.sound = FALSE] => SameTask(j, i)
<1>1. SameTask(j, j)
  BY DEF SameTask
<1>2. ASSUME NEW b, NEW i, i = [j EXCEPT !.backup = b] PROVE SameTask(j, i)
  <2>1. i = [cmd |-> j.cmd, h |-> j.h, n |-> j.n, option |-> j.option, key |-> j.key,
             to |-> j.to, cfg |-> j.cfg, backup |-> b, was |-> j.was, sound |-> j.sound,
             stale |-> j.stale]
    BY <1>2 DEF IsJob
  <2>2. /\ i.cmd = j.cmd /\ i.h = j.h /\ i.n = j.n /\ i.option = j.option /\ i.key = j.key
        /\ i.to = j.to /\ i.cfg = j.cfg /\ i.backup = b /\ i.was = j.was /\ i.sound = j.sound
        /\ i.stale = j.stale
    BY <2>1
  <2>3. QED
    BY <2>1, <2>2 DEF SameTask, IsJob
<1>3. ASSUME NEW i, i = [j EXCEPT !.sound = FALSE] PROVE SameTask(j, i)
  BY <1>3 DEF SameTask, IsJob
<1>4. QED
  BY <1>1, <1>2, <1>3

-----------------------------------------------------------------------------
(* The actions, by what they do to the command.                              *)

\* Steps that leave the memory of the command alone, or forget it.
LEMMA PlainSteps ==
  ASSUME ConfigInv, NEW p \in Procs,
         \/ ClaimFails(p) \/ Backup(p) \/ BackupFails(p) \/ Create(p) \/ CreateFails(p)
         \/ RemoveOriginal(p) \/ RemoveOriginalFails(p) \/ Uncreate(p)
         \/ Unplace(p) \/ UnplaceFails(p) \/ CreateLink(p) \/ CreateLinkFails(p) \/ Clear(p)
         \/ Restore(p) \/ MapFails(p) \/ Unplant(p) \/ CopyBack(p) \/ DropBackup(p)
         \/ DropBackupFails(p) \/ CopyRepo(p) \/ CopyRepoFails(p) \/ OverwriteFails(p)
         \/ DeleteLink(p) \/ DeleteLinkFails(p) \/ DeleteTracked(p) \/ DeleteTrackedFails(p)
         \/ RemoveLinkFails(p) \/ LockFails(p) \/ ReloadFails(p) \/ SaveFails(p)
  PROVE  ConfigInv'
<1>1. IsJob(job[p])
  BY DEF ConfigInv, JobInv
<1>2. SameTask(job[p], job[p])
  BY <1>1, SameTaskItself
<1>3. SameJob(p) => UNCHANGED disk /\ Keep(p, job[p])
  BY DEF SameJob, Same
<1> DEFINE Plain == \E at : /\ pc' = [pc EXCEPT ![p] = at]
                            /\ at \notin {"lock", "reload", "write"}
                            /\ at \in {"clear", "restore"} => job[p].cmd \in {"add", "link", "unlink"}
<1>4. Plain /\ pc[p] # "idle" /\ (UNCHANGED disk \/ SaveCut) /\ Keep(p, job[p]) => ConfigInv'
  BY <1>2, CommandGoesOn
<1> HIDE DEF Plain
<1>5. ASSUME \/ ClaimFails(p) \/ BackupFails(p) \/ CreateFails(p) \/ Uncreate(p)
             \/ UnplaceFails(p) \/ CopyRepoFails(p) \/ OverwriteFails(p) \/ DeleteLinkFails(p)
             \/ DeleteTrackedFails(p) \/ RemoveLinkFails(p) \/ LockFails(p)
      PROVE  pc[p] # "idle" /\ SameJob(p) /\ Plain
  BY <1>5 DEF ClaimFails, BackupFails, CreateFails, Uncreate, UnplaceFails, CopyRepoFails,
       OverwriteFails, DeleteLinkFails, DeleteTrackedFails, RemoveLinkFails, LockFails,
       At, End, Goto, Plain
<1>6. ASSUME \/ Create(p) \/ RemoveOriginal(p) \/ RemoveOriginalFails(p) \/ Unplace(p)
             \/ CreateLink(p) \/ Unplant(p) \/ CopyBack(p) \/ DropBackup(p)
             \/ DropBackupFails(p) \/ CopyRepo(p) \/ DeleteTracked(p) \/ ReloadFails(p)
      PROVE  pc[p] # "idle" /\ SameJob(p) /\ Plain
  BY <1>6 DEF Create, RemoveOriginal, RemoveOriginalFails, Unplace, CreateLink, Unplant,
       CopyBack, DropBackup, DropBackupFails, CopyRepo, DeleteTracked, ReloadFails,
       At, Goto, Plain
<1>7. ASSUME Backup(p) \/ MapFails(p) \/ Restore(p)
      PROVE  pc[p] # "idle" /\ SameJob(p) /\ Plain
  BY <1>7 DEF Backup, MapFails, Restore, At, Turn, Goto, Plain
<1>8. ASSUME CreateLinkFails(p) \/ Clear(p) \/ DeleteLink(p)
      PROVE  pc[p] # "idle" /\ SameJob(p) /\ Plain
  BY <1>8 DEF CreateLinkFails, Clear, DeleteLink, At, Goto, Plain
<1>9. ASSUME SaveFails(p)
      PROVE  pc[p] # "idle" /\ (UNCHANGED disk \/ SaveCut) /\ Keep(p, job[p]) /\ Plain
  <2> DEFINE at == [Saved EXCEPT !.add = "unplant"][job[p].cmd]
  <2>1. job[p].cmd \in Commands
    BY <1>1 DEF IsJob
  <2>2. at \in {"unplant", "idle", "unlock"}
    BY <2>1 DEF Saved, Commands
  <2>3. pc' = [pc EXCEPT ![p] = at]
    BY <1>9 DEF SaveFails, Turn, Goto
  <2>4. Plain
    BY <2>2, <2>3 DEF Plain
  <2>5. QED
    BY <1>9, <2>4 DEF SaveFails, WriteEnds
<1>10. QED
  BY <1>3, <1>4, <1>5, <1>6, <1>7, <1>8, <1>9

\* Steps that note a backup, or that a roll-back has failed.
LEMMA NotingSteps ==
  ASSUME ConfigInv, NEW p \in Procs,
         Claim(p) \/ RemoveLink(p) \/ UncreateFails(p) \/ UnplantFails(p) \/ CopyBackFails(p)
           \/ RestoreFails(p) \/ Overwrite(p)
  PROVE  ConfigInv'
<1>1. IsJob(job[p]) /\ p \in DOMAIN job /\ p \in DOMAIN pc
  BY DEF ConfigInv, JobInv
<1> DEFINE unsound == [job[p] EXCEPT !.sound = FALSE]
<1>2. SameTask(job[p], unsound)
  BY <1>1, SameTaskItself
<1>3. CASE Claim(p)
  <2>1. PICK b : job' = [job EXCEPT ![p].backup = b]
    BY <1>3 DEF Claim
  <2>2. PICK i : i = [job[p] EXCEPT !.backup = b]
    OBVIOUS
  <2>3. SameTask(job[p], i)
    BY <1>1, <2>2, SameTaskItself
  <2>4. Keep(p, i) /\ pc' = [pc EXCEPT ![p] = "copy"] /\ UNCHANGED disk /\ pc[p] # "idle"
    BY <1>1, <1>3, <2>1, <2>2 DEF Claim, At, Goto, Keep, Same
  <2>5. QED
    BY <2>3, <2>4, CommandGoesOn
<1>4. CASE RemoveLink(p)
  <2>1. PICK i : Keep(p, i) /\ SameTask(job[p], i)
    BY <1>1, <1>4, SameTaskItself DEF RemoveLink
  <2>2. PICK at \in {"clear", "idle", "unmap"} : pc' = [pc EXCEPT ![p] = at]
    BY <1>4 DEF RemoveLink, Goto
  <2>3. UNCHANGED disk /\ pc[p] # "idle" /\ job[p].cmd = "unlink"
    BY <1>4 DEF RemoveLink, At, Same
  <2>4. QED
    BY <2>1, <2>2, <2>3, CommandGoesOn
<1>5. CASE UncreateFails(p)
  BY <1>2, <1>5, CommandGoesOn DEF UncreateFails, At, End, Goto, Unsound, Same
<1>6. CASE UnplantFails(p)
  BY <1>2, <1>6, CommandGoesOn DEF UnplantFails, At, Goto, Unsound, Same
<1>7. CASE CopyBackFails(p)
  BY <1>2, <1>7, CommandGoesOn DEF CopyBackFails, At, Goto, Unsound, Same
<1>8. CASE RestoreFails(p)
  <2>1. job[p].cmd \in {"add", "link", "unlink"} /\ pc[p] # "idle"
    BY <1>8 DEF RestoreFails, ConfigInv, JobInv
  <2> DEFINE at == [add |-> "uncreate", link |-> "idle", unlink |-> "idle"][job[p].cmd]
  <2>2. at \in {"uncreate", "idle"} /\ pc' = [pc EXCEPT ![p] = at]
    BY <1>8, <2>1 DEF RestoreFails, Turn, Goto
  <2>3. Keep(p, unsound) /\ UNCHANGED disk
    BY <1>8 DEF RestoreFails, Unsound, Same
  <2>4. QED
    BY <1>2, <2>1, <2>2, <2>3, CommandGoesOn
<1>9. CASE Overwrite(p)
  <2>1. pc' = [pc EXCEPT ![p] = "dellink"] /\ UNCHANGED <<disk, job>> /\ pc[p] # "idle"
    BY <1>9 DEF Overwrite, At, Goto, Same
  <2>2. pc'[p] # "idle" /\ job' = [job EXCEPT ![p] = job[p]]
    BY <1>1, <2>1 DEF ConfigInv
  <2>3. Keep(p, job[p])
    BY <2>2 DEF Keep
  <2>4. QED
    BY <1>1, <2>1, <2>3, SameTaskItself, CommandGoesOn
<1>10. QED
  BY <1>3, <1>4, <1>5, <1>6, <1>7, <1>8, <1>9

\* Steps that change the configuration in memory.
LEMMA MappingSteps ==
  ASSUME ConfigInv, NEW p \in Procs, Map(p) \/ Unmap(p)
  PROVE  ConfigInv'
<1> DEFINE cfg == job[p].cfg
<1>1. /\ IsJob(job[p]) /\ p \in DOMAIN job /\ FileInv' /\ pc[p] # "idle"
      /\ Held(cfg) /\ (job[p].cmd # "set" => job[p].h \in Homes)
  BY DEF ConfigInv, JobInv, FileInv, Held, OneTarget, Validate, Map, Unmap, At, Same
<1>2. PICK new : Held(new) /\ job' = [job EXCEPT ![p].cfg = new]
  <2>1. CASE Map(p)
    BY <1>1, <2>1, WithMappingHeld DEF Map, At
  <2>2. CASE Unmap(p)
    BY <1>1, <2>2, WithoutMappingHeld DEF Unmap
  <2>3. QED
    BY <2>1, <2>2
<1>3. PICK i : i = [job[p] EXCEPT !.cfg = new]
  OBVIOUS
<1>4. i = [cmd |-> job[p].cmd, h |-> job[p].h, n |-> job[p].n, option |-> job[p].option,
           key |-> job[p].key, to |-> job[p].to, cfg |-> new, backup |-> job[p].backup,
           was |-> job[p].was, sound |-> job[p].sound, stale |-> job[p].stale]
  BY <1>1, <1>3 DEF IsJob
<1>5. JobInv(i, "truncate")
  BY <1>1, <1>2, <1>4 DEF JobInv, IsJob
<1>6. pc' = [pc EXCEPT ![p] = "truncate"] /\ job' = [job EXCEPT ![p] = i]
  BY <1>1, <1>2, <1>3 DEF Map, Unmap, Goto
<1>7. QED
  BY <1>1, <1>5, <1>6, CommandMoves

LEMMA ReloadStep ==
  ASSUME ConfigInv, NEW p \in Procs, Reload(p)
  PROVE  ConfigInv'
<1> DEFINE new == WithSetting(disk, job[p].key, job[p].to)
<1>1. /\ IsJob(job[p]) /\ p \in DOMAIN job /\ FileInv' /\ pc[p] = "reload" /\ job[p].cmd = "set"
      /\ Held(disk) /\ job[p].key \in Settings /\ job[p].to \in Durations
  BY DEF ConfigInv, JobInv, IsJob, FileInv, Held, OneTarget, Validate, Reload, Loadable, At, Same
<1>2. Held(new)
  BY <1>1, WithSettingHeld
<1>3. PICK i : i = [job[p] EXCEPT !.cfg = new, !.stale = FALSE]
  OBVIOUS
<1> HIDE DEF new
<1>4. i = [cmd |-> job[p].cmd, h |-> job[p].h, n |-> job[p].n, option |-> job[p].option,
           key |-> job[p].key, to |-> job[p].to, cfg |-> new, backup |-> job[p].backup,
           was |-> job[p].was, sound |-> job[p].sound, stale |-> FALSE]
  BY <1>1, <1>3 DEF IsJob
<1>5. JobInv(i, "truncate")
  BY <1>1, <1>2, <1>4 DEF JobInv, IsJob
<1>6. pc' = [pc EXCEPT ![p] = "truncate"] /\ job' = [job EXCEPT ![p] = i]
  BY <1>1, <1>3 DEF Reload, Goto, new
<1>7. QED
  BY <1>1, <1>5, <1>6, CommandMoves

\* The lock, and a kill.
LEMMA LockSteps ==
  ASSUME ConfigInv, NEW p \in Procs, Lock(p) \/ Unlock(p) \/ Crash(p)
  PROVE  ConfigInv'
<1>1. JobInv(job[p], pc[p]) /\ FileInv' /\ pc[p] # "idle"
  BY FileKept DEF ConfigInv, Lock, Unlock, Crash, WriteEnds, At
<1>2. CASE Lock(p)
  <2>1. pc' = [pc EXCEPT ![p] = "reload"] /\ job' = [job EXCEPT ![p] = job[p]]
    BY <1>2 DEF Lock, Goto, ConfigInv
  <2>2. JobInv(job[p], "reload")
    BY <1>1, <1>2 DEF Lock, At, JobInv
  <2>3. QED
    BY <1>1, <2>1, <2>2, CommandMoves
<1>3. CASE Unlock(p) \/ Crash(p)
  <2>1. pc' = [pc EXCEPT ![p] = "idle"] /\ Keep(p, job[p])
    BY <1>3 DEF Unlock, Crash, End, Goto
  <2>2. job' = [job EXCEPT ![p] = NoJob]
    BY <2>1 DEF Keep, ConfigInv
  <2>3. QED
    BY <1>1, <2>1, <2>2, NoJobIdle, CommandMoves
<1>4. QED
  BY <1>2, <1>3

\* SaveToFile validates what it writes.
LEMMA SavingSteps ==
  ASSUME ConfigInv, NEW p \in Procs, Truncate(p) \/ Write(p)
  PROVE  ConfigInv'
<1>1. JobInv(job[p], pc[p])
  BY DEF ConfigInv
<1>2. CASE Truncate(p)
  <2>1. FileInv'
    BY <1>2 DEF Truncate, SaveTruncates, FileInv, Broken
  <2>2. pc' = [pc EXCEPT ![p] = "write"] /\ job' = [job EXCEPT ![p] = job[p]]
    BY <1>2 DEF Truncate, Goto, ConfigInv
  <2>3. JobInv(job[p], "write")
    BY <1>1, <1>2 DEF Truncate, SaveTruncates, JobInv
  <2>4. QED
    BY <2>1, <2>2, <2>3, CommandMoves
<1>3. CASE Write(p)
  <2>1. FileInv'
    BY <1>1, <1>3 DEF Write, SaveWrites, Broken, JobInv, FileInv, Held, OneTarget, Validate
  <2> DEFINE at == Saved[job[p].cmd]
  <2>2. at \in {"idle", "unlock"}
    BY <1>1 DEF JobInv, IsJob, Commands, Saved
  <2>3. pc' = [pc EXCEPT ![p] = at]
    BY <1>3 DEF Write, Turn, Goto
  <2> HIDE DEF at
  <2>4. DOMAIN pc' = Procs /\ job' = [q \in Procs |-> job'[q]]
    BY <1>3, <2>3 DEF ConfigInv, Write
  <2>5. ASSUME NEW q \in Procs PROVE JobInv(job'[q], pc'[q])
    <3>1. JobInv(job[q], pc[q])
      BY DEF ConfigInv
    <3>2. PICK i : i = [job[q] EXCEPT !.stale = TRUE]
      OBVIOUS
    <3>3. q # p => job'[q] \in {job[q], i}
      BY <1>3, <3>2 DEF Write
    <3>4. JobInv(i, pc[q])
      BY <3>1, <3>2 DEF JobInv, IsJob
    <3>5. CASE q # p
      <4>1. pc'[q] = pc[q] /\ job'[q] \in {job[q], i}
        BY <2>3, <3>3, <3>5 DEF ConfigInv
      <4>2. QED
        BY <3>1, <3>4, <4>1
    <3>6. CASE q = p
      <4>1. pc'[p] = at
        BY <2>3 DEF ConfigInv
      <4>2. CASE at = "idle"
        BY <1>3, <3>6, <4>1, <4>2, NoJobIdle DEF Write
      <4>3. CASE at = "unlock"
        <5>1. job'[p] = job[p]
          BY <1>3, <4>1, <4>3 DEF Write
        <5>2. pc[p] = "write"
          BY <1>3 DEF Write
        <5>3. QED
          BY <1>1, <3>6, <4>1, <4>3, <5>1, <5>2 DEF JobInv
      <4>4. QED
        BY <2>2, <4>2, <4>3
    <3>7. QED
      BY <3>5, <3>6
  <2>6. QED
    BY <2>1, <2>4, <2>5 DEF ConfigInv
<1>4. QED
  BY <1>2, <1>3

\* A command loads what the last one wrote.
LEMMA BeginStep ==
  ASSUME ConfigInv, NEW p \in Procs, NEW j, NEW first, Begin(p, j, first), IsJob(j),
         j.cmd # "set" => j.h \in Homes,
         first \in {"claim", "dellink", "overwrite", "link", "unplace", "unlink"}
           \/ (first = "lock" /\ j.to \in Durations)
  PROVE  ConfigInv'
<1>1. FileInv' /\ Held(disk) /\ p \in DOMAIN job
  BY DEF Begin, Loadable, ConfigInv, FileInv, Held, OneTarget, Validate
<1>2. PICK i : i = [j EXCEPT !.cfg = disk]
  OBVIOUS
<1>3. i = [cmd |-> j.cmd, h |-> j.h, n |-> j.n, option |-> j.option, key |-> j.key, to |-> j.to,
           cfg |-> disk, backup |-> j.backup, was |-> j.was, sound |-> j.sound,
           stale |-> j.stale]
  BY <1>2 DEF IsJob
<1>4. JobInv(i, first)
  BY <1>1, <1>3 DEF JobInv, IsJob
<1>5. pc' = [pc EXCEPT ![p] = first] /\ job' = [job EXCEPT ![p] = i]
  BY <1>2 DEF Begin, Goto
<1>6. QED
  BY <1>1, <1>4, <1>5, CommandMoves

LEMMA BeginsSteps ==
  ASSUME ConfigInv, NEW p \in Procs, Begins(p)
  PROVE  ConfigInv'
<1>1. ASSUME NEW cmd \in Commands, NEW h \in Homes, NEW n, NEW flag, NEW j, j = Job(cmd, h, n, flag)
      PROVE  IsJob(j) /\ j.h \in Homes
  BY <1>1 DEF Job, NoJob, IsJob, Settings
<1>2. ASSUME NEW h \in Homes, RunAdd(p, h) PROVE ConfigInv'
  <2>1. PICK j : j = Job("add", h, NameOf[h], FALSE)
    OBVIOUS
  <2>2. QED
    BY <1>1, <1>2, <2>1, BeginStep DEF RunAdd, Commands
<1>3. ASSUME NEW h \in Homes, NEW flag \in BOOLEAN, RunRemove(p, h, flag) PROVE ConfigInv'
  <2>1. PICK j : j = Job("remove", h, Tracked(h), flag)
    OBVIOUS
  <2>2. QED
    BY <1>1, <1>3, <2>1, BeginStep DEF RunRemove, Commands
<1>4. ASSUME NEW h \in Homes, NEW flag \in BOOLEAN, RunUnlink(p, h, flag) PROVE ConfigInv'
  <2>1. PICK j : j = Job("unlink", h, MappedFrom(disk, h), flag)
    OBVIOUS
  <2>2. QED
    BY <1>1, <1>4, <2>1, BeginStep DEF RunUnlink, Commands
<1>5. ASSUME NEW h \in Homes, NEW n \in Names, NEW flag \in BOOLEAN, RunLink(p, n, h, flag)
      PROVE  ConfigInv'
  <2>1. PICK j : j = Job("link", h, n, flag)
    OBVIOUS
  <2>2. PICK first \in {"link", "unplace", "claim"} : Begin(p, j, first)
    BY <1>5, <2>1 DEF RunLink
  <2>3. QED
    BY <1>1, <2>1, <2>2, BeginStep DEF Commands
<1>6. ASSUME NEW key \in Settings, NEW d \in Durations, RunConfigSet(p, key, d) PROVE ConfigInv'
  <2>1. PICK j : j = [NoJob EXCEPT !.key = key, !.to = d]
    OBVIOUS
  <2>2. IsJob(j) /\ j.cmd = "set" /\ j.to = d
    BY <2>1 DEF NoJob, IsJob, Commands
  <2>3. Begin(p, j, "lock")
    BY <1>6, <2>1 DEF RunConfigSet
  <2>4. QED
    BY <2>2, <2>3, BeginStep
<1>7. QED
  BY <1>2, <1>3, <1>4, <1>5, <1>6 DEF Begins

-----------------------------------------------------------------------------
LEMMA InitConfig == Init => ConfigInv /\ disk \in Configs
<1> SUFFICES ASSUME Init PROVE ConfigInv /\ disk \in Configs
  OBVIOUS
<1>1. FileInv /\ disk \in Configs
  <2>1. PICK tracked \in SUBSET Homes, pull \in Durations, debounce \in Durations :
          LET MapsTo(n) == {h \in tracked : NameOf[h] = n}
          IN  /\ disk = [maps |-> [n \in Names |-> IF MapsTo(n) = {} THEN Absent
                                                  ELSE CHOOSE h \in MapsTo(n) : TRUE],
                         pull |-> pull, debounce |-> debounce]
              /\ Validate(disk)
    BY DEF Init, DiskInit
  <2> DEFINE From(n) == {h \in tracked : NameOf[h] = n}
             maps == [n \in Names |-> IF From(n) = {} THEN Absent ELSE CHOOSE h \in From(n) : TRUE]
  <2>2. ASSUME NEW n \in Names PROVE maps[n] \in Homes \cup {Absent} /\ (maps[n] # Absent => maps[n] \in From(n))
    OBVIOUS
  <2>3. disk = [maps |-> maps, pull |-> pull, debounce |-> debounce] /\ disk.maps = maps
    BY <2>1
  <2>4. maps \in [Names -> Homes \cup {Absent}]
    BY <2>2
  <2>5. ASSUME NEW m \in Names, NEW n \in Names, maps[m] = maps[n], maps[m] # Absent PROVE m = n
    <3>1. NameOf[maps[m]] = m /\ NameOf[maps[n]] = n
      BY <2>2, <2>5
    <3>2. QED
      BY <2>5, <3>1
  <2> HIDE DEF maps
  <2>6. QED
    BY <2>1, <2>3, <2>4, <2>5 DEF FileInv, Held, Configs, OneTarget
<1>2. QED
  BY <1>1, NoJobIdle DEF Init, ConfigInv

LEMMA NextConfig == ConfigInv /\ [Next]_vars => ConfigInv'
<1> SUFFICES ASSUME ConfigInv, [Next]_vars PROVE ConfigInv'
  OBVIOUS
<1>1. ASSUME NEW p \in Procs, Begins(p) PROVE ConfigInv'
  BY <1>1, BeginsSteps
<1>2. ASSUME NEW p \in Procs, Steps(p) PROVE ConfigInv'
  BY <1>2, PlainSteps, NotingSteps, MappingSteps, ReloadStep, LockSteps, SavingSteps DEF Steps
<1>3. ASSUME NEW p \in Procs, Failures(p) PROVE ConfigInv'
  BY <1>3, PlainSteps, NotingSteps DEF Failures
<1>4. ASSUME NEW p \in Procs, Crash(p) PROVE ConfigInv'
  BY <1>4, LockSteps
<1>5. ASSUME UNCHANGED <<disk, pc, job>> PROVE ConfigInv'
  BY <1>5 DEF ConfigInv, FileInv, JobInv, IsJob, Held, OneTarget, Validate
<1>6. ASSUME NEW h \in Homes, NEW t \in Texts, Edit(h, t) PROVE ConfigInv'
  BY <1>5, <1>6 DEF Edit
<1>7. QED
  BY <1>1, <1>2, <1>3, <1>4, <1>5, <1>6 DEF Next, vars

-----------------------------------------------------------------------------
(* Where a command is and what it refers to.                                 *)

Backups == [of : Homes, text : Data \cup {Absent}]

\* A job refers to a name of the repository and to a backup when it needs them.
Refers(j, at, count) ==
  /\ j.backup \in 0..count
  /\ at = "idle" => j = NoJob
  /\ at # "idle" =>
       /\ j.cmd \in {"add", "link", "remove"} => j.n \in Names
       /\ j.cmd = "unlink" => j.n \in Names \cup {Absent}
       /\ j.cmd = "set" => j.h = Absent
  /\ at \in {"copy", "clear", "restore"} \/ (j.cmd = "add" /\ at \notin {"idle", "claim"}) =>
       j.backup # 0

FilesInv ==
  /\ home \in [Homes -> Data \cup Names \cup {Absent}]
  /\ repo \in [Names -> Data \cup {Absent}]
  /\ backups \in Seq(Backups)

\* config set holds the lock for as long as it works on the file.
HoldsLock(p) == job[p].cmd = "set" /\ pc[p] \in Locked
LockInv == \A p \in Procs : (lock = p) <=> HoldsLock(p)

CountInv ==
  /\ commands \in 0..MaxCommands /\ faults \in 0..MaxFaults /\ writes \in 0..MaxWrites
  /\ kept \subseteq Texts /\ odd \subseteq {"edit", "overlap", "rollback", "removal"}

TypeInv ==
  /\ ConfigInv /\ FilesInv /\ LockInv /\ CountInv
  /\ NoConfig \in Configs
  /\ pc \in [Procs -> Pcs]
  /\ \A p \in Procs : Refers(job[p], pc[p], Len(backups))

\* The newest of some backups is one of them.
LEMMA Newest ==
  ASSUME NEW n \in Nat, NEW S \in SUBSET (1..n), S # {}
  PROVE  Max(S) \in S
<1> DEFINE R == {ss \in Nat \X Nat : ss[1] < ss[2]}
           T == {n - t : t \in S}
<1>1. T \subseteq Nat /\ T # {}
  <2>1. \A t \in S : n - t \in Nat
    OBVIOUS
  <2>2. T \subseteq Nat
    BY <2>1
  <2>3. T # {}
    OBVIOUS
  <2>4. QED
    BY <2>2, <2>3
<1>2. PICK x \in T : \A y \in T : ~(<<y, x>> \in R)
  <2>1. IsWellFoundedOn(R, Nat)
    BY NatLessThanWellFounded, Zenon DEF OpToRel
  <2> HIDE DEF R, T
  <2>2. QED
    BY <1>1, <2>1, WFMin
<1>3. \A y \in T : ~(y < x)
  BY <1>1, <1>2
<1>4. PICK t \in S : x = n - t
  BY <1>2
<1>5. ASSUME NEW u \in S PROVE t >= u
  <2>1. n - u \in T /\ t \in 1..n /\ u \in 1..n
    OBVIOUS
  <2>2. ~(n - u < n - t)
    BY <1>3, <1>4, <2>1
  <2>3. QED
    BY <2>1, <2>2
<1>6. QED
  BY <1>4, <1>5 DEF Max

LEMMA FaultCounted ==
  ASSUME CountInv, Calm \/ Fault \/ \E c : Fails(c)
  PROVE  faults' \in 0..MaxFaults
BY DotfileAssumption DEF CountInv, Calm, Fault, Fails

LEMMA CountSteps == CountInv /\ [Next]_vars => CountInv'
<1> SUFFICES ASSUME CountInv, [Next]_vars PROVE CountInv'
  OBVIOUS
<1>0. MaxCommands \in Nat /\ MaxFaults \in Nat /\ MaxWrites \in Nat
  BY DotfileAssumption
<1>1. ASSUME NEW p \in Procs, Begins(p) PROVE CountInv'
  <2>1. PICK j, first : Begin(p, j, first)
    BY <1>1 DEF Begins, RunAdd, RunRemove, RunUnlink, RunLink, RunConfigSet
  <2>2. QED
    BY <1>0, <2>1 DEF Begin, CountInv, fileVars
<1>2. ASSUME NEW p \in Procs, Steps(p) PROVE CountInv'
  <2>1. CASE \/ Claim(p) \/ Backup(p) \/ Create(p) \/ RemoveOriginal(p) \/ Uncreate(p)
             \/ CreateLink(p) \/ Clear(p) \/ Restore(p)
    BY <1>0, <2>1 DEF Claim, Backup, Create, RemoveOriginal, Uncreate, CreateLink, Clear, Restore,
         CountInv, Calm, Same, SameJob, SetHome, SetRepo, SetBackup, WriteAt
  <2>2. CASE Map(p) \/ Unmap(p) \/ Truncate(p) \/ Write(p) \/ Lock(p) \/ Reload(p) \/ Unlock(p)
    BY <1>0, <2>2 DEF Map, Unmap, Truncate, Write, Lock, Reload, Unlock, CountInv, Calm, Same, fileVars
  <2>3. CASE \/ Unplant(p) \/ CopyBack(p) \/ DropBackup(p) \/ CopyRepo(p) \/ Overwrite(p)
             \/ DeleteLink(p) \/ RemoveLink(p)
    BY <1>0, <2>3 DEF Unplant, CopyBack, DropBackup, CopyRepo, Overwrite, DeleteLink, RemoveLink,
         CountInv, Calm, Same, SameJob, SetHome, SetRepo, SetBackup, WriteAt, CopyInto
  <2>4. CASE Unplace(p) \/ DeleteTracked(p)
    BY <1>0, <2>4 DEF Unplace, DeleteTracked, CountInv, Calm, Same, SameJob
  <2>5. QED
    BY <1>2, <2>1, <2>2, <2>3, <2>4 DEF Steps
<1>3. ASSUME NEW p \in Procs, Failures(p) PROVE CountInv'
  <2>1. faults' \in 0..MaxFaults
    BY <1>3, FaultCounted DEF Failures, ClaimFails, BackupFails, CreateFails,
         RemoveOriginalFails, UncreateFails, UnplaceFails, CreateLinkFails, RestoreFails,
         MapFails, SaveFails, UnplantFails, CopyBackFails, DropBackupFails, CopyRepoFails,
         OverwriteFails, DeleteLinkFails, DeleteTrackedFails, RemoveLinkFails, LockFails,
         ReloadFails
  <2>2. UNCHANGED <<commands, writes, kept>> /\ odd' \in {odd, odd \cup {"rollback"}}
    <3>1. CASE \/ ClaimFails(p) \/ BackupFails(p) \/ CreateFails(p) \/ RemoveOriginalFails(p)
               \/ UncreateFails(p) \/ UnplaceFails(p) \/ CreateLinkFails(p)
               \/ MapFails(p) \/ SaveFails(p) \/ UnplantFails(p)
      BY <3>1 DEF ClaimFails, BackupFails, CreateFails, RemoveOriginalFails, UncreateFails,
           UnplaceFails, CreateLinkFails, MapFails, SaveFails, UnplantFails,
           Same, SameJob, SetBackup, fileVars
    <3>2. CASE \/ DropBackupFails(p) \/ OverwriteFails(p) \/ DeleteLinkFails(p)
               \/ DeleteTrackedFails(p) \/ RemoveLinkFails(p) \/ LockFails(p) \/ ReloadFails(p)
      BY <3>2 DEF DropBackupFails, OverwriteFails, DeleteLinkFails, DeleteTrackedFails,
           RemoveLinkFails, LockFails, ReloadFails, Same, SameJob, fileVars
    <3>3. CASE RestoreFails(p) \/ CopyBackFails(p) \/ CopyRepoFails(p)
      BY <3>3 DEF RestoreFails, CopyBackFails, CopyRepoFails, WriteAt, SetHome, SetRepo,
           Same, SameJob, fileVars
    <3>4. QED
      BY <1>3, <3>1, <3>2, <3>3 DEF Failures
  <2>3. QED
    BY <2>1, <2>2 DEF CountInv
<1>4. ASSUME NEW p \in Procs, Crash(p) PROVE CountInv'
  BY <1>0, <1>4 DEF Crash, CountInv, Fault, fileVars
<1>5. ASSUME NEW h \in Homes, NEW t \in Texts, Edit(h, t) PROVE CountInv'
  BY <1>0, <1>5 DEF Edit, CountInv
<1>6. ASSUME UNCHANGED vars PROVE CountInv'
  BY <1>6 DEF CountInv, vars, fileVars
<1>7. QED
  BY <1>1, <1>2, <1>3, <1>4, <1>5, <1>6 DEF Next

\* The kinds of change to the files.
LEMMA TextType ==
  ASSUME FilesInv, NEW h \in Homes
  PROVE  Text(h) \in Data \cup {Absent}
BY DEF FilesInv, Text, IsLink

LEMMA BackupType ==
  ASSUME FilesInv, NEW b \in 1..Len(backups)
  PROVE  backups[b] \in Backups
BY DEF FilesInv

LEMMA FileChanges ==
  ASSUME FilesInv
  PROVE  /\ UNCHANGED fileVars => FilesInv' /\ Len(backups') = Len(backups)
         /\ \A h, to : SetHome(h, to) /\ to \in Data \cup Names \cup {Absent} =>
              FilesInv' /\ Len(backups') = Len(backups)
         /\ \A n, to : SetRepo(n, to) /\ to \in Data \cup {Absent} =>
              FilesInv' /\ Len(backups') = Len(backups)
         /\ \A b, to : SetBackup(b, to) /\ b \in 1..Len(backups) /\ to \in Data \cup {Absent} =>
              FilesInv' /\ Len(backups') = Len(backups)
         /\ \A h, to : WriteAt(h, to) /\ to \in Data \cup {Absent} =>
              FilesInv' /\ Len(backups') = Len(backups)
<1>1. UNCHANGED fileVars => FilesInv' /\ Len(backups') = Len(backups)
  BY DEF FilesInv, fileVars
<1>2. ASSUME NEW h, NEW to \in Data \cup Names \cup {Absent}, SetHome(h, to)
      PROVE  FilesInv' /\ Len(backups') = Len(backups)
  BY <1>2 DEF FilesInv, SetHome
<1>3. ASSUME NEW n, NEW to \in Data \cup {Absent}, SetRepo(n, to)
      PROVE  FilesInv' /\ Len(backups') = Len(backups)
  BY <1>3 DEF FilesInv, SetRepo
<1>4. ASSUME NEW b \in 1..Len(backups), NEW to \in Data \cup {Absent}, SetBackup(b, to)
      PROVE  FilesInv' /\ Len(backups') = Len(backups)
  <2>1. [backups[b] EXCEPT !.text = to] \in Backups
    BY BackupType DEF Backups
  <2>2. backups' = [backups EXCEPT ![b] = [backups[b] EXCEPT !.text = to]]
    BY <1>4 DEF SetBackup
  <2> DEFINE entry == [backups[b] EXCEPT !.text = to]
  <2> HIDE DEF entry
  <2>3. backups' \in Seq(Backups) /\ Len(backups') = Len(backups)
    BY <2>1, <2>2 DEF FilesInv, entry
  <2>4. QED
    BY <1>4, <2>3 DEF FilesInv, SetBackup
<1>5. ASSUME NEW h, NEW to \in Data \cup {Absent}, WriteAt(h, to)
      PROVE  FilesInv' /\ Len(backups') = Len(backups)
  BY <1>2, <1>3, <1>5 DEF WriteAt
<1>6. QED
  BY <1>1, <1>2, <1>3, <1>4, <1>5

\* What the steps of a command write is what a file may hold, and no backup is
\* struck from the list.
FilesStep == FilesInv' /\ Len(backups) <= Len(backups')

\* A command that begins has touched no file.
LEMMA BeginsApart ==
  ASSUME NEW p, Begins(p)
  PROVE  UNCHANGED fileVars
<1>1. \E j, first : Begin(p, j, first)
  BY DEF Begins, RunAdd, RunRemove, RunUnlink, RunLink, RunConfigSet
<1>2. QED
  BY <1>1 DEF Begin

LEMMA FilesSteps ==
  ASSUME TypeInv, NEW p \in Procs, Begins(p) \/ Steps(p) \/ Failures(p) \/ Crash(p)
  PROVE  FilesStep
<1> DEFINE h == job[p].h
           b == job[p].backup
<1>1. FilesInv /\ b \in 0..Len(backups) /\ Len(backups) \in Nat /\ Refers(job[p], pc[p], Len(backups))
  BY DEF TypeInv, FilesInv, Refers
<1>2. UNCHANGED fileVars => FilesStep
  BY <1>1, FileChanges DEF FilesStep
<1>3. pc[p] # "idle" /\ job[p].cmd \in {"add", "link", "remove", "unlink"} => h \in Homes
  BY DEF TypeInv, ConfigInv, JobInv
<1>4. Empty \in Data
  BY DEF Data
<1>5. CASE Begins(p)
  BY <1>2, <1>5, BeginsApart
<1>6. CASE Crash(p)
  BY <1>2, <1>6 DEF Crash
<1>7. CASE Steps(p)
  <2>1. CASE Claim(p)
    <3>1. [of |-> h, text |-> Empty] \in Backups
      BY <1>3, <1>4, <2>1 DEF Claim, At, Backups
    <3>2. backups' = Append(backups, [of |-> h, text |-> Empty]) /\ UNCHANGED <<home, repo>>
      BY <2>1 DEF Claim
    <3>3. QED
      BY <1>1, <3>1, <3>2 DEF FilesInv, FilesStep
  <2>2. CASE Backup(p)
    <3>1. b \in 1..Len(backups) /\ Text(h) \in Data \cup {Absent} /\ SetBackup(b, Text(h))
      BY <1>1, <1>3, <2>2, TextType DEF Backup, At, Refers
    <3>2. QED
      BY <1>1, <3>1, FileChanges DEF FilesStep
  <2>3. CASE Create(p)
    <3>1. Text(h) \in Data \cup {Absent} /\ SetRepo(job[p].n, Text(h))
      BY <1>1, <1>3, <2>3, TextType DEF Create, At
    <3>2. QED
      BY <1>1, <3>1, FileChanges DEF FilesStep
  <2>4. CASE RemoveOriginal(p) \/ Clear(p) \/ Unplant(p) \/ DeleteLink(p) \/ RemoveLink(p)
    <3>1. SetHome(h, Absent)
      BY <2>4 DEF RemoveOriginal, Clear, Unplant, DeleteLink, RemoveLink
    <3>2. QED
      BY <1>1, <3>1, FileChanges DEF FilesStep
  <2>5. CASE Uncreate(p)
    BY <1>1, <2>5, FileChanges DEF Uncreate, FilesStep
  <2>6. CASE Unplace(p) \/ DeleteTracked(p)
    BY <1>1, <2>6 DEF Unplace, DeleteTracked, FilesInv, FilesStep
  <2>7. CASE CreateLink(p)
    <3>1. SetHome(h, job[p].n) /\ job[p].n \in Names
      BY <1>1, <2>7 DEF CreateLink, At, Refers
    <3>2. QED
      BY <1>1, <3>1, FileChanges DEF FilesStep
  <2>8. CASE Restore(p) \/ CopyBack(p)
    <3>1. b \in 1..Len(backups)
      BY <1>1, <2>8 DEF Restore, CopyBack, At, Refers
    <3>2. backups[b].text \in Data \cup {Absent}
        BY <1>1, <3>1, BackupType DEF Backups
    <3>3. WriteAt(h, backups[b].text)
      BY <2>8 DEF Restore, CopyBack
    <3>4. QED
      BY <1>1, <3>2, <3>3, FileChanges DEF FilesStep
  <2>9. CASE DropBackup(p)
    <3>1. b \in 1..Len(backups) /\ SetBackup(b, Absent)
      BY <1>1, <2>9 DEF DropBackup, At, Refers
    <3>2. QED
      BY <1>1, <3>1, FileChanges DEF FilesStep
  <2>10. CASE CopyRepo(p) \/ Overwrite(p)
    <3>1. job[p].n \in Names
      BY <1>1, <2>10 DEF CopyRepo, Overwrite, At, Refers
    <3>2. repo[job[p].n] \in Data \cup {Absent}
      BY <1>1, <3>1 DEF FilesInv
    <3>3. PICK to \in Data \cup {Absent} : WriteAt(h, to)
      BY <1>4, <2>10, <3>2 DEF CopyRepo, Overwrite, CopyInto
    <3>4. QED
      BY <1>1, <3>3, FileChanges DEF FilesStep
  <2>11. CASE Map(p) \/ Unmap(p) \/ Truncate(p) \/ Write(p) \/ Lock(p) \/ Reload(p) \/ Unlock(p)
    BY <1>2, <2>11 DEF Map, Unmap, Truncate, Write, Lock, Reload, Unlock
  <2>12. QED
    BY <1>7, <2>1, <2>2, <2>3, <2>4, <2>5, <2>6, <2>7, <2>8, <2>9, <2>10, <2>11 DEF Steps
<1>8. CASE Failures(p)
  <2>1. CASE BackupFails(p)
    <3>1. b \in 1..Len(backups) /\ SetBackup(b, Absent)
      BY <1>1, <2>1 DEF BackupFails, At, Refers
    <3>2. QED
      BY <1>1, <3>1, FileChanges DEF FilesStep
  <2>2. CASE RestoreFails(p) \/ CopyBackFails(p) \/ CopyRepoFails(p)
    <3>1. UNCHANGED fileVars \/ WriteAt(h, Empty)
      BY <2>2 DEF RestoreFails, CopyBackFails, CopyRepoFails
    <3>2. QED
      BY <1>1, <1>2, <1>4, <3>1, FileChanges DEF FilesStep
  <2>3. CASE \/ ClaimFails(p) \/ CreateFails(p) \/ RemoveOriginalFails(p) \/ UncreateFails(p)
             \/ UnplaceFails(p) \/ CreateLinkFails(p) \/ MapFails(p) \/ SaveFails(p)
             \/ UnplantFails(p)
    BY <1>2, <2>3 DEF ClaimFails, CreateFails, RemoveOriginalFails, UncreateFails,
         UnplaceFails, CreateLinkFails, MapFails, SaveFails, UnplantFails
  <2>4. CASE \/ DropBackupFails(p) \/ OverwriteFails(p) \/ DeleteLinkFails(p)
             \/ DeleteTrackedFails(p) \/ RemoveLinkFails(p) \/ LockFails(p) \/ ReloadFails(p)
    BY <1>2, <2>4 DEF DropBackupFails, OverwriteFails, DeleteLinkFails, DeleteTrackedFails,
         RemoveLinkFails, LockFails, ReloadFails
  <2>5. QED
    BY <1>8, <2>1, <2>2, <2>3, <2>4 DEF Failures
<1>9. QED
  BY <1>5, <1>6, <1>7, <1>8

\* The edit, too.
LEMMA FilesEdit ==
  ASSUME TypeInv, NEW h \in Homes, NEW t \in Texts, Edit(h, t)
  PROVE  FilesInv' /\ Len(backups') = Len(backups)
BY DEF TypeInv, FilesInv, Edit, Data, IsLink

\* A command moves: the jobs of the others, and where they are, stay the same.
LockMoves(p, i, at) ==
  LET holds == i.cmd = "set" /\ at \in Locked IN
  \/ UNCHANGED lock /\ (HoldsLock(p) <=> holds)
  \/ lock = Nobody /\ lock' = p /\ holds
  \/ lock' = (IF lock = p THEN Nobody ELSE lock) /\ ~holds

LEMMA TypeMoves ==
  ASSUME TypeInv, ConfigInv', CountInv', FilesStep, NEW p \in Procs, NEW at \in Pcs, NEW i,
         pc' = [pc EXCEPT ![p] = at], job' = [job EXCEPT ![p] = i],
         Refers(i, at, Len(backups')), LockMoves(p, i, at)
  PROVE  TypeInv'
<1>1. /\ pc' \in [Procs -> Pcs] /\ pc'[p] = at /\ job'[p] = i
      /\ \A q \in Procs \ {p} : pc'[q] = pc[q] /\ job'[q] = job[q]
  BY DEF TypeInv, ConfigInv
<1>2. ASSUME NEW q \in Procs PROVE Refers(job'[q], pc'[q], Len(backups'))
  <2>1. CASE q = p
    BY <1>1, <2>1
  <2>2. CASE q # p
    <3>1. Refers(job[q], pc[q], Len(backups)) /\ Len(backups) <= Len(backups')
      BY DEF TypeInv, FilesStep
    <3>2. Len(backups) \in Nat /\ Len(backups') \in Nat
      BY DEF TypeInv, FilesStep, FilesInv
    <3>3. QED
      BY <1>1, <2>2, <3>1, <3>2 DEF Refers
  <2>3. QED
    BY <2>1, <2>2
<1>3. LockInv'
  <2>1. \A q \in Procs \ {p} : HoldsLock(q)' <=> HoldsLock(q)
    BY <1>1 DEF HoldsLock
  <2>2. HoldsLock(p)' <=> (i.cmd = "set" /\ at \in Locked)
    BY <1>1 DEF HoldsLock
  <2>3. LockInv /\ Nobody \notin Procs
    BY DotfileAssumption DEF TypeInv
  <2>4. QED
    BY <2>1, <2>2, <2>3 DEF LockInv, LockMoves
<1>4. QED
  BY <1>1, <1>2, <1>3 DEF TypeInv, FilesStep

\* A job that is dropped refers to nothing and holds nothing.
LEMMA Dropped ==
  ASSUME TypeInv, FilesStep
  PROVE  Refers(NoJob, "idle", Len(backups')) /\ ~(NoJob.cmd = "set" /\ "idle" \in Locked)
<1>1. Len(backups') \in Nat
  BY DEF FilesStep, FilesInv
<1>2. QED
  BY <1>1 DEF NoJob, Refers, Locked

\* A command goes on without a change of what its job refers to.
LEMMA TypeGoesOn ==
  ASSUME TypeInv, ConfigInv', CountInv', FilesStep, NEW p \in Procs, NEW at \in Pcs, NEW i,
         pc[p] # "idle",
         pc' = [pc EXCEPT ![p] = at], Keep(p, i), UNCHANGED lock,
         i.cmd = job[p].cmd, i.h = job[p].h, i.n = job[p].n, i.backup = job[p].backup,
         at \in {"copy", "clear", "restore"} => job[p].backup # 0,
         job[p].cmd = "add" => at = "idle" \/ job[p].backup # 0,
         job[p].cmd = "set" => (pc[p] \in Locked <=> at \in Locked)
  PROVE  TypeInv'
<1>1. pc'[p] = at
  BY DEF TypeInv
<1>2. CASE at = "idle"
  <2>1. job' = [job EXCEPT ![p] = NoJob]
    BY <1>1, <1>2 DEF Keep
  <2>2. LockMoves(p, NoJob, "idle")
    BY <1>2, Dropped DEF LockMoves, HoldsLock, Locked
  <2>3. QED
    BY <1>2, <2>1, <2>2, Dropped, TypeMoves
<1>3. CASE at # "idle"
  <2>1. job' = [job EXCEPT ![p] = i]
    BY <1>1, <1>3 DEF Keep
  <2>2. Refers(i, at, Len(backups'))
    <3>1. Refers(job[p], pc[p], Len(backups)) /\ Len(backups) <= Len(backups')
      BY DEF TypeInv, FilesStep
    <3>2. Len(backups) \in Nat /\ Len(backups') \in Nat
      BY DEF TypeInv, FilesStep, FilesInv
    <3>3. QED
      BY <1>3, <3>1, <3>2 DEF Refers
  <2>3. LockMoves(p, i, at)
    BY DEF LockMoves, HoldsLock
  <2>4. QED
    BY <2>1, <2>2, <2>3, TypeMoves
<1>4. QED
  BY <1>2, <1>3

LEMMA TypeSteps ==
  ASSUME TypeInv, ConfigInv', CountInv', NEW p \in Procs, Steps(p) \/ Failures(p)
  PROVE  TypeInv'
<1> DEFINE j == job[p]
<1>1. /\ FilesStep
      /\ IsJob(j) /\ j.cmd \in Commands /\ Refers(j, pc[p], Len(backups)) /\ JobInv(j, pc[p])
      /\ pc \in [Procs -> Pcs] /\ j.backup \in Nat
  BY FilesSteps DEF TypeInv, ConfigInv, JobInv, IsJob, Refers
<1> DEFINE unsound == [j EXCEPT !.sound = FALSE]
<1>2. /\ unsound.cmd = j.cmd /\ unsound.h = j.h /\ unsound.n = j.n
      /\ unsound.backup = j.backup
  BY <1>1 DEF IsJob
<1> DEFINE Plain(at, i) ==
             /\ at \in Pcs /\ pc[p] # "idle" /\ pc' = [pc EXCEPT ![p] = at]
             /\ Keep(p, i) /\ UNCHANGED lock
             /\ at \in {"copy", "clear", "restore"} => j.backup # 0
             /\ j.cmd = "add" => at = "idle" \/ j.backup # 0
             /\ j.cmd = "set" => (pc[p] \in Locked <=> at \in Locked)
<1>3. ASSUME NEW at, Plain(at, j) \/ Plain(at, unsound) PROVE TypeInv'
  BY <1>1, <1>2, <1>3, TypeGoesOn
<1> HIDE DEF unsound
<1>4. ASSUME \/ ClaimFails(p) \/ BackupFails(p) \/ CreateFails(p) \/ Uncreate(p)
             \/ UnplaceFails(p) \/ CopyRepoFails(p) \/ OverwriteFails(p) \/ DeleteLinkFails(p)
             \/ DeleteTrackedFails(p) \/ RemoveLinkFails(p) \/ LockFails(p)
      PROVE  Plain("idle", j)
  BY <1>4 DEF ClaimFails, BackupFails, CreateFails, Uncreate, UnplaceFails, CopyRepoFails,
       OverwriteFails, DeleteLinkFails, DeleteTrackedFails, RemoveLinkFails, LockFails,
       At, End, Goto, Plain, SameJob, Same, Pcs, Locked
<1>5. ASSUME Create(p) \/ RemoveOriginal(p) \/ RemoveOriginalFails(p) \/ Unplant(p)
             \/ CopyBack(p) \/ DropBackup(p) \/ DropBackupFails(p) \/ CopyRepo(p)
      PROVE  \E at : Plain(at, j)
  BY <1>1, <1>5 DEF Create, RemoveOriginal, RemoveOriginalFails, Unplant, CopyBack, DropBackup,
       DropBackupFails, CopyRepo, Refers, At, Goto, Plain, SameJob, Same, Pcs
<1>6. ASSUME Unplace(p) \/ CreateLink(p) \/ Clear(p) \/ DeleteLink(p) \/ DeleteTracked(p)
             \/ CreateLinkFails(p) \/ ReloadFails(p)
      PROVE  \E at : Plain(at, j)
  BY <1>1, <1>6 DEF Unplace, CreateLink, Clear, DeleteLink, DeleteTracked, CreateLinkFails,
       ReloadFails, Refers, At, Goto, Plain, SameJob, Same, Pcs, Locked
<1>7. ASSUME Backup(p) \/ MapFails(p) \/ Restore(p)
      PROVE  \E at : Plain(at, j)
  BY <1>1, <1>7 DEF Backup, MapFails, Restore, Refers, At, Turn, Goto, Plain, SameJob, Same, Pcs
<1>8. ASSUME SaveFails(p)
      PROVE  \E at : Plain(at, j)
  <2> DEFINE at == [Saved EXCEPT !.add = "unplant"][j.cmd]
  <2>1. at = (CASE j.cmd = "add" -> "unplant" [] j.cmd = "set" -> "unlock" [] OTHER -> "idle")
    BY <1>1 DEF Saved, Commands
  <2>2. pc' = [pc EXCEPT ![p] = at]
    BY <1>8 DEF SaveFails, Turn, Goto
  <2> HIDE DEF at
  <2>3. Plain(at, j)
    BY <1>1, <1>8, <2>1, <2>2 DEF SaveFails, Plain, Pcs, Refers, Locked
  <2>4. QED
    BY <2>3
<1>9. ASSUME UncreateFails(p) \/ UnplantFails(p) \/ CopyBackFails(p)
      PROVE  \E at : Plain(at, unsound)
  BY <1>1, <1>9 DEF UncreateFails, UnplantFails, CopyBackFails, Unsound, At, End, Goto, Plain,
       Same, Pcs, Refers, unsound
<1>10. ASSUME RestoreFails(p)
       PROVE  \E at : Plain(at, unsound)
  <2> DEFINE at == [add |-> "uncreate", link |-> "idle", unlink |-> "idle"][j.cmd]
  <2>1. j.cmd \in {"add", "link", "unlink"} /\ pc[p] # "idle" /\ j.backup # 0
    BY <1>1, <1>10 DEF RestoreFails, JobInv, Refers
  <2>2. at = IF j.cmd = "add" THEN "uncreate" ELSE "idle"
    BY <2>1
  <2>3. pc' = [pc EXCEPT ![p] = at]
    BY <1>10 DEF RestoreFails, Turn, Goto
  <2> HIDE DEF at
  <2>4. Plain(at, unsound)
    BY <1>10, <2>1, <2>2, <2>3 DEF RestoreFails, Plain, Unsound, Same, Pcs, unsound
  <2>5. QED
    BY <2>4
<1>11. CASE Claim(p)
  <2>1. PICK i : i = [j EXCEPT !.backup = Len(backups) + 1]
    OBVIOUS
  <2>2. /\ i.cmd = j.cmd /\ i.h = j.h /\ i.n = j.n /\ i.backup = Len(backups) + 1
    BY <1>1, <2>1 DEF IsJob
  <2>3. pc' = [pc EXCEPT ![p] = "copy"] /\ job' = [job EXCEPT ![p] = i]
    BY <1>11, <2>1 DEF Claim, Goto
  <2>4. Len(backups) \in Nat /\ Len(backups') = Len(backups) + 1
    <3>1. backups' = Append(backups, [of |-> j.h, text |-> Empty])
      BY <1>11 DEF Claim
    <3>2. QED
      BY <3>1 DEF TypeInv, FilesInv
  <2>5. Refers(i, "copy", Len(backups'))
    BY <1>1, <1>11, <2>2, <2>4 DEF Refers, Claim, At
  <2>6. LockMoves(p, i, "copy")
    BY <1>11, <2>2 DEF LockMoves, HoldsLock, Locked, Claim, At, Same
  <2>7. QED
    BY <1>1, <2>3, <2>5, <2>6, TypeMoves DEF Pcs
<1>12. CASE RemoveLink(p)
  <2> DEFINE found == j.option /\ Matching(j.h) # {}
             i == IF found THEN [j EXCEPT !.backup = Max(Matching(j.h))] ELSE j
             at == IF found THEN "clear" ELSE IF j.n = Absent THEN "idle" ELSE "unmap"
  <2>1. /\ pc' = [pc EXCEPT ![p] = at] /\ Keep(p, i) /\ UNCHANGED lock
        /\ pc[p] = "unlink" /\ j.cmd = "unlink"
    BY <1>12 DEF RemoveLink, At, Goto, Same
  <2>2. CASE found
    <3>1. Len(backups) \in Nat /\ Matching(j.h) \subseteq 1..Len(backups)
      BY DEF TypeInv, FilesInv, Matching
    <3>2. Max(Matching(j.h)) \in 1..Len(backups)
      BY <2>2, <3>1, Newest
    <3> DEFINE newest == Max(Matching(j.h))
    <3> HIDE DEF newest
    <3>3. PICK k : k = [j EXCEPT !.backup = newest]
      OBVIOUS
    <3>4. k.cmd = j.cmd /\ k.h = j.h /\ k.n = j.n /\ k.backup = newest
      BY <1>1, <3>3 DEF IsJob
    <3>5. pc' = [pc EXCEPT ![p] = "clear"] /\ job' = [job EXCEPT ![p] = k]
      BY <1>1, <2>1, <2>2, <3>3 DEF Keep, newest
    <3>6. newest \in 1..Len(backups) /\ Len(backups) <= Len(backups') /\ Len(backups') \in Nat
      BY <1>1, <3>2 DEF newest, FilesStep, FilesInv
    <3>7. Refers(k, "clear", Len(backups'))
      BY <1>1, <2>1, <3>1, <3>4, <3>6 DEF Refers
    <3>8. LockMoves(p, k, "clear")
      BY <2>1, <3>4 DEF LockMoves, HoldsLock, Locked
    <3>9. QED
      BY <1>1, <3>5, <3>7, <3>8, TypeMoves DEF Pcs
  <2>3. CASE ~found
    <3>1. Plain(at, j)
      BY <2>1, <2>3 DEF Plain, Pcs
    <3>2. QED
      BY <1>3, <3>1
  <2>4. QED
    BY <2>2, <2>3
<1>13. CASE Overwrite(p)
  <2>1. pc' = [pc EXCEPT ![p] = "dellink"] /\ job' = [job EXCEPT ![p] = j] /\ UNCHANGED lock
    BY <1>13 DEF Overwrite, Goto, Same, TypeInv, ConfigInv
  <2>2. Refers(j, "dellink", Len(backups'))
    BY <1>1, <1>13 DEF Overwrite, At, Refers, FilesStep, FilesInv
  <2>3. LockMoves(p, j, "dellink")
    BY <1>13, <2>1 DEF Overwrite, At, LockMoves, HoldsLock, Locked
  <2>4. QED
    BY <1>1, <2>1, <2>2, <2>3, TypeMoves DEF Pcs
<1>14. CASE Map(p) \/ Unmap(p) \/ Reload(p)
  <2>1. PICK i : /\ job' = [job EXCEPT ![p] = i]
                 /\ i.cmd = j.cmd /\ i.h = j.h /\ i.n = j.n /\ i.backup = j.backup
    <3>1. CASE Map(p) \/ Unmap(p)
      <4>1. PICK new : job' = [job EXCEPT ![p].cfg = new]
        BY <3>1 DEF Map, Unmap
      <4>2. PICK i : i = [j EXCEPT !.cfg = new]
        OBVIOUS
      <4>3. job' = [job EXCEPT ![p] = i]
        BY <4>1, <4>2 DEF TypeInv, ConfigInv
      <4>4. i.cmd = j.cmd /\ i.h = j.h /\ i.n = j.n /\ i.backup = j.backup
        BY <1>1, <4>2 DEF IsJob
      <4>5. QED
        BY <4>3, <4>4
    <3>2. CASE Reload(p)
      <4>1. PICK new : job' = [job EXCEPT ![p].cfg = new, ![p].stale = FALSE]
        BY <3>2 DEF Reload
      <4>2. PICK i : i = [j EXCEPT !.cfg = new, !.stale = FALSE]
        OBVIOUS
      <4>3. job' = [job EXCEPT ![p] = i]
        BY <4>1, <4>2 DEF TypeInv, ConfigInv
      <4>4. i.cmd = j.cmd /\ i.h = j.h /\ i.n = j.n /\ i.backup = j.backup
        BY <1>1, <4>2 DEF IsJob
      <4>5. QED
        BY <4>3, <4>4
    <3>3. QED
      BY <1>14, <3>1, <3>2
  <2>2. pc' = [pc EXCEPT ![p] = "truncate"] /\ UNCHANGED lock /\ pc[p] # "idle"
    BY <1>14 DEF Map, Unmap, Reload, At, Goto, Same
  <2>3. Refers(i, "truncate", Len(backups'))
    BY <1>1, <1>14, <2>1, <2>2 DEF Map, Unmap, Reload, At, Refers, FilesStep, FilesInv
  <2>4. LockMoves(p, i, "truncate")
    BY <1>14, <2>1, <2>2 DEF Map, Unmap, Reload, At, LockMoves, HoldsLock, Locked
  <2>5. QED
    BY <1>1, <2>1, <2>2, <2>3, <2>4, TypeMoves DEF Pcs
<1>15. CASE Truncate(p) \/ Lock(p)
  <2>1. PICK at \in {"write", "reload"} :
          /\ pc' = [pc EXCEPT ![p] = at] /\ job' = [job EXCEPT ![p] = j] /\ pc[p] # "idle"
          /\ LockMoves(p, j, at)
    BY <1>15 DEF Truncate, Lock, At, Goto, TypeInv, ConfigInv, LockMoves, HoldsLock, Locked
  <2>2. Refers(j, at, Len(backups'))
    BY <1>1, <1>15, <2>1 DEF Truncate, Lock, At, Refers, FilesStep, FilesInv
  <2>3. QED
    BY <1>1, <2>1, <2>2, TypeMoves DEF Pcs
<1>16. CASE Unlock(p)
  <2>1. pc' = [pc EXCEPT ![p] = "idle"] /\ job' = [job EXCEPT ![p] = NoJob]
    BY <1>1, <1>16 DEF Unlock, End, Goto, Keep
  <2>2. lock = p /\ lock' = Nobody
    BY <1>16 DEF Unlock, At, TypeInv, LockInv, HoldsLock, Locked
  <2>3. LockMoves(p, NoJob, "idle")
    BY <2>2, <1>1, Dropped DEF LockMoves
  <2>4. QED
    BY <1>1, <2>1, <2>3, Dropped, TypeMoves DEF Pcs
<1>17. CASE Write(p)
  <2> DEFINE at == Saved[j.cmd]
  <2>1. at = IF j.cmd = "set" THEN "unlock" ELSE "idle"
    BY <1>1 DEF Saved, Commands
  <2>2. pc' = [pc EXCEPT ![p] = at] /\ pc[p] = "write"
    BY <1>17 DEF Write, Turn, Goto
  <2> HIDE DEF at
  <2>3. pc' \in [Procs -> Pcs]
    BY <1>1, <2>1, <2>2 DEF Pcs
  <2>4. UNCHANGED <<backups, lock>>
    BY <1>17 DEF Write, fileVars
  <2>5. ASSUME NEW q \in Procs
        PROVE  Refers(job'[q], pc'[q], Len(backups')) /\ (HoldsLock(q)' <=> HoldsLock(q))
    <3>1. Refers(job[q], pc[q], Len(backups)) /\ IsJob(job[q]) /\ Len(backups) \in Nat
      BY DEF TypeInv, ConfigInv, JobInv, FilesInv
    <3>2. PICK i : i = [job[q] EXCEPT !.stale = TRUE]
      OBVIOUS
    <3>3. i.cmd = job[q].cmd /\ i.h = job[q].h /\ i.n = job[q].n /\ i.backup = job[q].backup
      BY <3>1, <3>2 DEF IsJob
    <3>4. CASE q # p
      <4>1. /\ job'[q] \in {job[q], i} /\ pc'[q] = pc[q]
            /\ pc[q] = "idle" => job'[q] = job[q]
        BY <1>1, <1>17, <2>2, <3>2, <3>4 DEF Write
      <4>2. QED
        BY <2>4, <3>1, <3>3, <4>1 DEF Refers, HoldsLock
    <3>5. CASE q = p
      <4>1. pc'[p] = at
        BY <1>1, <2>2
      <4>2. CASE j.cmd = "set"
        <5>1. job'[p] = j /\ at = "unlock"
          BY <1>17, <2>1, <4>1, <4>2 DEF Write
        <5>2. QED
          BY <2>2, <2>4, <3>1, <3>5, <4>1, <4>2, <5>1 DEF Refers, HoldsLock, Locked
      <4>3. CASE j.cmd # "set"
        <5>1. job'[p] = NoJob /\ at = "idle"
          BY <1>17, <2>1, <4>1, <4>3 DEF Write
        <5>2. Refers(NoJob, "idle", Len(backups'))
          BY <1>1, Dropped
        <5>3. QED
          BY <3>5, <4>1, <4>3, <5>1, <5>2 DEF HoldsLock, Locked
      <4>4. QED
        BY <4>2, <4>3
    <3>6. QED
      BY <3>4, <3>5
  <2>6. LockInv'
    BY <2>4, <2>5 DEF TypeInv, LockInv
  <2>7. QED
    BY <1>1, <2>3, <2>5, <2>6 DEF TypeInv, FilesStep
<1> HIDE DEF Plain
<1>18. CASE Steps(p)
  BY <1>3, <1>4, <1>5, <1>6, <1>7, <1>11, <1>12, <1>13, <1>14, <1>15, <1>16, <1>17, <1>18 DEF Steps
<1>19. CASE Failures(p)
  BY <1>3, <1>4, <1>5, <1>6, <1>7, <1>8, <1>9, <1>10, <1>19 DEF Failures
<1>20. QED
  BY <1>18, <1>19

LEMMA TypeBegins ==
  ASSUME TypeInv, ConfigInv', CountInv', NEW p \in Procs, Begins(p)
  PROVE  TypeInv'
<1>1. /\ FilesStep /\ pc \in [Procs -> Pcs] /\ FilesInv
      /\ Len(backups) \in Nat /\ UNCHANGED backups
  <2>1. UNCHANGED backups
    BY BeginsApart DEF fileVars
  <2>2. QED
    BY <2>1, FilesSteps DEF TypeInv, FilesInv
<1>2. ASSUME NEW j, NEW first, Begin(p, j, first), IsJob(j), j.backup = 0,
             \/ j.cmd \in {"add", "link", "remove"} /\ j.n \in Names
             \/ j.cmd = "unlink" /\ j.n \in Names \cup {Absent}
             \/ j.cmd = "set" /\ j.h = Absent,
             first \in {"claim", "dellink", "overwrite", "link", "unplace", "unlink", "lock"},
             j.cmd = "add" => first = "claim"
      PROVE  TypeInv'
  <2>1. PICK i : i = [j EXCEPT !.cfg = disk]
    OBVIOUS
  <2>2. i.cmd = j.cmd /\ i.h = j.h /\ i.n = j.n /\ i.backup = 0
    BY <1>2, <2>1 DEF IsJob
  <2>3. /\ pc[p] = "idle" /\ pc' = [pc EXCEPT ![p] = first] /\ job' = [job EXCEPT ![p] = i]
        /\ UNCHANGED lock
    BY <1>2, <2>1 DEF Begin, Goto
  <2>4. Refers(i, first, Len(backups'))
    BY <1>1, <1>2, <2>2 DEF Refers
  <2>5. LockMoves(p, i, first)
    BY <1>2, <2>3 DEF LockMoves, HoldsLock, Locked
  <2>6. QED
    BY <1>1, <1>2, <2>3, <2>4, <2>5, TypeMoves DEF Pcs
<1>3. ASSUME NEW cmd \in Commands, NEW h \in Homes, NEW n, NEW flag, NEW j,
             j = Job(cmd, h, n, flag)
      PROVE  IsJob(j) /\ j.cmd = cmd /\ j.h = h /\ j.n = n /\ j.backup = 0
  BY <1>3 DEF Job, NoJob, IsJob, Settings
<1>4. \A h \in Homes : MappedFrom(disk, h) \in Names \cup {Absent}
  BY DEF MappedFrom, TargetConflict
<1>5. ASSUME NEW h \in Homes, RunAdd(p, h) PROVE TypeInv'
  <2>1. PICK j : j = Job("add", h, NameOf[h], FALSE)
    OBVIOUS
  <2>2. NameOf[h] \in Names
    BY DotfileAssumption
  <2>3. Begin(p, j, "claim")
    BY <1>5, <2>1 DEF RunAdd
  <2>4. IsJob(j) /\ j.cmd = "add" /\ j.n = NameOf[h] /\ j.backup = 0
    BY <2>1 DEF Job, NoJob, IsJob, Settings, Commands
  <2>5. QED
    BY <1>2, <2>2, <2>3, <2>4
<1>6. ASSUME NEW h \in Homes, NEW flag \in BOOLEAN, RunRemove(p, h, flag) PROVE TypeInv'
  <2>1. PICK j : j = Job("remove", h, Tracked(h), flag)
    OBVIOUS
  <2>2. Tracked(h) \in Names
    BY <1>4, <1>6 DEF Tracked, RunRemove, IsLink
  <2>3. QED
    BY <1>2, <1>3, <1>6, <2>1, <2>2 DEF RunRemove, Commands
<1>7. ASSUME NEW h \in Homes, NEW flag \in BOOLEAN, RunUnlink(p, h, flag) PROVE TypeInv'
  <2>1. PICK j : j = Job("unlink", h, MappedFrom(disk, h), flag)
    OBVIOUS
  <2>2. QED
    BY <1>2, <1>3, <1>4, <1>7, <2>1 DEF RunUnlink, Commands
<1>8. ASSUME NEW h \in Homes, NEW n \in Names, NEW flag \in BOOLEAN, RunLink(p, n, h, flag)
      PROVE  TypeInv'
  <2>1. PICK j : j = Job("link", h, n, flag)
    OBVIOUS
  <2>2. PICK first \in {"link", "unplace", "claim"} : Begin(p, j, first)
    BY <1>8, <2>1 DEF RunLink
  <2>3. QED
    BY <1>2, <1>3, <2>1, <2>2 DEF Commands
<1>9. ASSUME NEW key \in Settings, NEW d \in Durations, RunConfigSet(p, key, d) PROVE TypeInv'
  <2>1. PICK j : j = [NoJob EXCEPT !.key = key, !.to = d]
    OBVIOUS
  <2>2. IsJob(j) /\ j.cmd = "set" /\ j.h = Absent /\ j.backup = 0
    BY <2>1 DEF NoJob, IsJob, Commands
  <2>3. Begin(p, j, "lock")
    BY <1>9, <2>1 DEF RunConfigSet
  <2>4. QED
    BY <1>2, <2>2, <2>3
<1>10. QED
  BY <1>5, <1>6, <1>7, <1>8, <1>9 DEF Begins

LEMMA NextType == TypeInv /\ [Next]_vars => TypeInv'
<1> SUFFICES ASSUME TypeInv, [Next]_vars PROVE TypeInv'
  OBVIOUS
<1>1. ConfigInv' /\ CountInv'
  BY NextConfig, CountSteps DEF TypeInv
<1>2. ASSUME NEW p \in Procs, Begins(p) \/ Steps(p) \/ Failures(p) PROVE TypeInv'
  BY <1>1, <1>2, TypeBegins, TypeSteps
<1>3. ASSUME NEW p \in Procs, Crash(p) PROVE TypeInv'
  <2>1. FilesStep
    BY <1>3, FilesSteps
  <2>2. pc' = [pc EXCEPT ![p] = "idle"] /\ job' = [job EXCEPT ![p] = NoJob]
    BY <1>3 DEF Crash, End, Goto, Keep, TypeInv
  <2>3. LockMoves(p, NoJob, "idle")
    BY <1>3, <2>1, Dropped DEF LockMoves, Crash
  <2>4. QED
    BY <1>1, <2>1, <2>2, <2>3, Dropped, TypeMoves DEF Pcs
<1>4. ASSUME FilesInv', Len(backups') = Len(backups), UNCHANGED <<lock, pc, job>> PROVE TypeInv'
  BY <1>1, <1>4 DEF TypeInv, LockInv, HoldsLock
<1>5. ASSUME NEW h \in Homes, NEW t \in Texts, Edit(h, t) PROVE TypeInv'
  BY <1>4, <1>5, FilesEdit DEF Edit
<1>6. ASSUME UNCHANGED vars PROVE TypeInv'
  BY <1>4, <1>6 DEF vars, fileVars, TypeInv, FilesInv
<1>7. QED
  BY <1>2, <1>3, <1>5, <1>6 DEF Next

\* The elements of a finite set, in a sequence.
LEMMA Enumerated ==
  ASSUME NEW S, IsFiniteSet(S)
  PROVE  SetToSeq(S) \in Seq(S)
<1>1. PICK f \in [1..Cardinality(S) -> S] : IsInjective(f)
  BY FS_CardinalityType DEF ExistsBijection, Bijection, Injection, IsInjective
<1>2. SetToSeq(S) \in [1..Cardinality(S) -> S]
  BY <1>1 DEF SetToSeq
<1>3. QED
  BY <1>2, FS_CardinalityType

LEMMA InitType == Init => TypeInv
<1> SUFFICES ASSUME Init PROVE TypeInv
  OBVIOUS
<1>1. PICK tracked \in SUBSET Homes, cloned \in SUBSET (Names \cap DOMAIN Original) :
        LET MapsTo(n) == {h \in tracked : NameOf[h] = n}
            files == Homes \cup cloned
        IN
        /\ home = [h \in Homes |-> IF h \in tracked THEN NameOf[h] ELSE Original[h]]
        /\ repo = [n \in Names |-> IF n \in cloned THEN Original[n]
                                  ELSE IF MapsTo(n) = {} THEN Absent
                                  ELSE Original[CHOOSE h \in MapsTo(n) : TRUE]]
        /\ backups = SetToSeq({[of |-> h, text |-> Original[h]] : h \in tracked})
        /\ kept = {Original[x] : x \in files} /\ odd = {}
  BY DEF Init
<1>2. /\ lock = Nobody /\ pc = [p \in Procs |-> "idle"] /\ job = [p \in Procs |-> NoJob]
      /\ commands = 0 /\ faults = 0 /\ writes = 0
  BY DEF Init
<1>3. FilesInv
  <2>1. \A x \in Homes \cup cloned : Original[x] \in Data
    BY DotfileAssumption DEF Data
  <2>2. home \in [Homes -> Data \cup Names \cup {Absent}]
    BY <1>1, <2>1, DotfileAssumption
  <2> DEFINE MapsTo(n) == {h \in tracked : NameOf[h] = n}
  <2>3. \A n \in Names : MapsTo(n) # {} => (CHOOSE h \in MapsTo(n) : TRUE) \in Homes
    OBVIOUS
  <2>4. repo \in [Names -> Data \cup {Absent}]
    <3> DEFINE first(n) == CHOOSE h \in MapsTo(n) : TRUE
    <3>1. repo = [n \in Names |-> IF n \in cloned THEN Original[n]
                                  ELSE IF MapsTo(n) = {} THEN Absent ELSE Original[first(n)]]
      BY <1>1
    <3>2. \A n \in Names : MapsTo(n) # {} => first(n) \in Homes
      BY <2>3
    <3> HIDE DEF first, MapsTo
    <3>3. QED
      BY <2>1, <3>1, <3>2
  <2>5. backups \in Seq(Backups)
    <3> DEFINE S == {[of |-> h, text |-> Original[h]] : h \in tracked}
    <3>1. IsFiniteSet(tracked)
      BY DotfileAssumption, FS_Subset
    <3>2. IsFiniteSet(S)
      <4> DEFINE f == [h \in tracked |-> [of |-> h, text |-> Original[h]]]
      <4>1. f \in Surjection(tracked, S)
        BY DEF Surjection
      <4> HIDE DEF f, S
      <4>2. QED
        BY <3>1, <4>1, FS_Surjection
    <3>3. S \subseteq Backups
      BY <2>1 DEF Backups
    <3>4. backups = SetToSeq(S)
      BY <1>1
    <3> HIDE DEF S
    <3>5. QED
      BY <3>2, <3>3, <3>4, Enumerated
  <2>6. QED
    BY <2>2, <2>4, <2>5 DEF FilesInv
<1>4. CountInv
  <2>1. kept \subseteq Texts
    BY <1>1, DotfileAssumption
  <2>2. MaxCommands \in Nat /\ MaxFaults \in Nat /\ MaxWrites \in Nat
    BY DotfileAssumption
  <2>3. odd = {}
    BY <1>1
  <2>4. QED
    BY <1>2, <2>1, <2>2, <2>3 DEF CountInv
<1>5. LockInv
  BY <1>2, DotfileAssumption DEF LockInv, HoldsLock, Locked
<1>6. \A p \in Procs : Refers(job[p], pc[p], Len(backups))
  <2>1. Len(backups) \in Nat
    BY <1>3 DEF FilesInv
  <2>2. QED
    BY <1>2, <2>1 DEF Refers, NoJob
<1>7. NoConfig \in Configs
  <2>1. disk \in Configs
    BY InitConfig
  <2>2. QED
    BY <2>1 DEF NoConfig
<1>8. QED
  BY <1>2, <1>3, <1>4, <1>5, <1>6, <1>7, InitConfig DEF TypeInv, Pcs

\* The disk, the files, the backups, the jobs and the counters keep their types,
\* every job refers to a backup that has been made, and exactly the config set that is
\* between the lock and the unlock holds the lock.
THEOREM TypeCorrect == Spec => []TypeOK
<1>1. TypeInv => TypeOK
  <2> SUFFICES ASSUME TypeInv PROVE TypeOK
    OBVIOUS
  <2>1. DiskTypeOK
    BY DEF TypeInv, ConfigInv, FileInv, Held, DiskTypeOK
  <2>2. \A i \in DOMAIN backups : backups[i].of \in Homes /\ backups[i].text \in Data \cup {Absent}
    BY BackupType DEF TypeInv, FilesInv, Backups
  <2>3. ASSUME NEW p \in Procs
        PROVE  /\ job[p].cfg \in Configs /\ job[p].cmd \in Commands
               /\ job[p].backup \in 0..Len(backups)
               /\ (lock = p) <=> (job[p].cmd = "set" /\ pc[p] \in Locked)
    <3>1. /\ JobInv(job[p], pc[p]) /\ Refers(job[p], pc[p], Len(backups))
          /\ NoConfig \in Configs /\ LockInv
      BY DEF TypeInv, ConfigInv
    <3>2. job[p].cfg \in Configs
      BY <3>1 DEF JobInv, Held, Refers, NoJob
    <3>3. QED
      BY <3>1, <3>2 DEF JobInv, IsJob, Refers, LockInv, HoldsLock
  <2>4. QED
    BY <2>1, <2>2, <2>3 DEF TypeOK, TypeInv, FilesInv, CountInv
<1>2. QED
  BY <1>1, InitType, NextType, PTL DEF Spec

-----------------------------------------------------------------------------
(* config set and the others' keys.                                          *)

\* What config set is about to write is what is in the file, but for its own key.
Fresh(j, at, file) ==
  j.cmd = "set" /\ at = "truncate" /\ ~j.stale /\ file \notin Broken =>
    j.cfg = WithSetting(file, j.key, j.to)

KeyInv == \A p \in Procs : Fresh(job[p], pc[p], disk)

\* What a step of one command does to the others, and to the configuration on disk.
Aside(p) == \A q \in Procs \ {p} : pc'[q] = pc[q] /\ job'[q] = job[q]

LEMMA OneMoves ==
  ASSUME TypeInv, NEW p \in Procs, NEW at,
         pc' = [pc EXCEPT ![p] = at], \E i : Keep(p, i) \/ job' = [job EXCEPT ![p] = i]
  PROVE  Aside(p) /\ pc'[p] = at
BY DEF TypeInv, ConfigInv, Aside, Keep

\* Steps of one command that save nothing, and are not the reload of config set.
Quiet(p) ==
  /\ Aside(p) /\ WriteEnds(p)
  /\ \E at : pc'[p] = at /\ (at = "truncate" => job'[p].cmd # "set")

LEMMA QuietMoves ==
  ASSUME TypeInv, NEW p \in Procs, NEW at, at # "truncate", WriteEnds(p),
         pc' = [pc EXCEPT ![p] = at], \E i : Keep(p, i) \/ job' = [job EXCEPT ![p] = i]
  PROVE  Quiet(p)
BY OneMoves DEF Quiet

LEMMA QuietSteps ==
  ASSUME TypeInv, NEW p \in Procs, Begins(p) \/ Steps(p) \/ Failures(p) \/ Crash(p)
  PROVE  Truncate(p) \/ Write(p) \/ Reload(p) \/ Quiet(p)
<1> DEFINE j == job[p]
           Plain == \E at : at # "truncate" /\ pc' = [pc EXCEPT ![p] = at] /\ WriteEnds(p)
                              /\ \E i : Keep(p, i) \/ job' = [job EXCEPT ![p] = i]
<1>1. Plain => Quiet(p)
  BY QuietMoves
<1>2. /\ IsJob(j) /\ j.cmd \in Commands /\ JobInv(j, pc[p])
      /\ job = [q \in Procs |-> job[q]]
  BY DEF TypeInv, ConfigInv, JobInv, IsJob
<1>3. CASE Begins(p)
  <2>1. PICK i, first : /\ Begin(p, i, first)
                        /\ first \in {"claim", "dellink", "overwrite", "link", "unplace", "unlink", "lock"}
    BY <1>3 DEF Begins, RunAdd, RunRemove, RunUnlink, RunLink, RunConfigSet
  <2>2. QED
    BY <1>1, <2>1 DEF Begin, Goto, WriteEnds
<1>4. CASE Crash(p) \/ Lock(p) \/ Unlock(p)
  BY <1>1, <1>2, <1>4 DEF Crash, Lock, Unlock, At, End, Goto, WriteEnds
<1>5. CASE Claim(p) \/ RemoveLink(p) \/ UncreateFails(p) \/ UnplantFails(p) \/ CopyBackFails(p)
  BY <1>1, <1>2, <1>5 DEF Claim, RemoveLink, UncreateFails, UnplantFails, CopyBackFails,
       At, Unsound, Same, End, Goto, WriteEnds
<1>6. CASE Overwrite(p)
  <2>1. job' = [job EXCEPT ![p] = j]
    BY <1>2, <1>6 DEF Overwrite
  <2>2. QED
    BY <1>1, <1>6, <2>1 DEF Overwrite, At, Same, Goto, WriteEnds
<1>7. CASE RestoreFails(p)
  <2>1. j.cmd \in {"add", "link", "unlink"}
    BY <1>2, <1>7 DEF RestoreFails, JobInv
  <2>2. [add |-> "uncreate", link |-> "idle", unlink |-> "idle"][j.cmd] # "truncate"
    BY <2>1
  <2>3. QED
    BY <1>1, <1>7, <2>2 DEF RestoreFails, Turn, Goto, Unsound, Same, WriteEnds
<1>8. CASE SaveFails(p)
  <2>1. [Saved EXCEPT !.add = "unplant"][j.cmd] # "truncate"
    BY <1>2 DEF Saved, Commands
  <2>2. QED
    BY <1>1, <1>8, <2>1 DEF SaveFails, Turn, Goto
<1>9. CASE Map(p) \/ Unmap(p)
  <2>1. PICK new : job' = [job EXCEPT ![p].cfg = new]
    BY <1>9 DEF Map, Unmap
  <2>2. PICK i : i = [j EXCEPT !.cfg = new]
    OBVIOUS
  <2>3. i.cmd = j.cmd
    BY <1>2, <2>2 DEF IsJob
  <2>4. job' = [job EXCEPT ![p] = i] /\ job'[p] = i
    BY <1>2, <2>1, <2>2
  <2>5. pc' = [pc EXCEPT ![p] = "truncate"] /\ WriteEnds(p) /\ j.cmd # "set"
    BY <1>9 DEF Map, Unmap, At, Goto, Same, WriteEnds
  <2>6. QED
    BY <2>3, <2>4, <2>5, OneMoves DEF Quiet
<1>10. CASE \/ ClaimFails(p) \/ BackupFails(p) \/ CreateFails(p) \/ Uncreate(p)
            \/ UnplaceFails(p) \/ CopyRepoFails(p) \/ OverwriteFails(p) \/ DeleteLinkFails(p)
            \/ DeleteTrackedFails(p) \/ RemoveLinkFails(p) \/ LockFails(p)
  BY <1>1, <1>10 DEF ClaimFails, BackupFails, CreateFails, Uncreate, UnplaceFails, CopyRepoFails,
       OverwriteFails, DeleteLinkFails, DeleteTrackedFails, RemoveLinkFails, LockFails,
       At, End, Goto, SameJob, Same, WriteEnds
<1>11. CASE \/ Create(p) \/ RemoveOriginal(p) \/ RemoveOriginalFails(p) \/ Unplant(p)
            \/ CopyBack(p) \/ DropBackup(p) \/ DropBackupFails(p) \/ CopyRepo(p)
  BY <1>1, <1>11 DEF Create, RemoveOriginal, RemoveOriginalFails, Unplant, CopyBack, DropBackup,
       DropBackupFails, CopyRepo, At, Goto, SameJob, Same, WriteEnds
<1>12. CASE \/ Unplace(p) \/ CreateLink(p) \/ Clear(p) \/ DeleteLink(p) \/ DeleteTracked(p)
            \/ CreateLinkFails(p) \/ ReloadFails(p)
  BY <1>1, <1>12 DEF Unplace, CreateLink, Clear, DeleteLink, DeleteTracked, CreateLinkFails,
       ReloadFails, At, Goto, SameJob, Same, WriteEnds
<1>13. CASE Backup(p) \/ MapFails(p) \/ Restore(p)
  BY <1>1, <1>13 DEF Backup, MapFails, Restore, At, Turn, Goto, SameJob, Same, WriteEnds
<1> HIDE DEF Plain
<1>14. QED
  BY <1>3, <1>4, <1>5, <1>6, <1>7, <1>8, <1>9, <1>10, <1>11, <1>12, <1>13 DEF Steps, Failures

\* A file that is truncated is about to be written.
TornInv == disk = Torn => \E p \in Procs : pc[p] = "write"

LEMMA NextTorn == TypeInv /\ TornInv /\ [Next]_vars => TornInv'
<1> SUFFICES ASSUME TypeInv, TornInv, [Next]_vars PROVE TornInv'
  OBVIOUS
<1>1. ASSUME UNCHANGED <<disk, pc>> PROVE TornInv'
  BY <1>1 DEF TornInv
<1>2. ASSUME NEW h \in Homes, NEW t \in Texts, Edit(h, t) PROVE TornInv'
  BY <1>1, <1>2 DEF Edit
<1>3. ASSUME NEW p \in Procs, Begins(p) \/ Steps(p) \/ Failures(p) \/ Crash(p) PROVE TornInv'
  <2>1. CASE Truncate(p)
    <3>1. pc'[p] = "write"
      BY <2>1 DEF Truncate, Goto, TypeInv
    <3>2. QED
      BY <3>1 DEF TornInv
  <2>2. CASE Write(p)
    <3>1. job[p].cfg \in Configs
      BY <2>2 DEF Write, TypeInv, ConfigInv, JobInv, Held
    <3>2. disk' # Torn
      BY <2>2, <3>1, ConfigAssumption DEF Write, SaveWrites
    <3>3. QED
      BY <3>2 DEF TornInv
  <2>3. CASE Reload(p)
    <3>1. UNCHANGED disk /\ pc' = [pc EXCEPT ![p] = "truncate"] /\ pc[p] = "reload"
      BY <2>3 DEF Reload, At, Goto, Same
    <3>2. QED
      BY <3>1 DEF TornInv, TypeInv
  <2>4. CASE Quiet(p) /\ pc[p] = "write"
    <3>1. disk' # Torn
      BY <2>4, ConfigAssumption DEF Quiet, WriteEnds, SaveCut
    <3>2. QED
      BY <3>1 DEF TornInv
  <2>5. CASE Quiet(p) /\ pc[p] # "write"
    BY <2>5 DEF Quiet, Aside, WriteEnds, TornInv
  <2>6. QED
    BY <1>3, <2>1, <2>2, <2>3, <2>4, <2>5, QuietSteps
<1>4. QED
  BY <1>1, <1>2, <1>3 DEF Next, vars

\* Whatever is in the file is a configuration that loads and maps no target from two
\* names, though commands save without a lock what they loaded long ago; or a save is
\* about to write it; or one was cut short after the truncation, or two saves wrote
\* over each other (SaveToFile, AddMapping).
THEOREM ConfigSoundCorrect == Spec => []ConfigSound
<1>1. Init => TornInv
  BY InitConfig, ConfigAssumption DEF TornInv
<1>2. TypeInv /\ TornInv => ConfigSound
  BY DEF TypeInv, ConfigInv, FileInv, Held, OneTarget, TornInv, ConfigSound
<1>3. QED
  BY <1>1, <1>2, InitType, NextType, NextTorn, PTL DEF Spec

LEMMA KeyStep ==
  ASSUME TypeInv, KeyInv, NEW p \in Procs, Begins(p) \/ Steps(p) \/ Failures(p) \/ Crash(p)
  PROVE  KeyInv'
<1>1. CASE Quiet(p)
  <2>1. ASSUME NEW q \in Procs PROVE Fresh(job'[q], pc'[q], disk')
    <3>1. CASE q = p
      BY <1>1, <3>1 DEF Quiet, Fresh
    <3>2. CASE q # p
      BY <1>1, <3>2 DEF Quiet, Aside, WriteEnds, SaveCut, Broken, KeyInv, Fresh
    <3>3. QED
      BY <3>1, <3>2
  <2>2. QED
    BY <2>1 DEF KeyInv
<1>2. CASE Truncate(p)
  BY <1>2 DEF Truncate, SaveTruncates, Broken, KeyInv, Fresh
<1>3. CASE Reload(p)
  <2>1. PICK i : i = [job[p] EXCEPT !.cfg = WithSetting(disk, job[p].key, job[p].to), !.stale = FALSE]
    OBVIOUS
  <2>2. IsJob(job[p]) /\ job = [q \in Procs |-> job[q]]
    BY DEF TypeInv, ConfigInv, JobInv
  <2>3. job' = [job EXCEPT ![p] = i]
    BY <1>3, <2>1, <2>2 DEF Reload
  <2>4. /\ i.key = job[p].key /\ i.to = job[p].to
        /\ i.cfg = WithSetting(disk, job[p].key, job[p].to)
    BY <2>1, <2>2 DEF IsJob
  <2>5. pc' = [pc EXCEPT ![p] = "truncate"] /\ UNCHANGED disk
    BY <1>3 DEF Reload, Goto, Same
  <2>6. Aside(p) /\ job'[p] = i
    BY <2>2, <2>3, <2>5, OneMoves
  <2>7. ASSUME NEW q \in Procs PROVE Fresh(job'[q], pc'[q], disk')
    <3>1. CASE q = p
      BY <2>4, <2>5, <2>6, <3>1 DEF Fresh
    <3>2. CASE q # p
      BY <2>5, <2>6, <3>2 DEF Aside, KeyInv
    <3>3. QED
      BY <3>1, <3>2
  <2>8. QED
    BY <2>7 DEF KeyInv
<1>4. CASE Write(p)
  <2>1. job[p].cmd \in Commands /\ job[p].cmd = "set" => lock = p
    BY <1>4 DEF Write, TypeInv, LockInv, HoldsLock, Locked, ConfigInv, JobInv, IsJob
  <2>2. pc' = [pc EXCEPT ![p] = Saved[job[p].cmd]] /\ Saved[job[p].cmd] # "truncate"
    <3>1. job[p].cmd \in Commands
      BY DEF TypeInv, ConfigInv, JobInv, IsJob
    <3>2. QED
      BY <1>4, <3>1 DEF Write, Turn, Goto, Saved, Commands
  <2>3. ASSUME NEW q \in Procs PROVE Fresh(job'[q], pc'[q], disk')
    <3>1. CASE q = p
      BY <2>2, <3>1 DEF TypeInv, Fresh
    <3>2. CASE q # p
      <4>1. pc'[q] = pc[q] /\ IsJob(job[q]) /\ LockInv
        BY <2>2, <3>2 DEF TypeInv, ConfigInv, JobInv
      <4>2. CASE pc[q] = "truncate" /\ job[p].cmd # "set"
        <5>1. PICK i : i = [job[q] EXCEPT !.stale = TRUE]
          OBVIOUS
        <5>2. job'[q] = i
          BY <1>4, <3>2, <4>2, <5>1 DEF Write
        <5>3. i.stale
          BY <4>1, <5>1 DEF IsJob
        <5>4. QED
          BY <5>2, <5>3 DEF Fresh
      <4>3. CASE pc[q] = "truncate" /\ job[p].cmd = "set"
        <5>1. job'[q] = job[q]
          BY <1>4, <3>2, <4>3 DEF Write
        <5>2. lock = p /\ (job[q].cmd = "set" => lock = q)
          BY <1>4, <4>1, <4>3 DEF Write, LockInv, HoldsLock, Locked
        <5>3. QED
          BY <3>2, <5>1, <5>2 DEF Fresh
      <4>4. QED
        BY <4>1, <4>2, <4>3 DEF Fresh
    <3>3. QED
      BY <3>1, <3>2
  <2>4. QED
    BY <2>3 DEF KeyInv
<1>5. QED
  BY <1>1, <1>2, <1>3, <1>4, QuietSteps

LEMMA NextKey == TypeInv /\ KeyInv /\ [Next]_vars => KeyInv'
<1> SUFFICES ASSUME TypeInv, KeyInv, [Next]_vars PROVE KeyInv'
  OBVIOUS
<1>1. ASSUME UNCHANGED <<disk, pc, job>> PROVE KeyInv'
  BY <1>1 DEF KeyInv
<1>2. ASSUME NEW h \in Homes, NEW t \in Texts, Edit(h, t) PROVE KeyInv'
  BY <1>1, <1>2 DEF Edit
<1>3. QED
  BY <1>1, <1>2, KeyStep DEF Next, vars

\* config set writes what was in the file at that moment with its own key changed:
\* it holds the lock from its reload on, and the commands that do not take the lock
\* leave their mark on the jobs they overtake.
THEOREM SetKeepsOthersCorrect == Spec => SetKeepsOthers
<1>1. Init => KeyInv
  BY DEF Init, KeyInv, Fresh
<1>2. KeyInv => \A p \in Procs : Truncate(p) /\ job[p].cmd = "set" /\ ~job[p].stale /\ disk \notin Broken =>
                  job[p].cfg = WithSetting(disk, job[p].key, job[p].to)
  BY DEF KeyInv, Fresh, Truncate
<1>3. KeyInv /\ [Next]_vars => [\A p \in Procs : LET j == job[p] IN
         Truncate(p) /\ j.cmd = "set" /\ ~j.stale /\ disk \notin Broken =>
           j.cfg = WithSetting(disk, j.key, j.to)]_vars
  BY <1>2
<1>4. QED
  BY <1>1, <1>3, InitType, NextType, NextKey, PTL DEF Spec, SetKeepsOthers

-----------------------------------------------------------------------------
(* Nothing is lost.                                                          *)

\* Where a text is while a command is at work: at the home file, in the repository
\* and in the backup of the command.
AddPlace(j, at, mine, copy, spare) ==
  /\ j.was \in Data
  /\ at \in {"claim", "copy", "create", "remove", "dropbackup"} => mine = j.was
  /\ at \in {"link", "clear", "restore", "copyback"} => mine = Absent
  /\ at = "copyrepo" => mine \in {Absent, Empty}
  /\ at \in {"map", "truncate", "write", "unplant"} => mine = j.n
  /\ at \notin {"claim", "copy", "create"} => copy = j.was
  /\ at \notin {"claim", "copy", "uncreate"} => spare = j.was
  /\ at = "uncreate" => mine = j.was \/ (spare = j.was /\ ~j.sound)
  /\ at \in {"truncate", "write"} => j.cfg.maps[j.n] = j.h

LinkPlace(j, at, mine, spare) ==
  /\ at = "unplace" => j.option \/ mine \notin Data \/ (j.backup # 0 /\ spare = mine)
  /\ at \in {"link", "clear", "restore"} => mine = Absent

Place(j, at, mine, copy, spare) ==
  /\ j.cmd \in {"add", "link"} /\ at = "copy" => spare = Empty
  /\ j.cmd = "add" => AddPlace(j, at, mine, copy, spare)
  /\ j.cmd = "link" => LinkPlace(j, at, mine, spare)
  /\ j.cmd = "remove" /\ at = "dellink" => mine \in Names
  /\ j.cmd = "unlink" /\ at \in {"clear", "restore"} => mine = Absent

\* The commands that work upon files.
Busy(p) == pc[p] # "idle" /\ job[p].cmd # "set"

InPlace(p) == Busy(p) =>
  LET j == job[p] IN Place(j, pc[p], home[j.h], repo[j.n], backups[j.backup].text)

\* No two of them work upon one file, nor write one backup.
Apart(j, i) ==
  /\ i.h # j.h
  /\ j.n \in Names => i.n # j.n
  /\ j.cmd \in {"add", "link"} /\ i.cmd \in {"add", "link"} /\ j.backup # 0 =>
       i.backup # j.backup

SafeInv ==
  /\ kept \subseteq Everywhere
  /\ \A p, q \in Procs : p # q /\ Busy(p) /\ Busy(q) => Apart(job[p], job[q])
  /\ \A p \in Procs : InPlace(p)

\* After a coincidence nothing is said.
LossInv == odd = {} => SafeInv

\* What stays of a job while its command is at work.
SameWork(j, i) ==
  /\ i.cmd = j.cmd /\ i.h = j.h /\ i.n = j.n /\ i.option = j.option /\ i.was = j.was

LEMMA WorkGoesOn ==
  ASSUME NEW j, IsJob(j)
  PROVE  /\ SameWork(j, j)
         /\ \A i : i = [j EXCEPT !.sound = FALSE] =>
              SameWork(j, i) /\ i.backup = j.backup /\ i.cfg = j.cfg /\ ~i.sound
         /\ \A i : i = [j EXCEPT !.stale = TRUE] =>
              SameWork(j, i) /\ i.backup = j.backup /\ i.cfg = j.cfg /\ i.sound = j.sound
         /\ \A i, b : i = [j EXCEPT !.backup = b] =>
              SameWork(j, i) /\ i.backup = b /\ i.cfg = j.cfg /\ i.sound = j.sound
         /\ \A i, new : i = [j EXCEPT !.cfg = new] =>
              SameWork(j, i) /\ i.backup = j.backup /\ i.cfg = new /\ i.sound = j.sound
<1>1. SameWork(j, j)
  BY DEF SameWork
<1>2. \A i : i = [j EXCEPT !.sound = FALSE] =>
        SameWork(j, i) /\ i.backup = j.backup /\ i.cfg = j.cfg /\ ~i.sound
  <2>1. ASSUME NEW i, i = [j EXCEPT !.sound = FALSE]
        PROVE  SameWork(j, i) /\ i.backup = j.backup /\ i.cfg = j.cfg /\ ~i.sound
    BY <2>1 DEF SameWork, IsJob
  <2>2. QED
    BY <2>1
<1>3. \A i : i = [j EXCEPT !.stale = TRUE] =>
        SameWork(j, i) /\ i.backup = j.backup /\ i.cfg = j.cfg /\ i.sound = j.sound
  <2>1. ASSUME NEW i, i = [j EXCEPT !.stale = TRUE]
        PROVE  SameWork(j, i) /\ i.backup = j.backup /\ i.cfg = j.cfg /\ i.sound = j.sound
    BY <2>1 DEF SameWork, IsJob
  <2>2. QED
    BY <2>1
<1>4. \A i, b : i = [j EXCEPT !.backup = b] =>
        SameWork(j, i) /\ i.backup = b /\ i.cfg = j.cfg /\ i.sound = j.sound
  <2>1. ASSUME NEW i, NEW b, i = [j EXCEPT !.backup = b]
        PROVE  SameWork(j, i) /\ i.backup = b /\ i.cfg = j.cfg /\ i.sound = j.sound
    BY <2>1 DEF SameWork, IsJob
  <2>2. QED
    BY <2>1
<1>5. \A i, new : i = [j EXCEPT !.cfg = new] =>
        SameWork(j, i) /\ i.backup = j.backup /\ i.cfg = new /\ i.sound = j.sound
  <2>1. ASSUME NEW i, NEW new, i = [j EXCEPT !.cfg = new]
        PROVE  SameWork(j, i) /\ i.backup = j.backup /\ i.cfg = new /\ i.sound = j.sound
    BY <2>1 DEF SameWork, IsJob
  <2>2. QED
    BY <2>1
<1>6. QED
  BY <1>1, <1>2, <1>3, <1>4, <1>5

\* The jobs of the others are as they were, but for the mark of a save.
Spares(p) ==
  \A q \in Procs \ {p} :
    /\ pc'[q] = pc[q] /\ SameWork(job[q], job'[q]) /\ job'[q].backup = job[q].backup
    /\ job'[q].cfg = job[q].cfg /\ job'[q].sound = job[q].sound

LEMMA AsideSpares ==
  ASSUME TypeInv, NEW p \in Procs, Aside(p)
  PROVE  Spares(p)
BY WorkGoesOn DEF TypeInv, ConfigInv, JobInv, Aside, Spares

\* A command changes its own home file, its own name and its own backup.
OnlyOwn(p) ==
  LET j == job[p] IN
  /\ \A h \in Homes : h # j.h => home'[h] = home[h]
  /\ \A n \in Names : n # j.n => repo'[n] = repo[n]
  /\ \A b \in DOMAIN backups :
       j.cmd \notin {"add", "link"} \/ b # j.backup => backups'[b] = backups[b]
  /\ DOMAIN backups \subseteq DOMAIN backups'

\* The other commands find everything in its place.
LEMMA OthersInPlace ==
  ASSUME TypeInv, SafeInv, NEW p \in Procs, Busy(p), Spares(p), OnlyOwn(p),
         NEW q \in Procs \ {p}
  PROVE  InPlace(q)'
<1> SUFFICES ASSUME Busy(q)' PROVE InPlace(q)'
  BY DEF InPlace
<1> DEFINE j == job[q]
           i == job'[q]
<1>1. /\ Busy(q) /\ pc'[q] = pc[q] /\ SameWork(j, i) /\ i.backup = j.backup
      /\ i.cfg = j.cfg /\ i.sound = j.sound
  BY DEF Spares, Busy, SameWork
<1>2. Place(j, pc[q], home[j.h], repo[j.n], backups[j.backup].text)
  BY <1>1 DEF SafeInv, InPlace
<1>3. Apart(job[p], j)
  BY <1>1 DEF SafeInv
<1>4. /\ j.cmd \in {"add", "link", "remove", "unlink"} /\ j.h \in Homes
      /\ Refers(j, pc[q], Len(backups)) /\ Len(backups) \in Nat
  BY <1>1 DEF TypeInv, ConfigInv, JobInv, IsJob, FilesInv, Busy, Commands
<1>5. home'[i.h] = home[j.h]
  BY <1>1, <1>3, <1>4 DEF OnlyOwn, Apart, SameWork
<1>6. j.cmd \in {"add", "link"} => repo'[i.n] = repo[j.n]
  BY <1>1, <1>3, <1>4 DEF OnlyOwn, Apart, SameWork, Refers, Busy
<1>7. j.cmd \in {"add", "link"} /\ j.backup # 0 => backups'[i.backup] = backups[j.backup]
  <2>1. j.cmd \in {"add", "link"} /\ j.backup # 0 => j.backup \in DOMAIN backups
    BY <1>4 DEF Refers, TypeInv, FilesInv
  <2>2. QED
    BY <1>1, <1>3, <2>1 DEF OnlyOwn, Apart
<1>8. j.cmd \in {"add", "link"} /\ j.backup = 0 =>
        pc[q] # "copy" /\ (j.cmd = "add" => pc[q] = "claim")
  BY <1>1, <1>4 DEF Refers, Busy
<1>9. Place(i, pc[q], home'[i.h], repo'[i.n], backups'[i.backup].text)
  <2>1. CASE j.cmd = "add"
    <3>1. CASE j.backup # 0
      BY <1>1, <1>2, <1>5, <1>6, <1>7, <2>1, <3>1 DEF Place, AddPlace, SameWork
    <3>2. CASE j.backup = 0
      BY <1>1, <1>2, <1>5, <1>6, <1>8, <2>1, <3>2 DEF Place, AddPlace, SameWork
    <3>3. QED
      BY <3>1, <3>2
  <2>2. CASE j.cmd = "link"
    <3>1. CASE j.backup # 0
      BY <1>1, <1>2, <1>5, <1>7, <2>2, <3>1 DEF Place, LinkPlace, SameWork
    <3>2. CASE j.backup = 0
      BY <1>1, <1>2, <1>5, <1>8, <2>2, <3>2 DEF Place, LinkPlace, SameWork
    <3>3. QED
      BY <3>1, <3>2
  <2>3. CASE j.cmd \in {"remove", "unlink"}
    BY <1>1, <1>2, <1>5, <2>3 DEF Place, SameWork
  <2>4. QED
    BY <1>4, <2>1, <2>2, <2>3
<1>10. QED
  BY <1>1, <1>9 DEF InPlace

\* A text that is still kept stays where it was, or is somewhere else.
LEMMA Somewhere ==
  /\ \A h \in Homes : home[h] \in Everywhere
  /\ \A n \in Names : repo[n] \in Everywhere
  /\ \A b \in DOMAIN backups : backups[b].text \in Everywhere
BY DEF Everywhere

LEMMA StillThere ==
  ASSUME kept \subseteq Everywhere, kept' \subseteq kept,
         \A h \in Homes : home[h] \in kept' => home[h] \in Everywhere',
         \A n \in Names : repo[n] \in kept' => repo[n] \in Everywhere',
         \A b \in DOMAIN backups : backups[b].text \in kept' => backups[b].text \in Everywhere'
  PROVE  kept' \subseteq Everywhere'
BY DEF Everywhere

\* A command that has begun takes its next step.
LEMMA SafeMoves ==
  ASSUME TypeInv, TypeInv', SafeInv, NEW p \in Procs, Busy(p), Spares(p), OnlyOwn(p),
         kept' \subseteq Everywhere',
         Busy(p)' => /\ SameWork(job[p], job'[p])
                     /\ \/ job'[p].backup = job[p].backup
                        \/ job'[p].backup = Len(backups) + 1
                        \/ job[p].cmd = "unlink",
         InPlace(p)'
  PROVE  SafeInv'
<1>1. ASSUME NEW q \in Procs PROVE InPlace(q)'
  BY OthersInPlace
<1>2. ASSUME NEW q \in Procs, NEW r \in Procs, q # r, Busy(q)', Busy(r)'
      PROVE  Apart(job'[q], job'[r])
  <2>1. Busy(q) /\ Busy(r)
    BY <1>2 DEF Spares, SameWork, Busy
  <2>2. Apart(job[q], job[r])
    BY <1>2, <2>1 DEF SafeInv
  <2>3. \A s \in Procs : job[s].backup \in 0..Len(backups) /\ Len(backups) \in Nat
    BY DEF TypeInv, Refers, FilesInv
  <2>4. \A s \in {q, r} : SameWork(job[s], job'[s])
    BY <1>2 DEF Spares
  <2>5. CASE q = p
    <3>1. job'[r].backup = job[r].backup
      BY <1>2, <2>5 DEF Spares
    <3>2. QED
      BY <1>2, <2>2, <2>3, <2>4, <2>5, <3>1 DEF Apart, SameWork
  <2>6. CASE r = p
    <3>1. job'[q].backup = job[q].backup
      BY <1>2, <2>6 DEF Spares
    <3>2. QED
      BY <1>2, <2>2, <2>3, <2>4, <2>6, <3>1 DEF Apart, SameWork
  <2>7. CASE q # p /\ r # p
    <3>1. job'[q].backup = job[q].backup /\ job'[r].backup = job[r].backup
      BY <1>2, <2>7 DEF Spares
    <3>2. QED
      BY <2>2, <2>4, <3>1 DEF Apart, SameWork
  <2>8. QED
    BY <2>5, <2>6, <2>7
<1>3. QED
  BY <1>1, <1>2 DEF SafeInv

\* A command takes a step, and may end with it.
LEMMA SafeStep ==
  ASSUME TypeInv, TypeInv', SafeInv, NEW p \in Procs, Busy(p), NEW at, NEW i,
         pc' = [pc EXCEPT ![p] = at],
         Keep(p, i) \/ (at # "idle" /\ job' = [job EXCEPT ![p] = i]),
         OnlyOwn(p), kept' \subseteq Everywhere',
         at # "idle" =>
           /\ SameWork(job[p], i)
           /\ i.backup \in {job[p].backup, Len(backups) + 1} \/ job[p].cmd = "unlink"
           /\ Place(i, at, home'[i.h], repo'[i.n], backups'[i.backup].text)
  PROVE  SafeInv'
<1>1. Aside(p) /\ pc'[p] = at
  BY OneMoves
<1>2. Spares(p)
  BY <1>1, AsideSpares
<1>3. at # "idle" => job'[p] = i
  BY <1>1 DEF Keep, TypeInv, ConfigInv
<1>4. Busy(p)' => at # "idle" /\ job'[p] = i
  BY <1>1, <1>3 DEF Busy
<1>5. InPlace(p)'
  BY <1>1, <1>4 DEF InPlace
<1>6. QED
  BY <1>2, <1>4, <1>5, SafeMoves

\* A process that is at work upon no file, and does not begin to be.
LEMMA SafeElsewhere ==
  ASSUME TypeInv, TypeInv', SafeInv, NEW p \in Procs, ~Busy(p), ~Busy(p)', Spares(p),
         UNCHANGED fileVars
  PROVE  SafeInv'
<1>1. ASSUME NEW q \in Procs, Busy(q)'
      PROVE  /\ q # p /\ Busy(q) /\ pc'[q] = pc[q] /\ SameWork(job[q], job'[q])
             /\ job'[q].backup = job[q].backup /\ job'[q].cfg = job[q].cfg
             /\ job'[q].sound = job[q].sound
  <2>1. q # p
    BY <1>1
  <2>2. QED
    BY <1>1, <2>1 DEF Spares, SameWork, Busy
<1>2. ASSUME NEW q \in Procs PROVE InPlace(q)'
  <2> SUFFICES ASSUME Busy(q)' PROVE InPlace(q)'
    BY DEF InPlace
  <2> DEFINE j == job[q]
             i == job'[q]
  <2>1. /\ Busy(q) /\ pc'[q] = pc[q] /\ SameWork(j, i) /\ i.backup = j.backup
        /\ i.cfg = j.cfg /\ i.sound = j.sound
    BY <1>1
  <2>2. Place(j, pc[q], home[j.h], repo[j.n], backups[j.backup].text)
    BY <2>1 DEF SafeInv, InPlace
  <2>3. /\ home'[i.h] = home[j.h] /\ repo'[i.n] = repo[j.n]
        /\ backups'[i.backup].text = backups[j.backup].text
    BY <2>1 DEF SameWork, fileVars
  <2>4. Place(i, pc'[q], home'[i.h], repo'[i.n], backups'[i.backup].text)
    BY <2>1, <2>2, <2>3 DEF Place, AddPlace, LinkPlace, SameWork
  <2>5. QED
    BY <2>4 DEF InPlace
<1>3. ASSUME NEW q \in Procs, NEW r \in Procs, q # r, Busy(q)', Busy(r)'
      PROVE  Apart(job'[q], job'[r])
  <2>1. Apart(job[q], job[r])
    BY <1>1, <1>3 DEF SafeInv
  <2>2. QED
    BY <1>1, <1>3, <2>1 DEF Apart, SameWork
<1>4. kept' \subseteq Everywhere'
  BY DEF SafeInv, Everywhere, fileVars
<1>5. QED
  BY <1>2, <1>3, <1>4 DEF SafeInv

\* The texts are neither names nor nothing.
LEMMA TextsApart ==
  /\ Absent \notin Texts /\ Empty \notin Texts /\ \A n \in Names : n \notin Data
  /\ Absent \notin Names /\ Absent \notin Data /\ Texts \subseteq Data
BY DotfileAssumption, ConfigAssumption DEF Data

\* The changes of the files that lose nothing.
LEMMA FilesKept ==
  ASSUME TypeInv, SafeInv, NEW p \in Procs, UNCHANGED fileVars
  PROVE  OnlyOwn(p) /\ kept' \subseteq Everywhere'
BY DEF SafeInv, Everywhere, OnlyOwn, fileVars

LEMMA HomeKept ==
  ASSUME TypeInv, SafeInv, NEW p \in Procs, Busy(p), NEW to, SetHome(job[p].h, to),
         home[job[p].h] \in Texts => \E n \in Names : repo[n] = home[job[p].h]
  PROVE  /\ OnlyOwn(p) /\ kept' \subseteq Everywhere'
         /\ home'[job[p].h] = to /\ UNCHANGED <<repo, backups>>
<1> DEFINE h == job[p].h
<1>1. h \in Homes /\ home' = [home EXCEPT ![h] = to] /\ UNCHANGED <<repo, backups, kept>>
  BY DEF SetHome, TypeInv, ConfigInv, JobInv, IsJob, Busy, Commands
<1>2. home'[h] = to /\ \A g \in Homes : g # h => home'[g] = home[g]
  BY <1>1 DEF TypeInv, FilesInv
<1>3. OnlyOwn(p)
  BY <1>1, <1>2 DEF OnlyOwn
<1>4. /\ \A n \in Names : repo[n] \in Everywhere'
      /\ \A b \in DOMAIN backups : backups[b].text \in Everywhere'
      /\ \A g \in Homes : g # h => home[g] \in Everywhere'
  BY <1>1, <1>2 DEF Everywhere
<1>5. home[h] \in kept => home[h] \in Everywhere'
  BY <1>4 DEF TypeInv, CountInv
<1>6. kept' \subseteq Everywhere'
  BY <1>1, <1>4, <1>5, StillThere DEF SafeInv
<1>7. QED
  BY <1>1, <1>2, <1>3, <1>6

LEMMA RepoKept ==
  ASSUME TypeInv, SafeInv, NEW p \in Procs, Busy(p), NEW to, SetRepo(job[p].n, to),
         job[p].n \in Names,
         repo[job[p].n] \in Texts =>
           \/ \E h \in Homes : home[h] = repo[job[p].n]
           \/ \E b \in DOMAIN backups : backups[b].text = repo[job[p].n]
  PROVE  /\ OnlyOwn(p) /\ kept' \subseteq Everywhere'
         /\ repo'[job[p].n] = to /\ UNCHANGED <<home, backups>>
<1> DEFINE n == job[p].n
<1>1. repo' = [repo EXCEPT ![n] = to] /\ UNCHANGED <<home, backups, kept>>
  BY DEF SetRepo
<1>2. repo'[n] = to /\ \A m \in Names : m # n => repo'[m] = repo[m]
  BY <1>1 DEF TypeInv, FilesInv
<1>3. OnlyOwn(p)
  BY <1>1, <1>2 DEF OnlyOwn
<1>4. /\ \A m \in Names : m # n => repo[m] \in Everywhere'
      /\ \A b \in DOMAIN backups : backups[b].text \in Everywhere'
      /\ \A g \in Homes : home[g] \in Everywhere'
  BY <1>1, <1>2 DEF Everywhere
<1>5. repo[n] \in kept => repo[n] \in Everywhere'
  BY <1>4 DEF TypeInv, CountInv
<1>6. kept' \subseteq Everywhere'
  BY <1>1, <1>4, <1>5, StillThere DEF SafeInv
<1>7. QED
  BY <1>1, <1>2, <1>3, <1>6

LEMMA BackupKept ==
  ASSUME TypeInv, SafeInv, NEW p \in Procs, NEW to, SetBackup(job[p].backup, to),
         job[p].cmd \in {"add", "link"}, job[p].backup \in DOMAIN backups,
         backups[job[p].backup].text \in Texts =>
           \E h \in Homes : home[h] = backups[job[p].backup].text
  PROVE  /\ OnlyOwn(p) /\ kept' \subseteq Everywhere'
         /\ backups'[job[p].backup].text = to /\ UNCHANGED <<home, repo>>
<1> DEFINE b == job[p].backup
<1>1. /\ backups' = [backups EXCEPT ![b] = [backups[b] EXCEPT !.text = to]]
      /\ UNCHANGED <<home, repo, kept>>
  BY DEF SetBackup
<1>2. /\ DOMAIN backups' = DOMAIN backups
      /\ backups'[b].text = to
      /\ \A c \in DOMAIN backups : c # b => backups'[c] = backups[c]
  <2>1. b \in 1..Len(backups) /\ DOMAIN backups = 1..Len(backups)
    BY DEF TypeInv, FilesInv
  <2>2. backups[b] \in Backups
    BY <2>1, BackupType DEF TypeInv
  <2>3. [backups[b] EXCEPT !.text = to].text = to
    BY <2>2 DEF Backups
  <2>4. QED
    BY <1>1, <2>1, <2>3
<1>3. OnlyOwn(p)
  BY <1>1, <1>2 DEF OnlyOwn
<1>4. /\ \A n \in Names : repo[n] \in Everywhere'
      /\ \A c \in DOMAIN backups : c # b => backups[c].text \in Everywhere'
      /\ \A g \in Homes : home[g] \in Everywhere'
  BY <1>1, <1>2 DEF Everywhere
<1>5. backups[b].text \in kept => backups[b].text \in Everywhere'
  BY <1>4 DEF TypeInv, CountInv
<1>6. kept' \subseteq Everywhere'
  BY <1>1, <1>4, <1>5, StillThere DEF SafeInv
<1>7. QED
  BY <1>1, <1>2, <1>3, <1>6

LEMMA AtWork ==
  ASSUME TypeInv, SafeInv, NEW p \in Procs, Busy(p)
  PROVE  LET j == job[p] IN
         /\ IsJob(j) /\ j.h \in Homes /\ j.cmd \in {"add", "link", "remove", "unlink"}
         /\ Refers(j, pc[p], Len(backups)) /\ DOMAIN backups = 1..Len(backups)
         /\ Len(backups) \in Nat /\ j.backup \in Nat
         /\ Place(j, pc[p], home[j.h], repo[j.n], backups[j.backup].text)
         /\ home[j.h] \in Data \cup Names \cup {Absent}
<1> DEFINE j == job[p]
<1>1. IsJob(j) /\ j.h \in Homes /\ j.cmd \in {"add", "link", "remove", "unlink"}
  BY DEF TypeInv, ConfigInv, JobInv, IsJob, Busy, Commands
<1>2. /\ Refers(j, pc[p], Len(backups)) /\ DOMAIN backups = 1..Len(backups)
      /\ Len(backups) \in Nat /\ home[j.h] \in Data \cup Names \cup {Absent}
  BY <1>1 DEF TypeInv, FilesInv
<1>3. Place(j, pc[p], home[j.h], repo[j.n], backups[j.backup].text)
  BY DEF SafeInv, InPlace
<1>4. QED
  BY <1>1, <1>2, <1>3 DEF Refers

\* Steps of a command that change no file and no more than its place.
LEMMA SafeStill ==
  ASSUME TypeInv, TypeInv', SafeInv, NEW p \in Procs, Busy(p), NEW at, NEW i,
         pc' = [pc EXCEPT ![p] = at], Keep(p, i), UNCHANGED fileVars,
         i = job[p] \/ i = [job[p] EXCEPT !.sound = FALSE],
         at # "idle" => LET j == job[p] IN
                          Place(i, at, home[j.h], repo[j.n], backups[j.backup].text)
  PROVE  SafeInv'
<1>1. SameWork(job[p], i) /\ i.backup = job[p].backup
  BY AtWork, WorkGoesOn
<1>2. OnlyOwn(p) /\ kept' \subseteq Everywhere'
  BY FilesKept
<1>3. at # "idle" => Place(i, at, home'[i.h], repo'[i.n], backups'[i.backup].text)
  BY <1>1 DEF fileVars, SameWork
<1>4. QED
  BY <1>1, <1>2, <1>3, SafeStep

LEMMA SafeQuietSteps ==
  ASSUME TypeInv, TypeInv', SafeInv, NEW p \in Procs, Busy(p),
         \/ ClaimFails(p) \/ CreateFails(p) \/ RemoveOriginalFails(p) \/ UncreateFails(p)
         \/ UnplaceFails(p) \/ CreateLinkFails(p) \/ MapFails(p) \/ SaveFails(p)
         \/ DropBackupFails(p) \/ OverwriteFails(p) \/ DeleteLinkFails(p)
         \/ DeleteTrackedFails(p) \/ RemoveLinkFails(p)
  PROVE  SafeInv'
<1> DEFINE j == job[p]
           mine == home[j.h]
           copy == repo[j.n]
           spare == backups[j.backup].text
           Still == \E at, i : /\ pc' = [pc EXCEPT ![p] = at] /\ Keep(p, i)
                               /\ i = j \/ i = [j EXCEPT !.sound = FALSE]
                               /\ at # "idle" => Place(i, at, mine, copy, spare)
<1>1. /\ IsJob(j) /\ j.cmd \in {"add", "link", "remove", "unlink"}
      /\ Place(j, pc[p], mine, copy, spare) /\ Refers(j, pc[p], Len(backups))
  BY AtWork
<1>2. UNCHANGED fileVars /\ Still => SafeInv'
  BY SafeStill
<1> HIDE DEF mine, copy, spare
<1>3. CASE \/ ClaimFails(p) \/ CreateFails(p) \/ UnplaceFails(p) \/ OverwriteFails(p)
           \/ DeleteLinkFails(p) \/ DeleteTrackedFails(p) \/ RemoveLinkFails(p)
  BY <1>2, <1>3 DEF ClaimFails, CreateFails, UnplaceFails, OverwriteFails, DeleteLinkFails,
       DeleteTrackedFails, RemoveLinkFails, End, Goto, SameJob
<1>4. CASE UncreateFails(p)
  BY <1>2, <1>4 DEF UncreateFails, Unsound, End, Goto
<1>5. CASE RemoveOriginalFails(p) \/ DropBackupFails(p)
  <2>1. Place(j, "uncreate", mine, copy, spare) /\ Keep(p, j) /\ UNCHANGED fileVars
    BY <1>1, <1>5 DEF RemoveOriginalFails, DropBackupFails, At, Place, AddPlace, SameJob
  <2>2. pc' = [pc EXCEPT ![p] = "uncreate"]
    BY <1>5 DEF RemoveOriginalFails, DropBackupFails, Goto
  <2>3. QED
    BY <1>2, <2>1, <2>2
<1>6. CASE CreateLinkFails(p)
  <2>1. pc' = [pc EXCEPT ![p] = IF j.backup = 0 THEN "idle" ELSE "clear"] /\ Keep(p, j)
        /\ UNCHANGED fileVars
    BY <1>6 DEF CreateLinkFails, Goto, SameJob
  <2>2. Place(j, "clear", mine, copy, spare)
    BY <1>1, <1>6 DEF CreateLinkFails, At, Place, AddPlace, LinkPlace
  <2>3. QED
    BY <1>2, <2>1, <2>2
<1>7. CASE MapFails(p)
  <2>1. /\ pc' = [pc EXCEPT ![p] = IF j.cmd = "add" THEN "unplant" ELSE "idle"]
        /\ Keep(p, j) /\ UNCHANGED fileVars /\ j.cmd \in {"add", "link"}
    <3>1. j.cmd \in {"add", "link"}
      BY <1>7 DEF MapFails, At
    <3>2. [add |-> "unplant", link |-> "idle"][j.cmd] = IF j.cmd = "add" THEN "unplant" ELSE "idle"
      BY <3>1
    <3>3. QED
      BY <1>7, <3>1, <3>2 DEF MapFails, Turn, Goto, SameJob
  <2>2. j.cmd = "add" => Place(j, "unplant", mine, copy, spare)
    BY <1>1, <1>7 DEF MapFails, At, Place, AddPlace
  <2>3. QED
    BY <1>2, <2>1, <2>2
<1>8. CASE SaveFails(p)
  <2> DEFINE at == [Saved EXCEPT !.add = "unplant"][j.cmd]
  <2>1. /\ pc' = [pc EXCEPT ![p] = at] /\ Keep(p, j) /\ UNCHANGED fileVars
    BY <1>8 DEF SaveFails, Turn, Goto
  <2>2. at = IF j.cmd = "add" THEN "unplant" ELSE "idle"
    BY <1>1 DEF Saved
  <2>3. j.cmd = "add" => Place(j, "unplant", mine, copy, spare)
    BY <1>1, <1>8 DEF SaveFails, Place, AddPlace
  <2> HIDE DEF at
  <2>4. QED
    BY <1>2, <2>1, <2>2, <2>3
<1>9. QED
  BY <1>3, <1>4, <1>5, <1>6, <1>7, <1>8

\* Steps that change the mapping, and that save it.
LEMMA SafeMappingSteps ==
  ASSUME TypeInv, TypeInv', SafeInv, NEW p \in Procs, Busy(p),
         Map(p) \/ Unmap(p) \/ Truncate(p) \/ Write(p) \/ Crash(p)
  PROVE  SafeInv'
<1> DEFINE j == job[p]
           mine == home[j.h]
           copy == repo[j.n]
           spare == backups[j.backup].text
<1>1. /\ IsJob(j) /\ j.cmd \in {"add", "link", "remove", "unlink"}
      /\ Place(j, pc[p], mine, copy, spare) /\ Refers(j, pc[p], Len(backups))
      /\ Held(j.cfg) /\ job = [q \in Procs |-> job[q]] /\ j.h \in Homes
  BY AtWork DEF TypeInv, ConfigInv, JobInv, Busy
<1>2. OnlyOwn(p) /\ kept' \subseteq Everywhere' /\ UNCHANGED <<home, repo, backups>>
  <2>1. UNCHANGED fileVars
    BY DEF Map, Unmap, Truncate, Write, Crash
  <2>2. QED
    BY <2>1, FilesKept DEF fileVars
<1> HIDE DEF mine, copy, spare
<1>3. CASE Map(p) \/ Unmap(p)
  <2>1. PICK new : /\ job' = [job EXCEPT ![p].cfg = new]
                   /\ Map(p) => new = WithMapping(j.cfg, j.n, j.h)
    BY <1>3 DEF Map, Unmap, At
  <2>2. PICK i : i = [j EXCEPT !.cfg = new]
    OBVIOUS
  <2>3. job' = [job EXCEPT ![p] = i] /\ pc' = [pc EXCEPT ![p] = "truncate"]
    BY <1>1, <1>3, <2>1, <2>2 DEF Map, Unmap, Goto
  <2>4. SameWork(j, i) /\ i.backup = j.backup /\ i.cfg = new /\ i.sound = j.sound
    <3>1. IsJob(j)
      BY <1>1
    <3>2. QED
      BY <2>2, <3>1, WorkGoesOn
  <2>5. Map(p) => new.maps[j.n] = j.h
    <3>1. j.cfg = [maps |-> j.cfg.maps, pull |-> j.cfg.pull, debounce |-> j.cfg.debounce]
          /\ j.cfg.maps \in [Names -> Homes \cup {Absent}]
      BY <1>1 DEF Held, Configs
    <3>2. Map(p) => j.n \in Names
      BY <1>1 DEF Map, At, Refers
    <3>3. QED
      BY <2>1, <3>1, <3>2 DEF WithMapping
  <2>6. Place(i, "truncate", mine, copy, spare)
    BY <1>1, <1>3, <2>4, <2>5 DEF Map, Unmap, At, Place, AddPlace, LinkPlace, SameWork
  <2>7. Place(i, "truncate", home'[i.h], repo'[i.n], backups'[i.backup].text)
    BY <1>2, <2>4, <2>6 DEF SameWork, mine, copy, spare
  <2>8. QED
    BY <1>2, <2>3, <2>4, <2>7, SafeStep
<1>4. CASE Truncate(p)
  <2>1. job' = [job EXCEPT ![p] = j] /\ pc' = [pc EXCEPT ![p] = "write"] /\ SameWork(j, j)
    BY <1>1, <1>4, WorkGoesOn DEF Truncate, Goto
  <2>2. Place(j, "write", mine, copy, spare)
    BY <1>1, <1>4 DEF Truncate, Place, AddPlace, LinkPlace
  <2>3. Place(j, "write", home'[j.h], repo'[j.n], backups'[j.backup].text)
    BY <1>2, <2>2 DEF mine, copy, spare
  <2>4. QED
    BY <1>2, <2>1, <2>3, SafeStep
<1>5. CASE Write(p)
  <2>1. pc' = [pc EXCEPT ![p] = "idle"]
    <3>1. Saved[j.cmd] = "idle"
      BY <1>1 DEF Saved
    <3>2. QED
      BY <1>5, <3>1 DEF Write, Turn, Goto
  <2>2. ~Busy(p)'
    BY <2>1 DEF Busy, TypeInv
  <2>3. Spares(p)
    <3>1. ASSUME NEW q \in Procs \ {p}
          PROVE  /\ pc'[q] = pc[q] /\ SameWork(job[q], job'[q])
                 /\ job'[q].backup = job[q].backup
                 /\ job'[q].cfg = job[q].cfg /\ job'[q].sound = job[q].sound
      <4>1. IsJob(job[q])
        BY DEF TypeInv, ConfigInv, JobInv
      <4>2. PICK i : i = [job[q] EXCEPT !.stale = TRUE]
        OBVIOUS
      <4>3. job'[q] \in {job[q], i} /\ pc'[q] = pc[q]
        BY <1>5, <2>1, <4>2 DEF Write, TypeInv
      <4>4. QED
        BY <4>1, <4>2, <4>3, WorkGoesOn
    <3>2. QED
      BY <3>1 DEF Spares
  <2>4. InPlace(p)'
    BY <2>2 DEF InPlace
  <2>5. QED
    BY <1>2, <2>2, <2>3, <2>4, SafeMoves
<1>6. CASE Crash(p)
  <2>1. pc' = [pc EXCEPT ![p] = "idle"] /\ Keep(p, j)
    BY <1>6 DEF Crash, End, Goto
  <2>2. QED
    BY <1>2, <2>1, SafeStep
<1>7. QED
  BY <1>3, <1>4, <1>5, <1>6

\* Steps that write one file.
LEMMA SafeHome ==
  ASSUME TypeInv, TypeInv', SafeInv, NEW p \in Procs, Busy(p), NEW at, NEW i, NEW to,
         pc' = [pc EXCEPT ![p] = at], Keep(p, i), SetHome(job[p].h, to),
         i = job[p] \/ i = [job[p] EXCEPT !.sound = FALSE],
         home[job[p].h] \in Texts => \E n \in Names : repo[n] = home[job[p].h],
         at # "idle" => LET j == job[p] IN
                          Place(i, at, to, repo[j.n], backups[j.backup].text)
  PROVE  SafeInv'
<1>1. SameWork(job[p], i) /\ i.backup = job[p].backup
  BY AtWork, WorkGoesOn
<1>2. /\ OnlyOwn(p) /\ kept' \subseteq Everywhere'
      /\ home'[job[p].h] = to /\ UNCHANGED <<repo, backups>>
  BY HomeKept
<1>3. at # "idle" => Place(i, at, home'[i.h], repo'[i.n], backups'[i.backup].text)
  BY <1>1, <1>2 DEF SameWork
<1>4. QED
  BY <1>1, <1>2, <1>3, SafeStep

LEMMA SafeRepo ==
  ASSUME TypeInv, TypeInv', SafeInv, NEW p \in Procs, Busy(p), NEW at, NEW to,
         pc' = [pc EXCEPT ![p] = at], Keep(p, job[p]), SetRepo(job[p].n, to),
         job[p].n \in Names,
         repo[job[p].n] \in Texts =>
           \/ \E h \in Homes : home[h] = repo[job[p].n]
           \/ \E b \in DOMAIN backups : backups[b].text = repo[job[p].n],
         at # "idle" => LET j == job[p] IN
                          Place(j, at, home[j.h], to, backups[j.backup].text)
  PROVE  SafeInv'
<1>1. SameWork(job[p], job[p])
  BY AtWork, WorkGoesOn
<1>2. /\ OnlyOwn(p) /\ kept' \subseteq Everywhere'
      /\ repo'[job[p].n] = to /\ UNCHANGED <<home, backups>>
  BY RepoKept
<1>3. at # "idle" => LET j == job[p] IN
                       Place(j, at, home'[j.h], repo'[j.n], backups'[j.backup].text)
  BY <1>1, <1>2
<1>4. QED
  BY <1>1, <1>2, <1>3, SafeStep

LEMMA SafeBackup ==
  ASSUME TypeInv, TypeInv', SafeInv, NEW p \in Procs, Busy(p), NEW at, NEW to,
         pc' = [pc EXCEPT ![p] = at], Keep(p, job[p]), SetBackup(job[p].backup, to),
         job[p].cmd \in {"add", "link"}, job[p].backup # 0,
         backups[job[p].backup].text \in Texts =>
           \E h \in Homes : home[h] = backups[job[p].backup].text,
         at # "idle" => LET j == job[p] IN Place(j, at, home[j.h], repo[j.n], to)
  PROVE  SafeInv'
<1>1. SameWork(job[p], job[p]) /\ job[p].backup \in DOMAIN backups
  BY AtWork, WorkGoesOn DEF Refers
<1>2. /\ OnlyOwn(p) /\ kept' \subseteq Everywhere'
      /\ backups'[job[p].backup].text = to /\ UNCHANGED <<home, repo>>
  BY <1>1, BackupKept
<1>3. at # "idle" => LET j == job[p] IN
                       Place(j, at, home'[j.h], repo'[j.n], backups'[j.backup].text)
  BY <1>1, <1>2
<1>4. QED
  BY <1>1, <1>2, <1>3, SafeStep

\* add and link: the backup.
LEMMA SafeBackupSteps ==
  ASSUME TypeInv, TypeInv', SafeInv, NEW p \in Procs, Busy(p),
         Claim(p) \/ Backup(p) \/ BackupFails(p) \/ DropBackup(p)
  PROVE  SafeInv'
<1> DEFINE j == job[p]
           mine == home[j.h]
           copy == repo[j.n]
           spare == backups[j.backup].text
<1>1. /\ IsJob(j) /\ j.cmd \in {"add", "link", "remove", "unlink"} /\ j.h \in Homes
      /\ Place(j, pc[p], mine, copy, spare) /\ Refers(j, pc[p], Len(backups))
      /\ mine \in Data \cup Names \cup {Absent}
      /\ Len(backups) \in Nat /\ DOMAIN backups = 1..Len(backups)
  BY AtWork
<1> HIDE DEF mine, copy, spare
<1>2. CASE Claim(p)
  <2>1. PICK i : i = [j EXCEPT !.backup = Len(backups) + 1]
    OBVIOUS
  <2>2. SameWork(j, i) /\ i.backup = Len(backups) + 1 /\ i.cfg = j.cfg /\ i.sound = j.sound
    <3>1. IsJob(j)
      BY <1>1
    <3>2. QED
      BY <2>1, <3>1, WorkGoesOn
  <2>3. pc' = [pc EXCEPT ![p] = "copy"] /\ job' = [job EXCEPT ![p] = i]
    BY <1>2, <2>1 DEF Claim, Goto
  <2>4. /\ backups' = Append(backups, [of |-> j.h, text |-> Empty])
        /\ UNCHANGED <<home, repo, kept>>
    BY <1>2 DEF Claim
  <2>5. /\ DOMAIN backups \subseteq DOMAIN backups'
        /\ \A b \in DOMAIN backups : backups'[b] = backups[b]
        /\ backups'[Len(backups) + 1].text = Empty
    BY <1>1, <2>4 DEF TypeInv, FilesInv
  <2>6. OnlyOwn(p)
    BY <2>4, <2>5 DEF OnlyOwn
  <2>7. kept' \subseteq Everywhere'
    BY <2>4, <2>5 DEF SafeInv, Everywhere
  <2>8. Place(i, "copy", mine, copy, Empty)
    BY <1>1, <1>2, <2>2 DEF Claim, At, Place, AddPlace, LinkPlace, SameWork
  <2>9. Place(i, "copy", home'[i.h], repo'[i.n], backups'[i.backup].text)
    BY <2>2, <2>4, <2>5, <2>8 DEF SameWork, mine, copy
  <2>10. QED
    BY <2>2, <2>3, <2>6, <2>7, <2>9, SafeStep
<1>3. CASE Backup(p)
  <2> DEFINE at == IF j.cmd = "add" THEN "create" ELSE "unplace"
             to == Text(j.h)
  <2>1. /\ pc[p] = "copy" /\ j.cmd \in {"add", "link"} /\ Keep(p, j) /\ SetBackup(j.backup, to)
    BY <1>3 DEF Backup, At, SameJob
  <2>2. [add |-> "create", link |-> "unplace"][j.cmd] = at
    BY <2>1
  <2>3. pc' = [pc EXCEPT ![p] = at]
    BY <1>3, <2>2 DEF Backup, Turn, Goto
  <2>4. spare \notin Texts /\ j.backup # 0
    BY <1>1, <2>1, TextsApart DEF Place, Refers
  <2>5. mine \in Data => to = mine
    BY TextsApart DEF Text, IsLink, mine
  <2>6. Place(j, at, mine, copy, to)
    <3>1. CASE j.cmd = "add"
      BY <1>1, <2>1, <2>5, <3>1 DEF Place, AddPlace
    <3>2. CASE j.cmd = "link"
      BY <2>4, <2>5, <3>2 DEF Place, LinkPlace
    <3>3. QED
      BY <2>1, <3>1, <3>2
  <2> HIDE DEF at, to
  <2>7. QED
    BY <2>1, <2>3, <2>4, <2>6, SafeBackup DEF mine, copy, spare
<1>4. CASE BackupFails(p)
  <2>1. /\ pc[p] = "copy" /\ j.cmd \in {"add", "link"} /\ Keep(p, j)
        /\ SetBackup(j.backup, Absent) /\ pc' = [pc EXCEPT ![p] = "idle"]
    BY <1>4 DEF BackupFails, At, SameJob, End, Goto
  <2>2. spare \notin Texts /\ j.backup # 0
    BY <1>1, <2>1, TextsApart DEF Place, Refers
  <2>3. QED
    BY <2>1, <2>2, SafeBackup DEF spare
<1>5. CASE DropBackup(p)
  <2>1. /\ pc[p] = "dropbackup" /\ j.cmd = "add" /\ Keep(p, j)
        /\ SetBackup(j.backup, Absent) /\ pc' = [pc EXCEPT ![p] = "uncreate"]
    BY <1>5 DEF DropBackup, At, SameJob, Goto
  <2>2. spare = mine /\ j.backup # 0
    BY <1>1, <2>1 DEF Place, AddPlace, Refers
  <2>3. Place(j, "uncreate", mine, copy, Absent)
    BY <1>1, <2>1 DEF Place, AddPlace
  <2>4. QED
    BY <1>1, <2>1, <2>2, <2>3, SafeBackup DEF mine, copy, spare
<1>6. QED
  BY <1>2, <1>3, <1>4, <1>5

\* add and remove: the copy in the repository.
LEMMA SafeRepoSteps ==
  ASSUME TypeInv, TypeInv', SafeInv, NEW p \in Procs, Busy(p),
         Create(p) \/ Uncreate(p) \/ DeleteTracked(p)
  PROVE  SafeInv'
<1> DEFINE j == job[p]
           mine == home[j.h]
           copy == repo[j.n]
           spare == backups[j.backup].text
<1>1. /\ IsJob(j) /\ j.cmd \in {"add", "link", "remove", "unlink"} /\ j.h \in Homes
      /\ Place(j, pc[p], mine, copy, spare) /\ Refers(j, pc[p], Len(backups))
      /\ mine \in Data \cup Names \cup {Absent}
      /\ Len(backups) \in Nat /\ DOMAIN backups = 1..Len(backups)
  BY AtWork
<1> HIDE DEF mine, copy, spare
<1>2. CASE Create(p)
  <2>1. /\ pc[p] = "create" /\ j.cmd = "add" /\ Keep(p, j) /\ SetRepo(j.n, Text(j.h))
        /\ pc' = [pc EXCEPT ![p] = "remove"] /\ copy = Absent
    BY <1>2 DEF Create, Creatable, At, SameJob, Goto, copy
  <2>2. Text(j.h) = mine /\ mine = j.was /\ j.n \in Names
    BY <1>1, <2>1, TextsApart DEF Place, AddPlace, Refers, Text, IsLink, mine
  <2>3. Place(j, "remove", mine, mine, spare)
    BY <1>1, <2>1, <2>2 DEF Place, AddPlace
  <2>4. QED
    BY <2>1, <2>2, <2>3, TextsApart, SafeRepo DEF mine, copy, spare
<1>3. CASE Uncreate(p)
  <2>1. /\ pc[p] = "uncreate" /\ j.cmd = "add" /\ Keep(p, j) /\ SetRepo(j.n, Absent)
        /\ pc' = [pc EXCEPT ![p] = "idle"]
    BY <1>3 DEF Uncreate, At, SameJob, End, Goto
  <2>2. j.n \in Names /\ j.backup \in DOMAIN backups /\ (copy = mine \/ copy = spare)
    BY <1>1, <2>1 DEF Place, AddPlace, Refers
  <2>3. QED
    BY <1>1, <2>1, <2>2, SafeRepo DEF mine, copy, spare
<1>4. CASE DeleteTracked(p)
  <2>1. /\ pc[p] = "deltracked" /\ j.cmd = "remove" /\ Keep(p, j)
        /\ pc' = [pc EXCEPT ![p] = "unmap"]
        /\ repo' = [repo EXCEPT ![j.n] = Absent] /\ kept' = kept \ {copy}
        /\ UNCHANGED <<home, backups>>
    BY <1>4 DEF DeleteTracked, At, SameJob, Goto, copy
  <2>2. \A n \in Names : n # j.n => repo'[n] = repo[n]
    BY <2>1 DEF TypeInv, FilesInv
  <2>3. OnlyOwn(p)
    BY <2>1, <2>2 DEF OnlyOwn
  <2>4. kept' \subseteq Everywhere'
    BY <2>1, <2>2 DEF SafeInv, Everywhere, copy
  <2>5. \A x, y, z : Place(j, "unmap", x, y, z)
    BY <2>1 DEF Place
  <2>6. SameWork(j, j)
    BY <1>1, WorkGoesOn
  <2>7. QED
    BY <2>1, <2>3, <2>4, <2>5, <2>6, SafeStep
<1>5. QED
  BY <1>2, <1>3, <1>4

\* What is written at a home file that is no link is written into that file.
LEMMA WritesHome ==
  ASSUME TypeInv, SafeInv, NEW p \in Procs, Busy(p), NEW to, WriteAt(job[p].h, to),
         home[job[p].h] \notin Names
  PROVE  SetHome(job[p].h, to)
BY DEF WriteAt, IsLink

\* The home file is removed, or becomes a link.
LEMMA SafeHomeSteps ==
  ASSUME TypeInv, TypeInv', SafeInv, NEW p \in Procs, Busy(p),
         \/ RemoveOriginal(p) \/ CreateLink(p) \/ Clear(p) \/ Unplant(p) \/ DeleteLink(p)
         \/ Unplace(p) \/ RemoveLink(p)
  PROVE  SafeInv'
<1> DEFINE j == job[p]
           mine == home[j.h]
           copy == repo[j.n]
           spare == backups[j.backup].text
<1>1. /\ IsJob(j) /\ j.cmd \in {"add", "link", "remove", "unlink"} /\ j.h \in Homes
      /\ Place(j, pc[p], mine, copy, spare) /\ Refers(j, pc[p], Len(backups))
      /\ mine \in Data \cup Names \cup {Absent}
      /\ Len(backups) \in Nat /\ DOMAIN backups = 1..Len(backups)
  BY AtWork
<1> HIDE DEF mine, copy, spare
<1>2. CASE RemoveOriginal(p)
  <2>1. /\ pc[p] = "remove" /\ j.cmd = "add" /\ Keep(p, j) /\ SetHome(j.h, Absent)
        /\ pc' = [pc EXCEPT ![p] = "link"]
    BY <1>2 DEF RemoveOriginal, At, SameJob, Goto
  <2>2. copy = mine /\ j.n \in Names
    BY <1>1, <2>1 DEF Place, AddPlace, Refers
  <2>3. Place(j, "link", Absent, copy, spare)
    BY <1>1, <2>1 DEF Place, AddPlace
  <2>4. QED
    BY <2>1, <2>2, <2>3, SafeHome DEF mine, copy, spare
<1>3. CASE CreateLink(p)
  <2>1. /\ pc[p] = "link" /\ j.cmd \in {"add", "link"} /\ Keep(p, j) /\ SetHome(j.h, j.n)
        /\ pc' = [pc EXCEPT ![p] = "map"] /\ mine = Absent
    BY <1>3 DEF CreateLink, Linkable, At, SameJob, Goto, mine
  <2>2. Place(j, "map", j.n, copy, spare)
    BY <1>1, <2>1 DEF Place, AddPlace, LinkPlace
  <2>3. QED
    BY <2>1, <2>2, TextsApart, SafeHome DEF mine, copy, spare
<1>4. CASE Clear(p)
  <2>1. /\ pc[p] = "clear" /\ j.cmd \in {"add", "link", "unlink"} /\ Keep(p, j)
        /\ SetHome(j.h, Absent) /\ pc' = [pc EXCEPT ![p] = "restore"]
    BY <1>4 DEF Clear, At, SameJob, Goto
  <2>2. mine = Absent
    BY <1>1, <2>1 DEF Place, AddPlace, LinkPlace
  <2>3. Place(j, "restore", Absent, copy, spare)
    BY <1>1, <2>1 DEF Place, AddPlace, LinkPlace
  <2>4. QED
    BY <2>1, <2>2, <2>3, TextsApart, SafeHome DEF mine, copy, spare
<1>5. CASE Unplant(p)
  <2>1. /\ pc[p] = "unplant" /\ j.cmd = "add" /\ Keep(p, j)
        /\ SetHome(j.h, Absent) /\ pc' = [pc EXCEPT ![p] = "copyback"]
    BY <1>5 DEF Unplant, At, SameJob, Goto
  <2>2. mine \in Names
    BY <1>1, <2>1 DEF Place, AddPlace, Refers
  <2>3. Place(j, "copyback", Absent, copy, spare)
    BY <1>1, <2>1 DEF Place, AddPlace
  <2>4. QED
    BY <2>1, <2>2, <2>3, TextsApart, SafeHome DEF mine, copy, spare
<1>6. CASE DeleteLink(p)
  <2>1. /\ pc[p] = "dellink" /\ j.cmd = "remove" /\ Keep(p, j) /\ SetHome(j.h, Absent)
        /\ pc' = [pc EXCEPT ![p] = IF j.option THEN "deltracked" ELSE "unmap"]
    BY <1>6 DEF DeleteLink, At, SameJob, Goto
  <2>2. mine \in Names
    BY <1>1, <2>1 DEF Place
  <2>3. \A at \in {"deltracked", "unmap"} : Place(j, at, Absent, copy, spare)
    BY <2>1 DEF Place
  <2>4. QED
    BY <2>1, <2>2, <2>3, TextsApart, SafeHome DEF mine, copy, spare
<1>7. CASE Unplace(p)
  <2>1. /\ pc[p] = "unplace" /\ j.cmd = "link" /\ Keep(p, j)
        /\ pc' = [pc EXCEPT ![p] = "link"]
        /\ home' = [home EXCEPT ![j.h] = Absent]
        /\ kept' = (IF j.option THEN kept \ {mine} ELSE kept) /\ UNCHANGED <<repo, backups>>
    BY <1>7 DEF Unplace, At, SameJob, Goto, mine
  <2>2. home'[j.h] = Absent /\ \A h \in Homes : h # j.h => home'[h] = home[h]
    BY <1>1, <2>1 DEF TypeInv, FilesInv
  <2>3. OnlyOwn(p)
    BY <2>1, <2>2 DEF OnlyOwn
  <2>4. mine \in kept' => spare = mine /\ j.backup \in DOMAIN backups
    <3>1. mine \in kept' => mine \in Texts /\ ~j.option
      BY <2>1 DEF TypeInv, CountInv
    <3>2. mine \in kept' => mine \in Data
      BY <3>1, TextsApart
    <3>3. QED
      BY <1>1, <2>1, <3>1, <3>2 DEF Place, LinkPlace, Refers
  <2>5. kept' \subseteq Everywhere'
    <3>1. /\ \A n \in Names : repo[n] \in Everywhere'
          /\ \A b \in DOMAIN backups : backups[b].text \in Everywhere'
          /\ \A h \in Homes : h # j.h => home[h] \in Everywhere'
      BY <2>1, <2>2 DEF Everywhere
    <3>2. mine \in kept' => mine \in Everywhere'
      BY <2>4, <3>1 DEF spare
    <3>3. kept' \subseteq kept
      BY <2>1
    <3>4. \A h \in Homes : home[h] \in kept' => home[h] \in Everywhere'
      BY <3>1, <3>2 DEF mine
    <3>5. QED
      BY <3>1, <3>3, <3>4, StillThere DEF SafeInv
  <2>6. Place(j, "link", Absent, copy, spare)
    BY <1>1, <2>1 DEF Place, LinkPlace
  <2>7. Place(j, "link", home'[j.h], repo'[j.n], backups'[j.backup].text)
    BY <2>1, <2>2, <2>6 DEF copy, spare
  <2>8. SameWork(j, j)
    BY <1>1, WorkGoesOn
  <2>9. QED
    BY <2>1, <2>3, <2>5, <2>7, <2>8, SafeStep
<1>8. CASE RemoveLink(p)
  <2> DEFINE found == j.option /\ Matching(j.h) # {}
             at == IF found THEN "clear" ELSE IF j.n = Absent THEN "idle" ELSE "unmap"
  <2>1. /\ pc[p] = "unlink" /\ j.cmd = "unlink" /\ mine \in Names /\ SetHome(j.h, Absent)
        /\ pc' = [pc EXCEPT ![p] = at]
    BY <1>8 DEF RemoveLink, At, Goto, IsLink, mine
  <2>2. PICK i : /\ Keep(p, i)
                 /\ i = j \/ i = [j EXCEPT !.backup = Max(Matching(j.h))]
    BY <1>8 DEF RemoveLink
  <2>3. SameWork(j, i)
    BY <1>1, <2>2, WorkGoesOn
  <2>4. /\ OnlyOwn(p) /\ kept' \subseteq Everywhere' /\ home'[j.h] = Absent
    BY <2>1, TextsApart, HomeKept DEF mine
  <2>5. \A y, z : Place(i, at, Absent, y, z)
    BY <2>1, <2>3 DEF Place, SameWork
  <2>6. Place(i, at, home'[i.h], repo'[i.n], backups'[i.backup].text)
    BY <2>3, <2>4, <2>5 DEF SameWork
  <2> HIDE DEF at
  <2>7. QED
    BY <2>1, <2>2, <2>3, <2>4, <2>6, SafeStep
<1>9. QED
  BY <1>2, <1>3, <1>4, <1>5, <1>6, <1>7, <1>8

\* The home file is written from the backup or from the repository.
LEMMA SafeWriteSteps ==
  ASSUME TypeInv, TypeInv', SafeInv, NEW p \in Procs, Busy(p),
         \/ Restore(p) \/ RestoreFails(p) \/ CopyBack(p) \/ CopyBackFails(p)
         \/ CopyRepo(p) \/ CopyRepoFails(p)
  PROVE  SafeInv'
<1> DEFINE j == job[p]
           mine == home[j.h]
           copy == repo[j.n]
           spare == backups[j.backup].text
           unsound == [j EXCEPT !.sound = FALSE]
<1>1. /\ IsJob(j) /\ j.cmd \in {"add", "link", "remove", "unlink"} /\ j.h \in Homes
      /\ Place(j, pc[p], mine, copy, spare) /\ Refers(j, pc[p], Len(backups))
      /\ mine \in Data \cup Names \cup {Absent}
      /\ Len(backups) \in Nat /\ DOMAIN backups = 1..Len(backups)
  BY AtWork
<1>2. SameWork(j, unsound) /\ unsound.backup = j.backup /\ unsound.cfg = j.cfg /\ ~unsound.sound
  BY <1>1, WorkGoesOn
<1> HIDE DEF mine, copy, spare, unsound
<1>3. CASE Restore(p)
  <2>1. /\ pc[p] = "restore" /\ j.cmd \in {"add", "link", "unlink"} /\ Keep(p, j)
        /\ WriteAt(j.h, spare)
    BY <1>3 DEF Restore, At, SameJob, spare
  <2>2. mine = Absent
    BY <1>1, <2>1 DEF Place, AddPlace, LinkPlace
  <2>3. SetHome(j.h, spare)
    BY <2>1, <2>2, TextsApart, WritesHome DEF mine
  <2> DEFINE at == IF j.cmd = "add" THEN "uncreate"
                   ELSE IF j.cmd = "link" \/ j.n = Absent THEN "idle" ELSE "unmap"
  <2>4. pc' = [pc EXCEPT ![p] = at]
    <3>1. [add |-> "uncreate", link |-> "idle",
           unlink |-> IF j.n = Absent THEN "idle" ELSE "unmap"][j.cmd] = at
      BY <2>1
    <3>2. QED
      BY <1>3, <3>1 DEF Restore, Turn, Goto
  <2>5. at # "idle" => Place(j, at, spare, copy, spare)
    <3>1. CASE j.cmd = "add"
      BY <1>1, <2>1, <2>4, <3>1 DEF Place, AddPlace
    <3>2. CASE j.cmd # "add"
      BY <2>1, <3>2 DEF Place, LinkPlace
    <3>3. QED
      BY <3>1, <3>2
  <2> HIDE DEF at
  <2>6. QED
    BY <2>1, <2>2, <2>3, <2>4, <2>5, TextsApart, SafeHome DEF mine, copy, spare
<1>4. CASE RestoreFails(p)
  <2>1. /\ pc[p] \in {"clear", "restore"} /\ Keep(p, unsound)
        /\ UNCHANGED fileVars \/ WriteAt(j.h, Empty)
    BY <1>4 DEF RestoreFails, Unsound, unsound
  <2>2. j.cmd \in {"add", "link", "unlink"}
    BY <2>1 DEF TypeInv, ConfigInv, JobInv
  <2>3. mine = Absent
    BY <1>1, <2>1, <2>2 DEF Place, AddPlace, LinkPlace
  <2>4. UNCHANGED fileVars \/ SetHome(j.h, Empty)
    BY <2>1, <2>3, TextsApart, WritesHome DEF mine
  <2> DEFINE at == IF j.cmd = "add" THEN "uncreate" ELSE "idle"
  <2>5. pc' = [pc EXCEPT ![p] = at]
    <3>1. [add |-> "uncreate", link |-> "idle", unlink |-> "idle"][j.cmd] = at
      BY <2>2
    <3>2. QED
      BY <1>4, <3>1 DEF RestoreFails, Turn, Goto
  <2>6. at # "idle" => \A x : Place(unsound, at, x, copy, spare)
    BY <1>1, <1>2, <2>1 DEF Place, AddPlace, SameWork
  <2> HIDE DEF at
  <2>7. CASE UNCHANGED fileVars
    BY <2>1, <2>5, <2>6, <2>7, SafeStill DEF mine, copy, spare, unsound
  <2>8. CASE SetHome(j.h, Empty)
    BY <2>1, <2>3, <2>5, <2>6, <2>8, TextsApart, SafeHome DEF mine, copy, spare, unsound
  <2>9. QED
    BY <2>4, <2>7, <2>8
<1>5. CASE CopyBack(p)
  <2>1. /\ pc[p] = "copyback" /\ j.cmd = "add" /\ Keep(p, j) /\ WriteAt(j.h, spare)
        /\ pc' = [pc EXCEPT ![p] = "dropbackup"]
    BY <1>5 DEF CopyBack, At, SameJob, Goto, spare
  <2>2. mine = Absent
    BY <1>1, <2>1 DEF Place, AddPlace
  <2>3. SetHome(j.h, spare)
    BY <2>1, <2>2, TextsApart, WritesHome DEF mine
  <2>4. Place(j, "dropbackup", spare, copy, spare)
    BY <1>1, <2>1 DEF Place, AddPlace
  <2>5. QED
    BY <2>1, <2>2, <2>3, <2>4, TextsApart, SafeHome DEF mine, copy, spare
<1>6. CASE CopyBackFails(p)
  <2>1. /\ pc[p] = "copyback" /\ j.cmd = "add" /\ Keep(p, unsound)
        /\ UNCHANGED fileVars \/ WriteAt(j.h, Empty)
        /\ pc' = [pc EXCEPT ![p] = "copyrepo"]
    BY <1>6 DEF CopyBackFails, At, Unsound, Goto, unsound
  <2>2. mine = Absent
    BY <1>1, <2>1 DEF Place, AddPlace
  <2>3. UNCHANGED fileVars \/ SetHome(j.h, Empty)
    BY <2>1, <2>2, TextsApart, WritesHome DEF mine
  <2>4. \A x \in {Absent, Empty} : Place(unsound, "copyrepo", x, copy, spare)
    BY <1>1, <1>2, <2>1 DEF Place, AddPlace, SameWork
  <2>5. CASE UNCHANGED fileVars
    BY <2>1, <2>2, <2>4, <2>5, SafeStill DEF mine, copy, spare, unsound
  <2>6. CASE SetHome(j.h, Empty)
    BY <2>1, <2>2, <2>4, <2>6, TextsApart, SafeHome DEF mine, copy, spare, unsound
  <2>7. QED
    BY <2>3, <2>5, <2>6
<1>7. CASE CopyRepo(p)
  <2>1. /\ pc[p] = "copyrepo" /\ j.cmd = "add" /\ Keep(p, j) /\ CopyInto(j.n, j.h)
        /\ pc' = [pc EXCEPT ![p] = "uncreate"]
    BY <1>7 DEF CopyRepo, At, SameJob, Goto
  <2>2. mine \in {Absent, Empty} /\ j.n \in Names
    BY <1>1, <2>1 DEF Place, AddPlace, Refers
  <2>3. mine \notin Names /\ mine # j.n /\ mine \notin Texts
    BY <2>2, TextsApart DEF Data
  <2>4. SetHome(j.h, copy)
    BY <2>1, <2>3, WritesHome DEF CopyInto, mine, copy
  <2>5. Place(j, "uncreate", copy, copy, spare)
    BY <1>1, <2>1 DEF Place, AddPlace
  <2>6. QED
    BY <2>1, <2>3, <2>4, <2>5, SafeHome DEF mine, copy, spare
<1>8. CASE CopyRepoFails(p)
  <2>1. /\ pc[p] = "copyrepo" /\ j.cmd = "add" /\ Keep(p, j)
        /\ UNCHANGED fileVars \/ WriteAt(j.h, Empty)
        /\ pc' = [pc EXCEPT ![p] = "idle"]
    BY <1>8 DEF CopyRepoFails, At, SameJob, End, Goto
  <2>2. mine \in {Absent, Empty}
    BY <1>1, <2>1 DEF Place, AddPlace
  <2>3. mine \notin Names /\ mine \notin Texts
    BY <2>2, TextsApart DEF Data
  <2>4. UNCHANGED fileVars \/ SetHome(j.h, Empty)
    BY <2>1, <2>3, WritesHome DEF mine
  <2>5. CASE UNCHANGED fileVars
    BY <2>1, <2>5, SafeStill
  <2>6. CASE SetHome(j.h, Empty)
    BY <2>1, <2>3, <2>6, SafeHome DEF mine
  <2>7. QED
    BY <2>4, <2>5, <2>6
<1>9. QED
  BY <1>3, <1>4, <1>5, <1>6, <1>7, <1>8

\* config set touches no file.
LEMMA SafeSetSteps ==
  ASSUME TypeInv, TypeInv', SafeInv, NEW p \in Procs, ~Busy(p),
         Steps(p) \/ Failures(p) \/ Crash(p)
  PROVE  SafeInv'
<1>1. pc[p] # "idle"
  BY DEF Steps, Failures, Crash, At, Claim, Backup, Create, RemoveOriginal, Uncreate, Unplace,
     CreateLink, Clear, Restore, Map, Unmap, Truncate, Write, Unplant, CopyBack, DropBackup,
     CopyRepo, Overwrite, DeleteLink, DeleteTracked, RemoveLink, Lock, Reload, Unlock,
     ClaimFails, BackupFails, CreateFails, RemoveOriginalFails, UncreateFails, UnplaceFails,
     CreateLinkFails, RestoreFails, MapFails, SaveFails, UnplantFails, CopyBackFails,
     DropBackupFails, CopyRepoFails, OverwriteFails, DeleteLinkFails, DeleteTrackedFails,
     RemoveLinkFails, LockFails, ReloadFails
<1>2. job[p].cmd = "set" /\ pc[p] \notin {"clear", "restore"}
  BY <1>1 DEF Busy, TypeInv, ConfigInv, JobInv
<1>3. \/ Truncate(p) \/ Write(p) \/ SaveFails(p) \/ Lock(p) \/ LockFails(p) \/ Reload(p)
      \/ ReloadFails(p) \/ Unlock(p) \/ Crash(p)
  BY <1>2 DEF Steps, Failures, At, Claim, Backup, Create, RemoveOriginal, Uncreate, Unplace,
     CreateLink, Clear, Restore, Map, Unmap, Unplant, CopyBack, DropBackup,
     CopyRepo, Overwrite, DeleteLink, DeleteTracked, RemoveLink,
     ClaimFails, BackupFails, CreateFails, RemoveOriginalFails, UncreateFails, UnplaceFails,
     CreateLinkFails, RestoreFails, MapFails, UnplantFails, CopyBackFails,
     DropBackupFails, CopyRepoFails, OverwriteFails, DeleteLinkFails, DeleteTrackedFails,
     RemoveLinkFails
<1>4. UNCHANGED fileVars
  BY <1>3 DEF Truncate, Write, SaveFails, Lock, LockFails, Reload, ReloadFails, Unlock, Crash
<1>5. IsJob(job[p]) /\ job = [q \in Procs |-> job[q]] /\ pc \in [Procs -> Pcs]
  BY DEF TypeInv, ConfigInv, JobInv
<1>6. Spares(p)
  <2>1. CASE Write(p)
    <3>1. ASSUME NEW q \in Procs \ {p}
          PROVE  /\ pc'[q] = pc[q] /\ SameWork(job[q], job'[q])
                 /\ job'[q].backup = job[q].backup
                 /\ job'[q].cfg = job[q].cfg /\ job'[q].sound = job[q].sound
      <4>1. IsJob(job[q])
        BY DEF TypeInv, ConfigInv, JobInv
      <4>2. job'[q] = job[q] /\ pc'[q] = pc[q]
        BY <1>2, <1>5, <2>1 DEF Write, Turn, Goto
      <4>3. QED
        BY <4>1, <4>2, WorkGoesOn
    <3>2. QED
      BY <3>1 DEF Spares
  <2>2. CASE Quiet(p)
    BY <2>2, AsideSpares DEF Quiet
  <2>3. CASE Truncate(p)
    BY <1>5, <2>3, AsideSpares DEF Truncate, Goto, Aside
  <2>4. CASE Reload(p)
    BY <1>5, <2>4, AsideSpares DEF Reload, Goto, Aside
  <2>5. QED
    BY <2>1, <2>2, <2>3, <2>4, QuietSteps
<1>7. ~Busy(p)'
  <2>1. CASE Truncate(p) \/ Lock(p)
    BY <1>2, <2>1 DEF Truncate, Lock, Busy
  <2>2. CASE Write(p)
    BY <1>2, <1>5, <2>2 DEF Write, Busy
  <2>3. CASE Reload(p)
    <3>1. PICK new : job' = [job EXCEPT ![p].cfg = new, ![p].stale = FALSE]
      BY <2>3 DEF Reload
    <3>2. PICK i : i = [job[p] EXCEPT !.cfg = new, !.stale = FALSE]
      OBVIOUS
    <3>3. job'[p] = i
      BY <1>5, <3>1, <3>2
    <3>4. i.cmd = "set"
      BY <1>2, <1>5, <3>2 DEF IsJob
    <3>5. QED
      BY <3>3, <3>4 DEF Busy
  <2>4. CASE SaveFails(p) \/ LockFails(p) \/ ReloadFails(p) \/ Unlock(p) \/ Crash(p)
    <3>1. Keep(p, job[p])
      BY <2>4 DEF SaveFails, LockFails, ReloadFails, Unlock, Crash, SameJob
    <3>2. job'[p] \in {NoJob, job[p]}
      BY <1>5, <3>1 DEF Keep
    <3>3. QED
      BY <1>2, <3>2 DEF Busy, NoJob
  <2>5. QED
    BY <1>3, <2>1, <2>2, <2>3, <2>4
<1>8. QED
  BY <1>4, <1>6, <1>7, SafeElsewhere

\* A command begins to work upon a file upon which no other is at work.
LEMMA SafeBegin ==
  ASSUME TypeInv, TypeInv', SafeInv, odd' = {}, NEW p \in Procs, NEW j, NEW first,
         Begin(p, j, first), IsJob(j), j.cmd # "set", j.backup = 0, first # "truncate",
         first # "write",
         \A spare : Place(j, first, home[j.h], repo[j.n], spare)
  PROVE  SafeInv'
<1>1. PICK i : i = [j EXCEPT !.cfg = disk]
  OBVIOUS
<1>2. SameWork(j, i) /\ i.backup = 0 /\ i.sound = j.sound
  BY <1>1, WorkGoesOn
<1>3. /\ pc' = [pc EXCEPT ![p] = first] /\ job' = [job EXCEPT ![p] = i] /\ UNCHANGED fileVars
      /\ ~Active(j.h, j.n)
  BY <1>1 DEF Begin, Goto
<1>4. /\ pc'[p] = first /\ job'[p] = i /\ UNCHANGED <<home, repo, backups>>
      /\ \A q \in Procs \ {p} : pc'[q] = pc[q] /\ job'[q] = job[q]
  BY <1>3 DEF TypeInv, ConfigInv, fileVars
<1>5. ASSUME NEW q \in Procs PROVE InPlace(q)'
  <2>1. CASE q = p
    <3>1. Place(i, first, home[i.h], repo[i.n], backups[i.backup].text)
      BY <1>2 DEF Place, AddPlace, LinkPlace, SameWork
    <3>2. QED
      BY <1>4, <2>1, <3>1 DEF InPlace
  <2>2. CASE q # p
    <3>1. InPlace(q)
      BY DEF SafeInv
    <3>2. QED
      BY <1>4, <2>2, <3>1 DEF InPlace, Busy
  <2>3. QED
    BY <2>1, <2>2
<1>6. ASSUME NEW q \in Procs \ {p}, Busy(q)
      PROVE  Apart(i, job[q]) /\ Apart(job[q], i)
  <2>1. job[q].h # j.h /\ (j.n \in Names => job[q].n # j.n)
    BY <1>3, <1>6 DEF Active, Busy
  <2>2. QED
    BY <1>2, <2>1 DEF Apart, SameWork
<1>7. ASSUME NEW q \in Procs, NEW r \in Procs, q # r, Busy(q)', Busy(r)'
      PROVE  Apart(job'[q], job'[r])
  <2>1. \A s \in {q, r} : s # p => Busy(s)
    BY <1>4, <1>7 DEF Busy
  <2>2. q # p /\ r # p => Apart(job[q], job[r])
    BY <1>7, <2>1 DEF SafeInv
  <2>3. QED
    BY <1>4, <1>6, <1>7, <2>1, <2>2
<1>8. kept' \subseteq Everywhere'
  BY <1>3 DEF SafeInv, Everywhere, fileVars
<1>9. QED
  BY <1>5, <1>7, <1>8 DEF SafeInv

LEMMA SafeBegins ==
  ASSUME TypeInv, TypeInv', SafeInv, odd' = {}, NEW p \in Procs, Begins(p)
  PROVE  SafeInv'
<1>1. ASSUME NEW cmd \in Commands, NEW h \in Homes, NEW n, NEW flag, NEW j,
             j = Job(cmd, h, n, flag)
      PROVE  /\ IsJob(j) /\ j.cmd = cmd /\ j.h = h /\ j.n = n /\ j.backup = 0
             /\ j.option = flag /\ j.was = home[h]
  BY <1>1 DEF Job, NoJob, IsJob, Settings
<1>2. ASSUME NEW h \in Homes, RunAdd(p, h) PROVE SafeInv'
  <2>1. PICK j : j = Job("add", h, NameOf[h], FALSE)
    OBVIOUS
  <2>2. /\ IsJob(j) /\ j.cmd = "add" /\ j.h = h /\ j.backup = 0 /\ j.was = home[h]
    BY <2>1 DEF Job, NoJob, IsJob, Settings, Commands
  <2>3. Begin(p, j, "claim") /\ home[h] \in Data
    BY <1>2, <2>1 DEF RunAdd, IsFile
  <2>4. \A spare : Place(j, "claim", home[j.h], repo[j.n], spare)
    BY <2>2, <2>3 DEF Place, AddPlace
  <2>5. QED
    BY <2>2, <2>3, <2>4, SafeBegin
<1>3. ASSUME NEW h \in Homes, NEW flag \in BOOLEAN, RunRemove(p, h, flag) PROVE SafeInv'
  <2>1. PICK j : j = Job("remove", h, Tracked(h), flag)
    OBVIOUS
  <2>2. IsJob(j) /\ j.cmd = "remove" /\ j.h = h /\ j.backup = 0
    BY <1>1, <2>1 DEF Commands
  <2>3. PICK first \in {"dellink", "overwrite"} : Begin(p, j, first)
    BY <1>3, <2>1 DEF RunRemove
  <2>4. \A spare : Place(j, first, home[j.h], repo[j.n], spare)
    BY <1>3, <2>2, <2>3 DEF Place, RunRemove, IsLink
  <2>5. QED
    BY <2>2, <2>3, <2>4, SafeBegin
<1>4. ASSUME NEW h \in Homes, NEW flag \in BOOLEAN, RunUnlink(p, h, flag) PROVE SafeInv'
  <2>1. PICK j : j = Job("unlink", h, MappedFrom(disk, h), flag)
    OBVIOUS
  <2>2. IsJob(j) /\ j.cmd = "unlink" /\ j.h = h /\ j.backup = 0
    BY <1>1, <2>1 DEF Commands
  <2>3. Begin(p, j, "unlink")
    BY <1>4, <2>1 DEF RunUnlink
  <2>4. \A spare : Place(j, "unlink", home[j.h], repo[j.n], spare)
    BY <2>2 DEF Place
  <2>5. QED
    BY <2>2, <2>3, <2>4, SafeBegin
<1>5. ASSUME NEW h \in Homes, NEW n \in Names, NEW flag \in BOOLEAN, RunLink(p, n, h, flag)
      PROVE  SafeInv'
  <2>1. PICK j : j = Job("link", h, n, flag)
    OBVIOUS
  <2>2. IsJob(j) /\ j.cmd = "link" /\ j.h = h /\ j.backup = 0 /\ j.option = flag
    BY <1>1, <2>1 DEF Commands
  <2>3. PICK first \in {"link", "unplace", "claim"} :
          /\ Begin(p, j, first)
          /\ first = "link" => home[h] = Absent
          /\ first = "unplace" => flag
    BY <1>5, <2>1 DEF RunLink
  <2>4. \A spare : Place(j, first, home[j.h], repo[j.n], spare)
    BY <2>2, <2>3 DEF Place, LinkPlace
  <2>5. QED
    BY <2>2, <2>3, <2>4, SafeBegin
<1>6. ASSUME NEW key \in Settings, NEW d \in Durations, RunConfigSet(p, key, d) PROVE SafeInv'
  <2>1. PICK j : j = [NoJob EXCEPT !.key = key, !.to = d]
    OBVIOUS
  <2>2. IsJob(j) /\ j.cmd = "set"
    BY <2>1 DEF NoJob, IsJob, Commands
  <2>3. Begin(p, j, "lock")
    BY <1>6, <2>1 DEF RunConfigSet
  <2>4. PICK i : i = [j EXCEPT !.cfg = disk]
    OBVIOUS
  <2>5. i.cmd = "set"
    BY <2>2, <2>4, WorkGoesOn DEF SameWork
  <2>6. /\ pc[p] = "idle" /\ pc' = [pc EXCEPT ![p] = "lock"] /\ job' = [job EXCEPT ![p] = i]
        /\ UNCHANGED fileVars
    BY <2>3, <2>4 DEF Begin, Goto
  <2>7. job'[p] = i /\ Aside(p)
    BY <2>6, OneMoves DEF TypeInv, ConfigInv
  <2>8. ~Busy(p) /\ ~Busy(p)' /\ Spares(p)
    BY <2>5, <2>6, <2>7, AsideSpares DEF Busy
  <2>9. QED
    BY <2>6, <2>8, SafeElsewhere
<1>7. QED
  BY <1>2, <1>3, <1>4, <1>5, <1>6 DEF Begins

\* The user writes a file upon which no command is at work.
LEMMA SafeEdit ==
  ASSUME TypeInv, TypeInv', SafeInv, odd' = {}, NEW h \in Homes, NEW t \in Texts, Edit(h, t)
  PROVE  SafeInv'
<1>1. /\ ~Active(h, home[h]) /\ UNCHANGED <<backups, pc, job>>
      /\ home \in [Homes -> Data \cup Names \cup {Absent}] /\ repo \in [Names -> Data \cup {Absent}]
      /\ kept \subseteq Texts
  BY DEF Edit, TypeInv, FilesInv, CountInv
<1>2. CASE IsLink(h) /\ repo' = [repo EXCEPT ![home[h]] = t] /\ UNCHANGED home
  <2> DEFINE n == home[h]
  <2>1. /\ n \in Names /\ repo'[n] = t /\ \A m \in Names : m # n => repo'[m] = repo[m]
        /\ kept' = (kept \ {repo[n]}) \cup {t} /\ UNCHANGED home
    BY <1>1, <1>2 DEF Edit, IsLink, Text
  <2>2. kept' \subseteq Everywhere'
    BY <1>1, <2>1 DEF SafeInv, Everywhere
  <2>3. ASSUME NEW q \in Procs PROVE InPlace(q)'
    <3> SUFFICES ASSUME Busy(q) PROVE InPlace(q)'
      BY <1>1 DEF InPlace, Busy
    <3>1. InPlace(q) /\ job[q].n # n
      BY <1>1, <2>1 DEF SafeInv, Active, Busy
    <3>2. job[q].n \in Names => repo'[job[q].n] = repo[job[q].n]
      BY <2>1, <3>1
    <3>3. job[q].cmd = "add" => job[q].n \in Names
      BY DEF TypeInv, Refers, Busy
    <3>4. QED
      BY <1>1, <2>1, <3>1, <3>2, <3>3 DEF InPlace, Busy, Place
  <2>4. QED
    BY <1>1, <2>2, <2>3 DEF SafeInv, Busy
<1>3. CASE home' = [home EXCEPT ![h] = t] /\ UNCHANGED repo
  <2>1. /\ home'[h] = t /\ \A g \in Homes : g # h => home'[g] = home[g]
        /\ UNCHANGED repo
    BY <1>1, <1>3
  <2>2. \A x \in kept' : x = t \/ (x \in kept /\ x # home[h])
    <3>1. CASE IsLink(h)
      BY <1>1, <2>1, <3>1, TextsApart DEF Edit, IsLink
    <3>2. CASE ~IsLink(h)
      BY <3>2 DEF Edit, Text
    <3>3. QED
      BY <3>1, <3>2
  <2>3. kept' \subseteq Everywhere'
    BY <1>1, <2>1, <2>2 DEF SafeInv, Everywhere
  <2>4. ASSUME NEW q \in Procs PROVE InPlace(q)'
    <3> SUFFICES ASSUME Busy(q) PROVE InPlace(q)'
      BY <1>1 DEF InPlace, Busy
    <3>1. InPlace(q) /\ job[q].h # h /\ job[q].h \in Homes
      BY <1>1, AtWork DEF SafeInv, Active, Busy
    <3>2. home'[job[q].h] = home[job[q].h]
      BY <2>1, <3>1
    <3>3. QED
      BY <1>1, <2>1, <3>1, <3>2 DEF InPlace, Busy
  <2>5. QED
    BY <1>1, <2>3, <2>4 DEF SafeInv, Busy
<1>4. QED
  BY <1>2, <1>3 DEF Edit

\* What excuses a loss is never taken back.
LEMMA OddGrows ==
  ASSUME [Next]_vars
  PROVE  odd \subseteq odd'
<1>1. ASSUME NEW p \in Procs, Begins(p) PROVE odd \subseteq odd'
  <2>1. PICK j, first : Begin(p, j, first)
    BY <1>1 DEF Begins, RunAdd, RunRemove, RunUnlink, RunLink, RunConfigSet
  <2>2. QED
    BY <2>1 DEF Begin
<1>2. ASSUME NEW p \in Procs, Steps(p) PROVE odd \subseteq odd'
  <2>1. ASSUME \/ Claim(p) \/ Backup(p) \/ Create(p) \/ RemoveOriginal(p) \/ Uncreate(p)
               \/ Unplace(p) \/ CreateLink(p) \/ Clear(p) \/ Restore(p) \/ Map(p) \/ Unmap(p)
               \/ Truncate(p)
        PROVE  odd \subseteq odd'
    BY <2>1 DEF Claim, Backup, Create, RemoveOriginal, Uncreate, Unplace, CreateLink, Clear,
         Restore, Map, Unmap, Truncate, SameJob
  <2>2. ASSUME \/ Write(p) \/ Unplant(p) \/ CopyBack(p) \/ DropBackup(p) \/ CopyRepo(p)
               \/ Overwrite(p) \/ DeleteLink(p) \/ DeleteTracked(p) \/ RemoveLink(p)
               \/ Lock(p) \/ Reload(p) \/ Unlock(p)
        PROVE  odd \subseteq odd'
    BY <2>2 DEF Write, Unplant, CopyBack, DropBackup, CopyRepo, Overwrite, DeleteLink,
         DeleteTracked, RemoveLink, Lock, Reload, Unlock, SameJob
  <2>3. QED
    BY <1>2, <2>1, <2>2 DEF Steps
<1>3. ASSUME NEW p \in Procs, Failures(p) PROVE odd \subseteq odd'
  <2>1. ASSUME \/ ClaimFails(p) \/ BackupFails(p) \/ CreateFails(p) \/ RemoveOriginalFails(p)
               \/ UncreateFails(p) \/ UnplaceFails(p) \/ CreateLinkFails(p) \/ RestoreFails(p)
               \/ MapFails(p) \/ SaveFails(p)
        PROVE  odd \subseteq odd'
    BY <2>1 DEF ClaimFails, BackupFails, CreateFails, RemoveOriginalFails, UncreateFails,
         UnplaceFails, CreateLinkFails, RestoreFails, MapFails, SaveFails, SameJob
  <2>2. ASSUME \/ UnplantFails(p) \/ CopyBackFails(p) \/ DropBackupFails(p) \/ CopyRepoFails(p)
               \/ OverwriteFails(p) \/ DeleteLinkFails(p) \/ DeleteTrackedFails(p)
               \/ RemoveLinkFails(p) \/ LockFails(p) \/ ReloadFails(p)
        PROVE  odd \subseteq odd'
    BY <2>2 DEF UnplantFails, CopyBackFails, DropBackupFails, CopyRepoFails, OverwriteFails,
         DeleteLinkFails, DeleteTrackedFails, RemoveLinkFails, LockFails, ReloadFails, SameJob
  <2>3. QED
    BY <1>3, <2>1, <2>2 DEF Failures
<1>4. ASSUME NEW p \in Procs, Crash(p) PROVE odd \subseteq odd'
  BY <1>4 DEF Crash
<1>5. ASSUME NEW h \in Homes, NEW t \in Texts, Edit(h, t) PROVE odd \subseteq odd'
  BY <1>5 DEF Edit
<1>6. QED
  BY <1>1, <1>2, <1>3, <1>4, <1>5 DEF Next, vars

\* A command that works upon files, step by step.
LEMMA SafeBusySteps ==
  ASSUME TypeInv, TypeInv', SafeInv, odd' = {}, NEW p \in Procs, Busy(p),
         Steps(p) \/ Failures(p) \/ Crash(p)
  PROVE  SafeInv'
<1>1. job[p].cmd # "set"
  BY DEF Busy
<1>2. ~Lock(p) /\ ~LockFails(p) /\ ~Reload(p) /\ ~ReloadFails(p) /\ ~Unlock(p)
  BY <1>1 DEF Lock, LockFails, Reload, ReloadFails, Unlock, At
<1>3. ~Overwrite(p) /\ ~UnplantFails(p)
  BY DEF Overwrite, UnplantFails
<1>4. CASE Steps(p) \/ Crash(p)
  BY <1>2, <1>3, <1>4, SafeMappingSteps, SafeBackupSteps, SafeRepoSteps, SafeHomeSteps,
     SafeWriteSteps, SafeQuietSteps DEF Steps
<1>5. CASE Failures(p)
  BY <1>2, <1>3, <1>5, SafeQuietSteps, SafeBackupSteps, SafeWriteSteps DEF Failures
<1>6. QED
  BY <1>4, <1>5

LEMMA NextLoss ==
  ASSUME TypeInv, LossInv, [Next]_vars
  PROVE  LossInv'
<1> SUFFICES ASSUME odd' = {} PROVE SafeInv'
  BY DEF LossInv
<1>1. TypeInv' /\ SafeInv
  BY NextType, OddGrows DEF LossInv
<1>2. ASSUME NEW p \in Procs, Begins(p) PROVE SafeInv'
  BY <1>1, <1>2, SafeBegins
<1>3. ASSUME NEW p \in Procs, Steps(p) \/ Failures(p) \/ Crash(p) PROVE SafeInv'
  BY <1>1, <1>3, SafeBusySteps, SafeSetSteps
<1>4. ASSUME NEW h \in Homes, NEW t \in Texts, Edit(h, t) PROVE SafeInv'
  BY <1>1, <1>4, SafeEdit
<1>5. CASE UNCHANGED vars
  BY <1>1, <1>5 DEF SafeInv, InPlace, Busy, Everywhere, vars, fileVars
<1>6. QED
  BY <1>2, <1>3, <1>4, <1>5 DEF Next

\* At first every text is in its home file or, of a file that was added or cloned,
\* in the repository.
LEMMA InitLoss == Init => SafeInv
<1> SUFFICES ASSUME Init PROVE SafeInv
  OBVIOUS
<1>1. \A p \in Procs : ~Busy(p)
  BY DEF Init, Busy
<1>2. PICK tracked \in SUBSET Homes, cloned \in SUBSET (Names \cap DOMAIN Original) :
        LET MapsTo(n) == {h \in tracked : NameOf[h] = n} IN
        /\ \A g, h \in tracked : NameOf[g] = NameOf[h] => g = h
        /\ \A h \in tracked : NameOf[h] \notin cloned
        /\ home = [h \in Homes |-> IF h \in tracked THEN NameOf[h] ELSE Original[h]]
        /\ repo = [n \in Names |-> IF n \in cloned THEN Original[n]
                                  ELSE IF MapsTo(n) = {} THEN Absent
                                  ELSE Original[CHOOSE h \in MapsTo(n) : TRUE]]
        /\ kept = {Original[x] : x \in Homes \cup cloned}
  BY DEF Init
<1> DEFINE MapsTo(n) == {h \in tracked : NameOf[h] = n}
<1>3. ASSUME NEW h \in Homes PROVE Original[h] \in Everywhere
  <2>1. CASE h \in tracked
    <3>1. NameOf[h] \in Names \ cloned
      BY <1>2, <2>1, DotfileAssumption
    <3>2. MapsTo(NameOf[h]) = {h}
      BY <1>2, <2>1
    <3>3. (CHOOSE g \in MapsTo(NameOf[h]) : TRUE) = h
      BY <3>2
    <3>4. repo[NameOf[h]] = Original[h]
      BY <1>2, <3>1, <3>2, <3>3
    <3>5. QED
      BY <3>1, <3>4, Somewhere
  <2>2. CASE h \notin tracked
    <3>1. home[h] = Original[h]
      BY <1>2, <2>2
    <3>2. QED
      BY <3>1, Somewhere
  <2>3. QED
    BY <2>1, <2>2
<1>4. ASSUME NEW n \in cloned PROVE Original[n] \in Everywhere
  <2>1. n \in Names /\ repo[n] = Original[n]
    BY <1>2
  <2>2. QED
    BY <2>1, Somewhere
<1>5. kept \subseteq Everywhere
  BY <1>2, <1>3, <1>4
<1>6. QED
  BY <1>1, <1>5 DEF SafeInv, InPlace

\* What the user has written and not given up is in a home file, in the repository
\* or in a backup, whatever step of a command fails and wherever a command is killed,
\* for as long as no two commands work upon one file, the user keeps out of theirs,
\* remove has not copied a file over itself and every link that a roll-back is to
\* remove was removed (executeAddTransaction, rollbackAfterConfigFailure, runLink,
\* runUnlink).
THEOREM NothingLostCorrect == Spec => []NothingLost
<1>1. Init => TypeInv /\ LossInv
  BY InitType, InitLoss DEF LossInv
<1>2. LossInv => NothingLost
  BY DEF LossInv, SafeInv, NothingLost
<1>3. TypeInv /\ LossInv /\ [Next]_vars => TypeInv' /\ LossInv'
  BY NextType, NextLoss
<1>4. QED
  BY <1>1, <1>2, <1>3, PTL DEF Spec

\* When dsm add has saved the configuration the text is in the repository, the link to
\* it is in place and the mapping is in the file, unless another save has written the
\* file since add truncated it; when it has rolled back, and no step of
\* the roll-back has failed, the home file has its text again (runAdd).
THEOREM AddAllOrNothingCorrect == Spec => AddAllOrNothing
<1> DEFINE Added(p) == LET j == job[p] IN
             j.cmd = "add" /\ j.sound /\ odd = {} =>
               /\ Write(p) => /\ disk = Torn => disk'.maps[j.n] = j.h
                              /\ StatusOf(j.n, j.h) = "valid" /\ repo[j.n] = j.was
               /\ Uncreate(p) => home'[j.h] = j.was
<1>1. ASSUME TypeInv, LossInv, NEW p \in Procs PROVE Added(p)
  <2> DEFINE j == job[p]
  <2> SUFFICES ASSUME j.cmd = "add", j.sound, odd = {}, Write(p) \/ Uncreate(p)
               PROVE  /\ Write(p) => /\ disk = Torn => disk'.maps[j.n] = j.h
                                     /\ StatusOf(j.n, j.h) = "valid" /\ repo[j.n] = j.was
                      /\ Uncreate(p) => home'[j.h] = j.was
    OBVIOUS
  <2>1. SafeInv /\ Busy(p)
    BY <1>1 DEF LossInv, Busy, Write, Uncreate, At
  <2>2. /\ AddPlace(j, pc[p], home[j.h], repo[j.n], backups[j.backup].text)
        /\ Refers(j, pc[p], Len(backups))
    BY <1>1, <2>1, AtWork DEF Place
  <2>3. ASSUME Write(p)
        PROVE  /\ disk = Torn => disk'.maps[j.n] = j.h
               /\ StatusOf(j.n, j.h) = "valid" /\ repo[j.n] = j.was
    <3>1. pc[p] = "write" /\ (disk = Torn => disk' = j.cfg)
      BY <2>3 DEF Write, SaveWrites
    <3>2. j.n \in Names /\ j.was \in Data /\ j.cfg.maps[j.n] = j.h
      BY <2>2, <3>1 DEF AddPlace, Refers
    <3>3. home[j.h] = j.n /\ repo[j.n] = j.was
      BY <2>2, <3>1 DEF AddPlace
    <3>4. StatusOf(j.n, j.h) = "valid"
      BY <3>2, <3>3, TextsApart DEF StatusOf, IsFile
    <3>5. QED
      BY <3>1, <3>2, <3>3, <3>4
  <2>4. ASSUME Uncreate(p) PROVE home'[j.h] = j.was
    BY <2>2, <2>4 DEF Uncreate, At, SetRepo, AddPlace
  <2>5. QED
    BY <2>3, <2>4
<1>2. TypeInv /\ LossInv /\ [Next]_vars => [\A p \in Procs : Added(p)]_vars
  BY <1>1
<1>3. Init => TypeInv /\ LossInv
  BY InitType, InitLoss DEF LossInv
<1>4. TypeInv /\ LossInv /\ [Next]_vars => TypeInv' /\ LossInv'
  BY NextType, NextLoss
<1>5. AddAllOrNothing <=> [][\A p \in Procs : Added(p)]_vars
  BY DEF AddAllOrNothing
<1> HIDE DEF Added
<1>6. QED
  BY <1>2, <1>3, <1>4, <1>5, PTL DEF Spec
=============================================================================
