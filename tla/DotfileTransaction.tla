------------------------- MODULE DotfileTransaction -------------------------
(***************************************************************************)
(* dsm add, remove, link, unlink and config set (cmd/add.go, remove.go,    *)
(* link.go, unlink.go, config.go) over internal/symlink, step by step:     *)
(* several commands beside each other, each step may fail, each command    *)
(* may be killed, and the user goes on writing his files.                  *)
(***************************************************************************)
EXTENDS ConfigFile, SequencesExt

CONSTANTS
  Procs,       \* command processes
  Texts,       \* what the user writes
  Empty,       \* the content of a file that was only created
  Original,    \* the text of each home file at first, and of a name that was cloned
  NameOf,      \* the name of a home file in the repository; two may have the same one
  Decoded,     \* the path that the name of a backup of a home file is decoded to
  MaxCommands, MaxFaults, MaxWrites \* bounds

Data == Texts \cup {Empty}
Nobody == "nobody"

ASSUME DotfileAssumption ==
  /\ IsFiniteSet(Homes) /\ Homes \subseteq DOMAIN Original /\ IsInjective(Original)
  /\ DOMAIN Original \subseteq Homes \cup Names /\ \A x \in DOMAIN Original : Original[x] \in Texts
  /\ NameOf \in [Homes -> Names] /\ Homes \subseteq DOMAIN Decoded
  /\ Empty \notin Texts /\ Data \cap (Names \cup {Absent}) = {} /\ Nobody \notin Procs
  /\ {MaxCommands, MaxFaults, MaxWrites} \subseteq Nat

VARIABLES
  home,     \* a home file: its content, the name it is a link to, or Absent
  repo,     \* a repository file: its content or Absent
  backups,  \* the backups made so far, removed ones with the text Absent
  lock,     \* holder of the lock of the configuration
  pc, job,  \* where each command is, and what it is doing
  commands, faults, writes,  \* counters, bounded
  kept,     \* texts the user has not given up
  odd       \* coincidences that excuse a loss

fileVars == <<home, repo, backups, kept>>
vars == <<fileVars, disk, lock, pc, job, commands, faults, writes, odd>>

Commands == {"add", "remove", "link", "unlink", "set"}
NoConfig == CHOOSE cfg \in Configs : TRUE
\* option: --delete-all, --no-backup, --restore.  was: the text at the start.
\* sound: no step of a roll-back has failed.  stale: the configuration was
\* written by another command, without the lock, since it was loaded.
NoJob == [cmd |-> "set", h |-> Absent, n |-> Absent, option |-> FALSE, key |-> "pull", to |-> 0,
          cfg |-> NoConfig, backup |-> 0, was |-> Absent, sound |-> TRUE, stale |-> FALSE]

Locked == {"reload", "truncate", "write", "unlock"}
Pcs == {"idle", "claim", "copy", "create", "remove", "link", "clear", "restore", "uncreate",
        "map", "truncate", "write", "unplant", "copyback", "dropbackup", "copyrepo",
        "unplace", "overwrite", "dellink", "deltracked", "unlink", "unmap",
        "lock", "reload", "unlock"}

TypeOK ==
  /\ DiskTypeOK
  /\ home \in [Homes -> Data \cup Names \cup {Absent}] /\ repo \in [Names -> Data \cup {Absent}]
  /\ \A i \in DOMAIN backups : backups[i].of \in Homes /\ backups[i].text \in Data \cup {Absent}
  /\ pc \in [Procs -> Pcs]
  /\ \A p \in Procs :
       /\ job[p].cfg \in Configs /\ job[p].cmd \in Commands
       /\ job[p].backup \in 0..Len(backups)
       /\ (lock = p) <=> (job[p].cmd = "set" /\ pc[p] \in Locked)
  /\ commands \in 0..MaxCommands /\ faults \in 0..MaxFaults /\ writes \in 0..MaxWrites
  /\ kept \subseteq Texts /\ odd \subseteq {"edit", "overlap", "rollback", "removal"}

\* Some files have been added before, each of which has left a backup; a file
\* in the repository may have come from another machine.
Init ==
  \E tracked \in SUBSET Homes, cloned \in SUBSET (Names \cap DOMAIN Original) :
    LET MapsTo(n) == {h \in tracked : NameOf[h] = n}
        files == Homes \cup cloned
    IN
    /\ \A g, h \in tracked : NameOf[g] = NameOf[h] => g = h
    /\ \A h \in tracked : NameOf[h] \notin cloned
    /\ home = [h \in Homes |-> IF h \in tracked THEN NameOf[h] ELSE Original[h]]
    /\ repo = [n \in Names |-> IF n \in cloned THEN Original[n]
                              ELSE IF MapsTo(n) = {} THEN Absent
                              ELSE Original[CHOOSE h \in MapsTo(n) : TRUE]]
    /\ backups = SetToSeq({[of |-> h, text |-> Original[h]] : h \in tracked})
    /\ DiskInit([n \in Names |-> IF MapsTo(n) = {} THEN Absent
                                 ELSE CHOOSE h \in MapsTo(n) : TRUE])
    /\ lock = Nobody
    /\ pc = [p \in Procs |-> "idle"] /\ job = [p \in Procs |-> NoJob]
    /\ commands = 0 /\ faults = 0 /\ writes = 0
    /\ kept = {Original[x] : x \in files} /\ odd = {}
-----------------------------------------------------------------------------
(* Files.                                                                    *)

IsLink(h) == home[h] \in Names
IsFile(h) == home[h] \in Data
\* What os.Stat and os.Open find: they follow a link.
Text(h) == IF IsLink(h) THEN repo[home[h]] ELSE home[h]

SetHome(h, to) == home' = [home EXCEPT ![h] = to] /\ UNCHANGED <<repo, backups, kept>>
SetRepo(n, to) == repo' = [repo EXCEPT ![n] = to] /\ UNCHANGED <<home, backups, kept>>
SetBackup(b, to) == backups' = [backups EXCEPT ![b].text = to] /\ UNCHANGED <<home, repo, kept>>

\* O_CREATE with O_TRUNC: through a link into the file it names.
WriteAt(h, text) == IF IsLink(h) THEN SetRepo(home[h], text) ELSE SetHome(h, text)

\* copyFile from the repository.  If the target is a link to the file that is
\* read, the file is truncated before anything is read from it.
CopyInto(n, h) == WriteAt(h, IF home[h] = n THEN Empty ELSE repo[n])
-----------------------------------------------------------------------------
(* The steps of a command.                                                   *)

At(p, here, cmds) == pc[p] = here /\ job[p].cmd \in cmds
Goto(p, next) == pc' = [pc EXCEPT ![p] = next]
End(p) == Goto(p, "idle")
Turn(p, turns) == Goto(p, turns[job[p].cmd])
Calm == UNCHANGED faults
Fault == faults < MaxFaults /\ faults' = faults + 1
\* A step fails because its condition does not hold, or for no reason.
Fails(condition) == IF condition THEN Fault ELSE Calm
Same == UNCHANGED <<disk, lock, commands, writes>>
\* A command that ends leaves its memory behind.
Keep(p, j) == job' = [job EXCEPT ![p] = IF pc'[p] = "idle" THEN NoJob ELSE j]
SameJob(p) == Same /\ Keep(p, job[p]) /\ UNCHANGED odd

Active(h, n) ==
  \E p \in Procs : pc[p] # "idle" /\ (job[p].h = h \/ (n \in Names /\ job[p].n = n))

Begin(p, j, first) ==
  /\ pc[p] = "idle" /\ commands < MaxCommands /\ Loadable
  /\ commands' = commands + 1
  /\ Goto(p, first)
  /\ job' = [job EXCEPT ![p] = [j EXCEPT !.cfg = disk]]
  /\ odd' = odd \cup (IF j.cmd # "set" /\ Active(j.h, j.n) THEN {"overlap"} ELSE {})
  /\ UNCHANGED <<fileVars, disk, lock, faults, writes>>

Job(cmd, h, n, option) ==
  [NoJob EXCEPT !.cmd = cmd, !.h = h, !.n = n, !.option = option, !.was = home[h]]

RunAdd(p, h) == IsFile(h) /\ Begin(p, Job("add", h, NameOf[h], FALSE), "claim")

\* findTrackedFile: by its mapping, else by what it links to.
Tracked(h) == IF MappedFrom(disk, h) # Absent THEN MappedFrom(disk, h) ELSE home[h]

RunRemove(p, h, deleteAll) ==
  /\ IsLink(h)
  /\ Begin(p, Job("remove", h, Tracked(h), deleteAll),
           IF deleteAll THEN "dellink" ELSE "overwrite")

\* With --force, if there is something at the target.
RunLink(p, n, h, noBackup) ==
  /\ repo[n] # Absent
  /\ Begin(p, Job("link", h, n, noBackup),
           IF home[h] = Absent THEN "link" ELSE IF noBackup THEN "unplace" ELSE "claim")

RunUnlink(p, h, restore) ==
  Begin(p, Job("unlink", h, MappedFrom(disk, h), restore), "unlink")

RunConfigSet(p, key, to) ==
  Begin(p, [NoJob EXCEPT !.key = key, !.to = to], "lock")

\* BackupExisting: the name is claimed with an empty file, which is then written.
Claim(p) ==
  /\ At(p, "claim", {"add", "link"}) /\ Text(job[p].h) # Absent
  /\ Goto(p, "copy")
  /\ backups' = Append(backups, [of |-> job[p].h, text |-> Empty])
  /\ job' = [job EXCEPT ![p].backup = Len(backups) + 1]
  /\ Calm /\ Same /\ UNCHANGED <<home, repo, kept, odd>>

ClaimFails(p) ==
  /\ At(p, "claim", {"add", "link"}) /\ End(p)
  /\ Fails(Text(job[p].h) # Absent)
  /\ SameJob(p) /\ UNCHANGED fileVars

Backup(p) ==
  /\ At(p, "copy", {"add", "link"}) /\ Text(job[p].h) # Absent
  /\ Turn(p, [add |-> "create", link |-> "unplace"])
  /\ SetBackup(job[p].backup, Text(job[p].h))
  /\ Calm /\ SameJob(p)

\* Mutation: the error is not seen.
BackupFailsUnseen(p) ==
  /\ At(p, "copy", {"add", "link"})
  /\ Turn(p, [add |-> "create", link |-> "unplace"])
  /\ Fails(Text(job[p].h) # Absent)
  /\ SetBackup(job[p].backup, Absent)
  /\ SameJob(p)

BackupFails(p) ==
  /\ At(p, "copy", {"add", "link"}) /\ End(p)
  /\ Fails(Text(job[p].h) # Absent)
  /\ SetBackup(job[p].backup, Absent)
  /\ SameJob(p)

\* executeAddTransaction: the file is read and created anew in the repository.
Creatable(p) == repo[job[p].n] = Absent /\ Text(job[p].h) # Absent
Create(p) ==
  /\ At(p, "create", {"add"}) /\ Creatable(p)
  /\ Goto(p, "remove")
  /\ SetRepo(job[p].n, Text(job[p].h))
  /\ Calm /\ SameJob(p)

CreateFails(p) ==
  /\ At(p, "create", {"add"}) /\ End(p)
  /\ Fails(Creatable(p))
  /\ SameJob(p) /\ UNCHANGED fileVars

RemoveOriginal(p) ==
  /\ At(p, "remove", {"add"}) /\ home[job[p].h] # Absent
  /\ Goto(p, "link")
  /\ SetHome(job[p].h, Absent)
  /\ Calm /\ SameJob(p)

RemoveOriginalFails(p) ==
  /\ At(p, "remove", {"add"}) /\ Goto(p, "uncreate")
  /\ Fails(home[job[p].h] # Absent)
  /\ SameJob(p) /\ UNCHANGED fileVars

\* The copy in the repository goes, at the end of every roll-back.
Uncreate(p) ==
  /\ At(p, "uncreate", {"add"}) /\ End(p)
  /\ SetRepo(job[p].n, Absent)
  /\ Calm /\ SameJob(p)

\* A roll-back has failed.
Unsound(p) == Keep(p, [job[p] EXCEPT !.sound = FALSE])

UncreateFails(p) ==
  /\ At(p, "uncreate", {"add"}) /\ End(p)
  /\ Fault /\ Unsound(p)
  /\ Same /\ UNCHANGED <<fileVars, odd>>

\* runLink removes what is there: os.Remove for a link, else os.RemoveAll, to
\* which it is the same if nothing is.  Without a backup the user gives it up.
Removable(p) == home[job[p].h] # Absent \/ job[p].was \notin Names
Unplace(p) ==
  LET h == job[p].h IN
  /\ At(p, "unplace", {"link"}) /\ Removable(p)
  /\ Goto(p, "link")
  /\ home' = [home EXCEPT ![h] = Absent]
  /\ kept' = IF job[p].option THEN kept \ {home[h]} ELSE kept
  /\ Calm /\ SameJob(p) /\ UNCHANGED <<repo, backups>>

UnplaceFails(p) ==
  /\ At(p, "unplace", {"link"}) /\ End(p)
  /\ Fails(Removable(p))
  /\ SameJob(p) /\ UNCHANGED fileVars

Linkable(p) == repo[job[p].n] # Absent /\ home[job[p].h] = Absent
CreateLink(p) ==
  /\ At(p, "link", {"add", "link"}) /\ Linkable(p)
  /\ Goto(p, "map")
  /\ SetHome(job[p].h, job[p].n)
  /\ Calm /\ SameJob(p)

\* Mutation: add removes its copy and forgets the original.
CreateLinkFailsUnrestored(p) ==
  /\ At(p, "link", {"add", "link"})
  /\ Goto(p, IF job[p].cmd = "add" THEN "uncreate" ELSE "idle")
  /\ Fails(Linkable(p))
  /\ SameJob(p) /\ UNCHANGED fileVars

CreateLinkFails(p) ==
  /\ At(p, "link", {"add", "link"})
  /\ Goto(p, IF job[p].backup = 0 THEN "idle" ELSE "clear")
  /\ Fails(Linkable(p))
  /\ SameJob(p) /\ UNCHANGED fileVars

\* RestoreFromBackup: what is there is removed, and the backup copied.
Restorable(p) == backups[job[p].backup].text # Absent
Clear(p) ==
  /\ At(p, "clear", {"add", "link", "unlink"}) /\ Restorable(p)
  /\ Goto(p, "restore")
  /\ SetHome(job[p].h, Absent)
  /\ Calm /\ SameJob(p)

Restore(p) ==
  /\ At(p, "restore", {"add", "link", "unlink"}) /\ Restorable(p)
  /\ Turn(p, [add |-> "uncreate", link |-> "idle",
              unlink |-> IF job[p].n = Absent THEN "idle" ELSE "unmap"])
  /\ WriteAt(job[p].h, backups[job[p].backup].text)
  /\ Calm /\ SameJob(p)

RestoreFails(p) ==
  /\ pc[p] \in {"clear", "restore"}
  /\ Turn(p, [add |-> "uncreate", link |-> "idle", unlink |-> "idle"])
  /\ Fails(Restorable(p)) /\ Unsound(p)
  /\ UNCHANGED fileVars \/ (pc[p] = "restore" /\ Restorable(p) /\ WriteAt(job[p].h, Empty))
  /\ Same /\ UNCHANGED odd

\* AddMapping, of add an error and of link a warning.
Map(p) ==
  /\ At(p, "map", {"add", "link"}) /\ Addable(job[p].cfg, job[p].n, job[p].h)
  /\ Goto(p, "truncate")
  /\ job' = [job EXCEPT ![p].cfg = WithMapping(@, job[p].n, job[p].h)]
  /\ Calm /\ Same /\ UNCHANGED <<fileVars, odd>>

MapFails(p) ==
  /\ At(p, "map", {"add", "link"}) /\ ~Addable(job[p].cfg, job[p].n, job[p].h)
  /\ Turn(p, [add |-> "unplant", link |-> "idle"])
  /\ Calm /\ SameJob(p) /\ UNCHANGED fileVars

\* updateConfigAfterRemoval, RemoveMapping
Unmap(p) ==
  /\ At(p, "unmap", {"remove", "unlink"})
  /\ Goto(p, "truncate")
  /\ job' = [job EXCEPT ![p].cfg = WithoutMapping(@, job[p].n)]
  /\ Calm /\ Same /\ UNCHANGED <<fileVars, odd>>

\* SaveToFile
Truncate(p) ==
  /\ pc[p] = "truncate" /\ SaveTruncates(job[p].cfg)
  /\ Goto(p, "write")
  /\ Calm /\ UNCHANGED <<fileVars, lock, job, commands, writes, odd>>

Saved == [add |-> "idle", remove |-> "idle", link |-> "idle", unlink |-> "idle", set |-> "unlock"]
Write(p) ==
  /\ pc[p] = "write" /\ SaveWrites(job[p].cfg)
  /\ Turn(p, Saved)
  /\ job' = [q \in Procs |->
       CASE q = p /\ pc'[p] = "idle" -> NoJob
         [] q # p /\ pc[q] # "idle" /\ job[p].cmd # "set" -> [job[q] EXCEPT !.stale = TRUE]
         [] OTHER -> job[q]]
  /\ Calm /\ UNCHANGED <<fileVars, lock, commands, writes, odd>>

\* The write of a process that fails or is killed.
WriteEnds(p) == IF pc[p] = "write" THEN SaveCut ELSE UNCHANGED disk

SaveFails(p) ==
  /\ pc[p] \in {"truncate", "write"}
  /\ Turn(p, [Saved EXCEPT !.add = "unplant"])
  /\ Fails(pc[p] = "write" \/ ~SaveRefused(job[p].cfg))
  /\ WriteEnds(p) /\ Keep(p, job[p])
  /\ UNCHANGED <<fileVars, lock, commands, writes, odd>>

\* rollbackAfterConfigFailure.  When the link cannot be removed, the copy goes
\* through it into the repository file, which is then removed.
Unplant(p) ==
  /\ At(p, "unplant", {"add"}) /\ Goto(p, "copyback")
  /\ SetHome(job[p].h, Absent)
  /\ Calm /\ SameJob(p)

UnplantFails(p) ==
  /\ At(p, "unplant", {"add"}) /\ Goto(p, "copyback")
  /\ Fault /\ Unsound(p)
  /\ odd' = odd \cup {"rollback"}
  /\ Same /\ UNCHANGED fileVars

CopyBack(p) ==
  /\ At(p, "copyback", {"add"}) /\ Goto(p, "dropbackup")
  /\ WriteAt(job[p].h, backups[job[p].backup].text)
  /\ Calm /\ SameJob(p)

CopyBackFails(p) ==
  /\ At(p, "copyback", {"add"}) /\ Goto(p, "copyrepo")
  /\ Fault /\ Unsound(p)
  /\ UNCHANGED fileVars \/ WriteAt(job[p].h, Empty)
  /\ Same /\ UNCHANGED odd

DropBackup(p) ==
  /\ At(p, "dropbackup", {"add"}) /\ Goto(p, "uncreate")
  /\ SetBackup(job[p].backup, Absent)
  /\ Calm /\ SameJob(p)

DropBackupFails(p) ==
  /\ At(p, "dropbackup", {"add"}) /\ Goto(p, "uncreate")
  /\ Fault
  /\ SameJob(p) /\ UNCHANGED fileVars

CopyRepo(p) ==
  /\ At(p, "copyrepo", {"add"}) /\ repo[job[p].n] # Absent
  /\ Goto(p, "uncreate")
  /\ CopyInto(job[p].n, job[p].h)
  /\ Calm /\ SameJob(p)

\* What kept the copy of the backup from the home file may keep this one.
CopyRepoFails(p) ==
  /\ At(p, "copyrepo", {"add"}) /\ End(p)
  /\ UNCHANGED fileVars \/ WriteAt(job[p].h, Empty)
  /\ Calm /\ SameJob(p)

\* executeRemoval.  restoreOriginalFile comes before the link is removed.
Overwrite(p) ==
  /\ At(p, "overwrite", {"remove"}) /\ repo[job[p].n] # Absent
  /\ Goto(p, "dellink")
  /\ CopyInto(job[p].n, job[p].h)
  /\ odd' = odd \cup {"removal"}
  /\ Calm /\ Same /\ UNCHANGED job

OverwriteFails(p) ==
  /\ At(p, "overwrite", {"remove"}) /\ End(p)
  /\ Fails(repo[job[p].n] # Absent)
  /\ SameJob(p) /\ UNCHANGED fileVars

DeleteLink(p) ==
  /\ At(p, "dellink", {"remove"}) /\ home[job[p].h] # Absent
  /\ Goto(p, IF job[p].option THEN "deltracked" ELSE "unmap")
  /\ SetHome(job[p].h, Absent)
  /\ Calm /\ SameJob(p)

DeleteLinkFails(p) ==
  /\ At(p, "dellink", {"remove"}) /\ End(p)
  /\ Fails(home[job[p].h] # Absent)
  /\ SameJob(p) /\ UNCHANGED fileVars

\* --delete-all: the user gives it up.
DeleteTracked(p) ==
  /\ At(p, "deltracked", {"remove"})
  /\ Goto(p, "unmap")
  /\ repo' = [repo EXCEPT ![job[p].n] = Absent]
  /\ kept' = kept \ {repo[job[p].n]}
  /\ Calm /\ SameJob(p) /\ UNCHANGED <<home, backups>>

DeleteTrackedFails(p) ==
  /\ At(p, "deltracked", {"remove"}) /\ End(p)
  /\ Fault
  /\ SameJob(p) /\ UNCHANGED fileVars

\* RemoveLink, and with --restore the newest backup whose name is decoded to
\* the target.
Matching(h) == {i \in DOMAIN backups : backups[i].text # Absent /\ Decoded[backups[i].of] = h}
RemoveLink(p) ==
  LET j == job[p]
      found == j.option /\ Matching(j.h) # {}
  IN
  /\ At(p, "unlink", {"unlink"}) /\ IsLink(j.h)
  /\ Goto(p, IF found THEN "clear" ELSE IF j.n = Absent THEN "idle" ELSE "unmap")
  /\ Keep(p, IF found THEN [j EXCEPT !.backup = Max(Matching(j.h))] ELSE j)
  /\ SetHome(j.h, Absent)
  /\ Calm /\ Same /\ UNCHANGED odd

RemoveLinkFails(p) ==
  /\ At(p, "unlink", {"unlink"}) /\ End(p)
  /\ Fails(IsLink(job[p].h))
  /\ SameJob(p) /\ UNCHANGED fileVars

\* Mutation: the lock is not waited for.
LockShared(p) ==
  /\ At(p, "lock", {"set"})
  /\ Goto(p, "reload")
  /\ lock' = p
  /\ Calm /\ UNCHANGED <<fileVars, disk, job, commands, writes, odd>>

\* runConfigSet, inside WithLock.
Lock(p) ==
  /\ At(p, "lock", {"set"}) /\ lock = Nobody
  /\ Goto(p, "reload")
  /\ lock' = p
  /\ Calm /\ UNCHANGED <<fileVars, disk, job, commands, writes, odd>>

LockFails(p) ==
  /\ At(p, "lock", {"set"}) /\ End(p)
  /\ Fault
  /\ SameJob(p) /\ UNCHANGED fileVars

\* Mutation: the configuration that was loaded before the lock is used.
ReloadNothing(p) ==
  LET j == job[p] IN
  /\ At(p, "reload", {"set"})
  /\ Goto(p, "truncate")
  /\ job' = [job EXCEPT ![p].cfg = WithSetting(@, j.key, j.to)]
  /\ Calm /\ Same /\ UNCHANGED <<fileVars, odd>>

Reload(p) ==
  LET j == job[p] IN
  /\ At(p, "reload", {"set"}) /\ Loadable
  /\ Goto(p, "truncate")
  /\ job' = [job EXCEPT ![p].cfg = WithSetting(disk, j.key, j.to), ![p].stale = FALSE]
  /\ Calm /\ Same /\ UNCHANGED <<fileVars, odd>>

ReloadFails(p) ==
  /\ At(p, "reload", {"set"}) /\ Goto(p, "unlock")
  /\ Fails(Loadable)
  /\ SameJob(p) /\ UNCHANGED fileVars

Unlock(p) ==
  /\ At(p, "unlock", {"set"}) /\ End(p)
  /\ lock' = Nobody
  /\ Keep(p, job[p])
  /\ Calm /\ UNCHANGED <<fileVars, disk, commands, writes, odd>>

\* The process is killed; the kernel releases its lock.
Crash(p) ==
  /\ pc[p] # "idle" /\ End(p)
  /\ Fault
  /\ lock' = IF lock = p THEN Nobody ELSE lock
  /\ WriteEnds(p) /\ Keep(p, job[p])
  /\ UNCHANGED <<fileVars, commands, writes, odd>>

\* The user writes something new into a file, through the link or in its place.
Edit(h, t) ==
  /\ writes < MaxWrites /\ writes' = writes + 1
  /\ t \notin kept
  /\ \/ /\ IsLink(h) /\ repo' = [repo EXCEPT ![home[h]] = t] /\ UNCHANGED home
     \/ home' = [home EXCEPT ![h] = t] /\ UNCHANGED repo
  /\ kept' = IF IsLink(h) /\ home' # home THEN kept \cup {t} ELSE (kept \ {Text(h)}) \cup {t}
  /\ odd' = odd \cup (IF Active(h, home[h]) THEN {"edit"} ELSE {})
  /\ UNCHANGED <<backups, disk, lock, pc, job, commands, faults>>

Begins(p) ==
  \/ \E h \in Homes :
       \/ RunAdd(p, h)
       \/ \E flag \in BOOLEAN : RunRemove(p, h, flag) \/ RunUnlink(p, h, flag)
                               \/ \E n \in Names : RunLink(p, n, h, flag)
  \/ \E key \in Settings, d \in Durations : RunConfigSet(p, key, d)

Steps(p) ==
  \/ Claim(p) \/ Backup(p) \/ Create(p) \/ RemoveOriginal(p) \/ Uncreate(p) \/ Unplace(p)
  \/ CreateLink(p) \/ Clear(p) \/ Restore(p) \/ Map(p) \/ Unmap(p) \/ Truncate(p) \/ Write(p)
  \/ Unplant(p) \/ CopyBack(p) \/ DropBackup(p) \/ CopyRepo(p)
  \/ Overwrite(p) \/ DeleteLink(p) \/ DeleteTracked(p) \/ RemoveLink(p)
  \/ Lock(p) \/ Reload(p) \/ Unlock(p)

Failures(p) ==
  \/ ClaimFails(p) \/ BackupFails(p) \/ CreateFails(p) \/ RemoveOriginalFails(p)
  \/ UncreateFails(p) \/ UnplaceFails(p) \/ CreateLinkFails(p) \/ RestoreFails(p)
  \/ MapFails(p) \/ SaveFails(p) \/ UnplantFails(p) \/ CopyBackFails(p)
  \/ DropBackupFails(p) \/ CopyRepoFails(p) \/ OverwriteFails(p) \/ DeleteLinkFails(p)
  \/ DeleteTrackedFails(p) \/ RemoveLinkFails(p) \/ LockFails(p) \/ ReloadFails(p)

Next ==
  \/ \E p \in Procs : Begins(p) \/ Steps(p) \/ Failures(p) \/ Crash(p)
  \/ \E h \in Homes, t \in Texts : Edit(h, t)

Spec == Init /\ [][Next]_vars
-----------------------------------------------------------------------------
(* Properties.                                                               *)

Everywhere == {home[h] : h \in Homes} \cup {repo[n] : n \in Names}
                \cup {backups[i].text : i \in DOMAIN backups}

\* What the user has written and not given up is in a home file, in the
\* repository or in a backup, whatever step of a command fails and wherever a
\* command is killed, unless one of four things comes to pass: remove copies
\* the file back over itself, a roll-back cannot remove the link, the user writes
\* a file a command is at work upon, or two commands work upon one file
\* (executeAddTransaction, rollbackAfterConfigFailure, runLink, runUnlink).
NothingLost == odd = {} => kept \subseteq Everywhere

\* The next command can load the configuration, its settings keep to their limits
\* and no target is mapped from two names, with any commands beside each other.
\* That is so unless a save is at work upon the file, or has failed or been killed
\* after it truncated it (Cut), or two saves have written over each other (Mixed):
\* nothing replaces the file at once (SaveToFile, AddMapping).
ConfigSound ==
  /\ disk = Torn => \E p \in Procs : pc[p] = "write"
  /\ disk \notin Broken =>
       /\ Validate(disk)
       /\ \A m, n \in Names : disk.maps[m] = disk.maps[n] /\ disk.maps[m] # Absent => m = n

\* VerifyMappings
StatusOf(n, h) ==
  CASE home[h] = Absent -> "missing"
    [] IsFile(h) -> "not_symlink"
    [] home[h] = n /\ repo[n] # Absent -> "valid"
    [] OTHER -> "broken"

\* dsm add either ends with the text in the repository, a valid link to it and the mapping
\* in the configuration, or gives the home file its text back, unless the roll-back
\* fails as well.  That the mapping is there is not said of a file which another
\* save has written since add truncated it (runAdd).
AddAllOrNothing ==
  [][\A p \in Procs : LET j == job[p] IN
       j.cmd = "add" /\ j.sound /\ odd = {} =>
         /\ Write(p) => /\ disk = Torn => disk'.maps[j.n] = j.h
                        /\ StatusOf(j.n, j.h) = "valid" /\ repo[j.n] = j.was
         /\ Uncreate(p) => home'[j.h] = j.was]_vars

\* config set changes its own key and nothing else of what is in the file at that
\* moment, unless a command that does not take the lock has written it
\* meanwhile or has left no configuration there (runConfigSet).
SetKeepsOthers ==
  [][\A p \in Procs : LET j == job[p] IN
       Truncate(p) /\ j.cmd = "set" /\ ~j.stale /\ disk \notin Broken =>
         j.cfg = WithSetting(disk, j.key, j.to)]_vars
-----------------------------------------------------------------------------
(* What the comments and the help say and the program does not do.           *)

\* dsm remove: "the original file in the dotfiles repository will be preserved by
\* default".  It is truncated, through the link, by being copied onto itself.
RemovalPreserves == odd \subseteq {"removal"} => kept \subseteq Everywhere

\* rollbackAfterConfigFailure "attempts to restore the user's original file".
\* When the link cannot be removed it destroys all three copies.
RollbackPreserves == odd \subseteq {"rollback"} => kept \subseteq Everywhere

\* runConfigSet: "file locking to prevent race conditions during config
\* modification".  The other commands do not take the lock.
NoStaleSave == [][\A p \in Procs : Truncate(p) => ~job[p].stale]_vars

\* unlink --restore: "the original file will be restored".  It may be the file of
\* another path, or what was left of a backup that was interrupted.
RestoresTheOriginal ==
  [][\A p \in Procs : Restore(p) /\ job[p].cmd = "unlink" =>
       /\ backups[job[p].backup].of = job[p].h
       /\ backups[job[p].backup].text # Empty]_vars
=============================================================================
