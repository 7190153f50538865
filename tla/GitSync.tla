-------------------------------- MODULE GitSync --------------------------------
(***************************************************************************)
(* internal/gitmanager: git_manager.go and stash.go, and their use by      *)
(* `dsm sync` and the daemon.  The processes share one repository with the *)
(* user, who edits it at any time; other machines push to the remote.      *)
(*                                                                         *)
(* A history is the sequence of its commits.  Operations of go-git are one *)
(* step, but for those in which another process may come in between.  Any  *)
(* step may fail or be the last one of its process: Stop.                  *)
(***************************************************************************)
EXTENDS Naturals, SequencesExt

CONSTANTS
  Procs,       \* processes with a git manager
  Pullers,     \* those that pull
  Syncers,     \* those that commit and push
  Paths,       \* files of the repository
  Texts,       \* contents of files
  Empty,       \* the content of an empty file
  Absent,      \* no such file
  LocalGone, RemoteGone,   \* the tombstones in conflict artifacts
  Other,       \* the other machines, as an author
  UserWrites, OtherWrites,   \* what the user and the other machines write
  MaxTime,     \* bound on the seconds that pass
  MaxEdits,    \* bound on the user's edits
  MaxCommits   \* bound on the length of a history

ASSUME GitSyncAssumption ==
  /\ MaxTime \in Nat /\ MaxEdits \in Nat /\ MaxCommits \in Nat \ {0}
  /\ IsInjective(<<Empty, Absent, LocalGone, RemoteGone>>)
  /\ {Empty, Absent, LocalGone, RemoteGone} \cap Texts = {}
  /\ Other \notin Procs /\ Pullers \subseteq Procs /\ Syncers \subseteq Procs
  /\ UserWrites \cup OtherWrites \subseteq Texts \cup {Empty, Absent}

VARIABLES
  repo,        \* the directory of the repository
  origin,      \* the remote it is configured with
  work,        \* work tree
  index,
  head,        \* history of the local branch
  remote,      \* history of the remote branch
  stash,       \* stash directories, by the second of their name
  arts,        \* conflict artifacts, by the second of their directory
  now,         \* clock, in seconds
  pc, job,     \* where each process is, and its local variables
  edits,       \* edits made so far
  mine,        \* what the user last wrote to each file, or Absent
  basis,       \* length of the local branch when the user last edited each file
  odd          \* coincidences so far, see Coincidence

processVars == <<pc, job>>
userVars == <<edits, mine, basis>>
treeVars == <<work, index, head>>
setupVars == <<repo, origin>>
vars == <<setupVars, treeVars, remote, stash, arts, now, processVars, userVars, odd>>

Times == 0..MaxTime
Files == Texts \cup {Empty, LocalGone, RemoteGone}
Contents == Files \cup {Absent}
Trees == [Paths -> Contents]
Histories == Seq([tree : Trees, by : Procs \cup {Other}])
Tree(h) == IF h = <<>> THEN [f \in Paths |-> Absent] ELSE Last(h).tree

\* What the metadata of a stash say of a file, and the local variables of a
\* process: the files still to treat, the entries and the second of its stash,
\* whether there was a conflict, the file it is at and what it has read of it; the
\* parent and the index of its commit.
NoEntry == [kind |-> "none", base |-> FALSE]
Entries == [kind : {"none", "copy", "deleted"}, base : BOOLEAN]
Triples == [remote : Contents, base : Contents, local : Contents]
None == [remote |-> Absent, base |-> Absent, local |-> Absent]
Jobs == [left : SUBSET Paths, entry : [Paths -> Entries], at : Times, conflict : BOOLEAN,
         file : Paths \cup {""}, held : Triples, parent : Histories, add : Trees]
NoJob == [left |-> {}, entry |-> [f \in Paths |-> NoEntry], at |-> 0, conflict |-> FALSE,
          file |-> "", held |-> None, parent |-> <<>>, add |-> [f \in Paths |-> Absent]]

\* The writes of applyStash: of the file, or of the artifacts of its conflict.
ArtifactPcs == {"copyRemote", "copyBase", "copyLocal"}
ApplyPcs == {"apply", "replace"} \cup ArtifactPcs
StashPcs == {"stash", "pull"} \cup ApplyPcs
CommitPcs == {"add", "addWrite", "commit", "commitWrite", "push"}
BootPcs == {"boot", "clone", "remote"}

GitTypeOK ==
  /\ repo \in {"none", "dir", "git"}
  /\ origin \in {"none", "other", "right"}
  /\ work \in Trees /\ index \in Trees
  /\ \A h \in {head, remote} : h \in Histories /\ Len(h) <= MaxCommits
  /\ stash \in [Times -> [Paths -> [local : Contents, base : Contents]]]
  /\ arts \in [Times -> [Paths -> Triples]]
  /\ now \in Times /\ edits \in 0..MaxEdits
  /\ pc \in [Procs -> {"idle", "ready", "status", "pullStatus"} \cup BootPcs \cup CommitPcs \cup StashPcs]
  /\ job \in [Procs -> Jobs] /\ \A p \in Procs : Len(job[p].parent) <= MaxCommits
  /\ mine \in [Paths -> Contents] /\ basis \in [Paths -> 0..MaxCommits]

NoStash == [local |-> Absent, base |-> Absent]

\* The directory is missing, is there without a repository, or with one.
GitInit ==
  /\ remote \in {<<>>} \cup {<<[tree |-> t, by |-> Other]>> : t \in [Paths -> OtherWrites]}
  /\ \/ repo \in {"none", "dir"} /\ origin = "none" /\ head = <<>>
     \/ repo = "git" /\ origin \in {"none", "other", "right"} /\ head = remote
  /\ work = Tree(head) /\ index = work
  /\ stash = [t \in Times |-> [f \in Paths |-> NoStash]]
  /\ arts = [t \in Times |-> [f \in Paths |-> None]]
  /\ now = 0
  /\ pc = [p \in Procs |-> "idle"] /\ job = [p \in Procs |-> NoJob]
  /\ edits = 0
  /\ mine = [f \in Paths |-> Absent] /\ basis = [f \in Paths |-> 0]
  /\ odd = {}
-----------------------------------------------------------------------------
Goto(p, here, next) == pc[p] = here /\ pc' = [pc EXCEPT ![p] = next]
Return(p) == pc' = [pc EXCEPT ![p] = "ready"] /\ job' = [job EXCEPT ![p] = NoJob]
Set(p, field, value) == job' = [job EXCEPT ![p] = [@ EXCEPT ![field] = value]]

\* What the program does nothing about: an edit while the changes are stashed
\* away or about to be put back, two processes at work at once, two pulls at once, two
\* resolutions at once, two commits upon one parent, of which the later one undoes the
\* other, two stashes in one second, a failure with the changes still stashed away.
Coincidence(what, if) == odd' = IF if THEN odd \cup {what} ELSE odd

\* A process begins to change the repository.
Beside(p, pcs) == \E q \in Procs \ {p} : pc[q] \in pcs
Begins(p) == Coincidence("processes", Beside(p, CommitPcs \cup StashPcs))
BeginsPull(p) ==
  odd' = odd \cup (IF Beside(p, CommitPcs \cup StashPcs) THEN {"processes"} ELSE {})
             \cup (IF Beside(p, StashPcs) THEN {"pulls"} ELSE {})
-----------------------------------------------------------------------------
(* bootstrapRepo and ensureRemote.                                            *)

Boot(p) ==
  /\ pc[p] = "idle"
  /\ pc' = [pc EXCEPT ![p] = "boot"]
  /\ UNCHANGED <<setupVars, treeVars, remote, stash, arts, now, job, userVars, odd>>

BootRest == UNCHANGED <<remote, stash, arts, now, job, userVars, odd>>

MakeDirectory(p) ==
  /\ Goto(p, "boot", "clone")
  /\ repo = "none" /\ repo' = "dir"
  /\ UNCHANGED <<origin, treeVars>> /\ BootRest

\* An empty remote cannot be cloned; what a failed clone leaves is the directory.
Clone(p) ==
  /\ Goto(p, "clone", "ready")
  /\ repo = "dir" /\ repo' = "git"
  /\ remote # <<>>
  /\ origin' = "right"
  /\ head' = remote /\ work' = Tree(remote) /\ index' = Tree(remote)
  /\ BootRest

OpenOrInit(p) ==
  /\ Goto(p, "boot", "remote")
  /\ repo # "none" /\ repo' = "git"
  /\ UNCHANGED <<origin, treeVars>> /\ BootRest

\* A remote with another URL is deleted before it is made anew.
EnsureRemote(p) ==
  /\ pc[p] = "remote"
  /\ IF origin = "other"
     THEN origin' = "none" /\ UNCHANGED pc
     ELSE origin' = "right" /\ Goto(p, "remote", "ready")
  /\ UNCHANGED <<repo, treeVars>> /\ BootRest

Bootstrap(p) == Boot(p) \/ MakeDirectory(p) \/ Clone(p) \/ OpenOrInit(p) \/ EnsureRemote(p)
-----------------------------------------------------------------------------
(* StageAndCommit, Push, StageCommitAndPush.                                  *)

Dirty == {f \in Paths : work[f] # Tree(head)[f] \/ index[f] # Tree(head)[f]}

CommitRest == UNCHANGED <<setupVars, work, stash, arts, now, userVars>>

CheckStatus(p) ==
  /\ pc[p] = "ready" /\ p \in Syncers
  /\ Dirty # {}
  /\ pc' = [pc EXCEPT ![p] = "add"]
  /\ Begins(p)
  /\ UNCHANGED <<index, head, remote, job>> /\ CommitRest

\* Mutation: only the changed files are put into the index.
ReadWorkTreeChanged(p) ==
  /\ Goto(p, "add", "addWrite")
  /\ Set(p, "add", [f \in Dirty |-> work[f]])
  /\ UNCHANGED <<index, head, remote, odd>> /\ CommitRest

\* go-git reads the index, adds the work tree to it and writes it back.
ReadWorkTree(p) ==
  /\ Goto(p, "add", "addWrite")
  /\ Set(p, "add", work)
  /\ UNCHANGED <<index, head, remote, odd>> /\ CommitRest

AddAll(p) ==
  /\ Goto(p, "addWrite", "commit")
  /\ index' = job[p].add
  /\ Set(p, "add", NoJob.add)
  /\ UNCHANGED <<head, remote, odd>> /\ CommitRest

ReadParent(p) ==
  /\ Goto(p, "commit", "commitWrite")
  /\ Set(p, "parent", head)
  /\ UNCHANGED <<index, head, remote, odd>> /\ CommitRest

\* An empty commit is an error.
Commit(p) ==
  /\ pc[p] = "commitWrite"
  /\ index # Tree(job[p].parent)
  /\ Len(job[p].parent) < MaxCommits
  /\ pc' = [pc EXCEPT ![p] = "push"]
  /\ head' = Append(job[p].parent, [tree |-> index, by |-> p])
  /\ Set(p, "parent", <<>>)
  /\ Coincidence("overwrite", head # job[p].parent)
  /\ UNCHANGED <<index, remote>> /\ CommitRest

\* A push that is no fast-forward is rejected.
Push(p) ==
  /\ pc[p] = "push"
  /\ origin = "right" /\ IsPrefix(remote, head)
  /\ remote' = head
  /\ Return(p)
  /\ UNCHANGED <<index, head, odd>> /\ CommitRest

Sync(p) ==
  CheckStatus(p) \/ ReadWorkTree(p) \/ AddAll(p) \/ ReadParent(p) \/ Commit(p) \/ Push(p)
-----------------------------------------------------------------------------
(* PullWithStash: createStash, the reset, the pull.                           *)

PullRest == UNCHANGED <<setupVars, remote, now, userVars>>

PullStatus(p) ==
  /\ pc[p] = "ready" /\ p \in Pullers
  /\ BeginsPull(p)
  /\ IF Dirty = {}
     THEN Goto(p, "ready", "pull") /\ UNCHANGED job
     ELSE /\ Goto(p, "ready", "stash")
          /\ job' = [job EXCEPT ![p].left = Dirty, ![p].at = now,
               ![p].entry = [f \in Paths |-> IF f \in Dirty /\ work[f] = Absent
                                             THEN [kind |-> "deleted", base |-> FALSE]
                                             ELSE NoEntry]]
  /\ UNCHANGED <<treeVars, stash, arts>> /\ PullRest

Stashed(p) == {f \in Paths : job[p].entry[f] # NoEntry}

\* A stash or a conflict of the same second has files in the directory, other
\* than those that p has put there.
Occupied(p, t) ==
  \E f \in Paths \ (Stashed(p) \ job[p].left) : stash[t][f] # NoStash \/ arts[t][f] # None

\* One file: its local copy, the base copy from HEAD, the entry.  The directory
\* of an earlier stash of the same second is used again.
StashFile(p, f) ==
  LET t == job[p].at
      deleted == job[p].entry[f].kind = "deleted" \/ work[f] = Absent
      base == Tree(head)[f]
  IN
  /\ pc[p] = "stash" /\ f \in job[p].left
  /\ stash' = [stash EXCEPT ![t][f] = [local |-> IF deleted THEN @.local ELSE work[f],
                                       base |-> IF base = Absent THEN @.base ELSE base]]
  /\ job' = [job EXCEPT ![p].left = @ \ {f},
                        ![p].entry[f] = [kind |-> IF deleted THEN "deleted" ELSE "copy",
                                         base |-> base # Absent]]
  /\ Coincidence("second", Occupied(p, t))
  /\ UNCHANGED <<pc, treeVars, arts>> /\ PullRest

\* The metadata are written, then the work tree is reset.  Whether go-git takes
\* or leaves the files it does not track is its own affair.
ResetTo(tree) ==
  /\ index' = tree
  /\ \/ work' = tree
     \/ work' = [f \in Paths |-> IF tree[f] = Absent /\ index[f] = Absent THEN work[f] ELSE tree[f]]

\* Mutation: the work tree is reset when the first copies are made.
ResetEarly(p) ==
  /\ Goto(p, "stash", "pull")
  /\ ResetTo(Tree(head))
  /\ UNCHANGED <<head, stash, arts, job, odd>> /\ PullRest

Reset(p) ==
  /\ Goto(p, "stash", "pull")
  /\ job[p].left = {}
  /\ ResetTo(Tree(head))
  /\ UNCHANGED <<head, stash, arts, job, odd>> /\ PullRest

Strands(p) == Coincidence("failure", pc[p] \in {"pull"} \cup ApplyPcs /\ Stashed(p) # {})

\* After the pull the stash, if there is one, is applied.
Pulled(p) ==
  IF Stashed(p) = {} THEN Return(p)
  ELSE Goto(p, "pull", "apply") /\ Set(p, "left", Stashed(p))

UpToDate(p) ==
  /\ pc[p] = "pull"
  /\ IsPrefix(remote, head)
  /\ Pulled(p)
  /\ UNCHANGED <<treeVars, stash, arts, odd>> /\ PullRest

Unstaged == \E f \in Paths : index[f] # Absent /\ work[f] # index[f]

FastForward(p) ==
  /\ pc[p] = "pull"
  /\ IsStrictPrefix(head, remote) /\ ~Unstaged
  /\ head' = remote
  /\ ResetTo(Tree(remote))
  /\ Pulled(p)
  /\ UNCHANGED <<stash, arts, odd>> /\ PullRest

\* go-git moves the branch before it sees that the work tree is not clean.
PullRefused(p) ==
  /\ pc[p] = "pull"
  /\ IsStrictPrefix(head, remote) /\ Unstaged
  /\ head' = remote
  /\ Return(p)
  /\ Strands(p)
  /\ UNCHANGED <<work, index, stash, arts>> /\ PullRest
-----------------------------------------------------------------------------
(* applyStash.                                                                *)

\* Mutation: the stash is applied whatever the pull has brought.
FateUnopposed(p, f) ==
  IF work[f] = stash[job[p].at][f].local THEN "keep" ELSE "write"

\* What becomes of one file: nothing, the user's version, or a conflict.
Fate(p, f) ==
  LET e == job[p].entry[f]
      s == stash[job[p].at][f]
      there == work[f]
      unopposed == IF there = Absent THEN ~e.base
                   ELSE s.base \notin {Absent, Empty} /\ there = s.base
  IN
  IF e.kind = "deleted"
  THEN CASE there = Absent -> "keep"
         [] e.base /\ there = s.base -> "write"
         [] ~e.base /\ there = Empty -> "write"
         [] OTHER -> "conflict"
  ELSE IF there = s.local THEN "keep" ELSE IF unopposed THEN "write" ELSE "conflict"

Ours(p, f) == IF job[p].entry[f].kind = "deleted" THEN Absent ELSE stash[job[p].at][f].local

ApplyRest == UNCHANGED <<index, head, stash>> /\ PullRest

\* The process has read the file and its copies, and is about to write.
Takes(p, f, next, held) ==
  /\ Goto(p, "apply", next)
  /\ job' = [job EXCEPT ![p].left = @ \ {f}, ![p].file = f, ![p].held = held]

\* The file is read once; what is written upon it later goes by what was read.
Decide(p, f) ==
  LET s == stash[job[p].at][f]
      ours == Ours(p, f)
      theirs == work[f]
  IN
  /\ f \in job[p].left
  /\ job[p].entry[f].kind = "copy" => ours # Absent
  /\ \/ Fate(p, f) = "keep" /\ Goto(p, "apply", "apply") /\ Set(p, "left", job[p].left \ {f})
     \/ Fate(p, f) = "write" /\ Takes(p, f, "replace", [None EXCEPT !.local = ours])
     \/ /\ Fate(p, f) = "conflict"
        /\ Takes(p, f, "copyRemote",
             [remote |-> IF theirs \in {Absent, Empty} THEN RemoteGone ELSE theirs,
              base |-> s.base,
              local |-> IF ours = Absent THEN LocalGone ELSE ours])
  /\ UNCHANGED <<work, arts, odd>> /\ ApplyRest

\* The file is treated.
NextFile(p, conflict) ==
  /\ Goto(p, pc[p], "apply")
  /\ job' = [job EXCEPT ![p].file = "", ![p].held = None, ![p].conflict = conflict]

Replace(p) ==
  /\ pc[p] = "replace"
  /\ work' = [work EXCEPT ![job[p].file] = job[p].held.local]
  /\ NextFile(p, job[p].conflict)
  /\ UNCHANGED <<arts, odd>> /\ ApplyRest

\* persistConflictArtifacts: remote, base and local version, in that order.
WriteArtifact(p, version, content) ==
  arts' = [arts EXCEPT ![job[p].at][job[p].file][version] = content]
ArtifactRest == UNCHANGED <<work, odd>> /\ ApplyRest

\* Mutation: there is no tombstone for what the remote has removed.
CopyRemoteNoTombstone(p) ==
  /\ Goto(p, "copyRemote", "copyBase")
  /\ IF job[p].held.remote = RemoteGone THEN UNCHANGED arts
     ELSE WriteArtifact(p, "remote", job[p].held.remote)
  /\ UNCHANGED job /\ ArtifactRest

CopyRemote(p) ==
  /\ Goto(p, "copyRemote", "copyBase")
  /\ WriteArtifact(p, "remote", job[p].held.remote)
  /\ UNCHANGED job /\ ArtifactRest

CopyBase(p) ==
  LET base == job[p].held.base IN
  /\ Goto(p, "copyBase", "copyLocal")
  /\ IF base \in {Absent, Empty} THEN UNCHANGED arts ELSE WriteArtifact(p, "base", base)
  /\ UNCHANGED job /\ ArtifactRest

CopyLocal(p) ==
  /\ pc[p] = "copyLocal"
  /\ WriteArtifact(p, "local", job[p].held.local)
  /\ NextFile(p, TRUE)
  /\ ArtifactRest

\* An error in a write, which has truncated the file.
Truncates(p, version) ==
  WriteArtifact(p, version, Empty) /\ UNCHANGED work
ApplyFails(p) ==
  /\ \/ /\ pc[p] = "replace" /\ job[p].held.local # Absent
        /\ work' = [work EXCEPT ![job[p].file] = Empty]
        /\ UNCHANGED arts
     \/ pc[p] = "copyRemote" /\ Truncates(p, "remote")
     \/ pc[p] = "copyBase" /\ job[p].held.base \notin {Absent, Empty} /\ Truncates(p, "base")
     \/ pc[p] = "copyLocal" /\ Truncates(p, "local")
  /\ Return(p)
  /\ Strands(p)
  /\ ApplyRest

\* The stash goes unless there was a conflict.
Applied(p) ==
  /\ pc[p] = "apply" /\ job[p].left = {}
  /\ stash' = IF job[p].conflict THEN stash
              ELSE [stash EXCEPT ![job[p].at] = [f \in Paths |-> NoStash]]
  /\ Return(p)
  /\ UNCHANGED <<treeVars, arts, odd>> /\ PullRest

Pull(p) ==
  \/ PullStatus(p) \/ Reset(p) \/ UpToDate(p) \/ FastForward(p) \/ PullRefused(p) \/ Applied(p)
  \/ Replace(p) \/ CopyRemote(p) \/ CopyBase(p) \/ CopyLocal(p) \/ ApplyFails(p)
  \/ \E f \in Paths : StashFile(p, f) \/ Decide(p, f)
-----------------------------------------------------------------------------
(* Everything else.                                                           *)

\* An error or the end of the process.  Once the repository is there a new
\* process finds it as this one did.
Stop(p) ==
  /\ pc[p] \notin {"idle", "ready"}
  /\ IF pc[p] \in BootPcs THEN Goto(p, pc[p], "idle") /\ UNCHANGED job ELSE Return(p)
  /\ Strands(p)
  /\ UNCHANGED <<setupVars, treeVars, remote, stash, arts, now, userVars>>

\* What is written into the file now will be overwritten.
Window(f) ==
  \E p \in Procs : pc[p] \in {"stash", "pull"} \/ (pc[p] = "replace" /\ job[p].file = f)

\* The user writes or removes a file of the work tree.
Edit(f, c) ==
  /\ repo = "git" /\ edits < MaxEdits /\ work[f] # c
  /\ work' = [work EXCEPT ![f] = c]
  /\ edits' = edits + 1
  /\ mine' = [mine EXCEPT ![f] = IF c = Empty THEN Absent ELSE c]
  /\ basis' = [basis EXCEPT ![f] = Len(head)]
  /\ Coincidence("edit", Window(f))
  /\ UNCHANGED <<setupVars, index, head, remote, stash, arts, now, processVars>>

\* Another machine commits and pushes.
RemoteCommit(f, c) ==
  /\ Len(remote) < MaxCommits /\ Tree(remote)[f] # c
  /\ remote' = Append(remote, [tree |-> [Tree(remote) EXCEPT ![f] = c], by |-> Other])
  /\ UNCHANGED <<setupVars, treeVars, stash, arts, now, processVars, userVars, odd>>

Tick ==
  /\ now < MaxTime /\ now' = now + 1
  /\ UNCHANGED <<setupVars, treeVars, remote, stash, arts, processVars, userVars, odd>>

GitNext ==
  \/ \E p \in Procs : Bootstrap(p) \/ Sync(p) \/ Pull(p) \/ Stop(p)
  \/ \E f \in Paths : (\E c \in UserWrites : Edit(f, c)) \/ (\E c \in OtherWrites : RemoteCommit(f, c))
  \/ Tick

GitSpec == GitInit /\ [][GitNext]_vars
=============================================================================
